SPECIFICATION Spec
CONSTANTS
  a = a
  server = server
  a1 = a1
  a2 = a2
  s1 = s1
  None = None
  Token = token
  Savers = {a1, a2, s1}
  Process <- MCProcess
  Agents = {a}
  Kinds = {"memory"}
  Routes = {"list", "conflicts", "write"}
  MaxUpdates = 2
INVARIANTS
  OneProcessFileIsWhole
SYMMETRY Alike
