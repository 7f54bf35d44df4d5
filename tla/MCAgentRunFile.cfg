SPECIFICATION Spec
CONSTANTS
  Unset = Unset
  local = local
  guest = guest
  Namespaces <- MCNamespaces
  Default = local
  MaxSteps = 2
  Responder = TRUE
  MaxWarnings = 1
INVARIANT
  FileTellsTheRun
\* A run stops when it is over.
CHECK_DEADLOCK FALSE
