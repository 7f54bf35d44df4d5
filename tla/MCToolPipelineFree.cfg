SPECIFICATION Spec
CONSTANTS
  c1 = c1
  c2 = c2
  c3 = c3
  run = run
  key12 = key12
  key3 = key3
  Unlimited = Unlimited
  NoResult = NoResult
  Calls <- FreeCalls
  Keys <- PaidKeys
  IdemKeys <- FreeIdemKeys
  BudgetKey <- FreeBudgetKey
  IdemKey <- FreeIdemKey
  Tool <- FreeTool
  Allowed <- FreeAllowed
  Policy <- Policies
  MaxCost = Unlimited
PROPERTIES
  StoredKeyNeverReruns
  EveryCallEnds
