SPECIFICATION Spec
CONSTANTS
  c1 = c1
  c2 = c2
  c3 = c3
  run = run
  key12 = key12
  key3 = key3
  Unlimited = Unlimited
  NoResult = NoResult
  Calls <- PaidCalls
  Keys <- PaidKeys
  IdemKeys <- PaidIdemKeys
  BudgetKey <- PaidBudgetKey
  IdemKey <- PaidIdemKey
  Tool <- PaidTool
  Allowed <- PaidAllowed
  Policy <- Policies
  MaxCost <- PaidMaxCost
INVARIANT
  NothingSensitiveLeaves
SYMMETRY SameCall
