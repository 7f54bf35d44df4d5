SPECIFICATION Spec
CONSTANTS
  list = list
  note = note
  run = run
  Unset = Unset
  NoLimit = NoLimit
  Unlimited = Unlimited
  NoResult = NoResult
  Calls <- DefaultCalls
  Keys = {run}
  IdemKeys <- DefaultCalls
  BudgetKey <- DefaultBudgetKey
  IdemKey <- DefaultIdemKey
  Tool <- DefaultToolOf
  Allowed <- DefaultAllowed
  Policy <- DefaultPolicy
  MaxCost = Unlimited
INVARIANT
  DefaultsDoNotRestrict
