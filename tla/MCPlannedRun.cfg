SPECIFICATION Spec
CONSTANTS
  Planners = {"rule", "hermes"}
  MaxSteps = 3
  Responder = TRUE
  Unusable = Unusable
  Raised = Raised
  NoAnswer = NoAnswer
  Unset = Unset
  NoLimit = NoLimit
  Given = Given
INVARIANTS
  TypeOK
  ReplyOwnsUp
  RuleRunsAreOrderly
CHECK_DEADLOCK FALSE
