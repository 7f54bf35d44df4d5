SPECIFICATION Spec
CONSTANTS
  Planners = {"hermes"}
  MaxSteps = 3
  Responder = TRUE
  Unusable = Unusable
  Raised = Raised
  NoAnswer = NoAnswer
  Unset = Unset
  NoLimit = NoLimit
  Given = Given
INVARIANT
  RepliesAreTrue
CHECK_DEADLOCK FALSE
