SPECIFICATION Spec
CONSTANTS
  alice = alice
  bob = bob
  stackA = stackA
  stackB = stackB
  taskLower = taskLower
  taskUpper = taskUpper
  stack = stack
  task = task
  none = none
  Namespaces = {alice, bob}
  Default = alice
  Facts = {stackA, stackB, taskLower, taskUpper}
  Topic <- MCTopic
  Slot <- MCSlot
  Expiring = {taskLower, taskUpper}
  NoTopic = none
  Ttl = 1
  MaxImportance = 1
  MaxMemories = 2
  MaxTime = 1
  MaxAccess = 1
PROPERTIES PruneBoundsActive
