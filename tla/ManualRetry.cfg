\* Nothing is lost; a task fails and its queue item is requeued at once.
SPECIFICATION FairSpec
CONSTANTS
  Task <- MCTwoTasks
  Order <- MCOrder
  TaskRetries = 0
  OrchestrationAttempts = 3
  BrowserAttempts = 2
  Cancellers = {}
  Operators = {}
  Requeuers = {r1}
  MaxFaults = 0
PROPERTY
  RequeueIsRetried
CHECK_DEADLOCK FALSE
