\* Two lost attempts exhaust either kind of activity; an operator answers and the
\* failure queue is worked, while the workflow runs and after it has closed.
SPECIFICATION FairSpec
CONSTANTS
  Task <- MCOneTask
  Order <- MCOrder
  TaskRetries = 0
  OrchestrationAttempts = 2
  BrowserAttempts = 2
  Cancellers = {}
  Operators = {o1}
  Requeuers = {r1}
  MaxFaults = 2
PROPERTIES
  Terminates
  ApprovalIsSettled
  ImplementsLifecycle
CHECK_DEADLOCK FALSE
