\* No fault is needed: one cancel call that looks for the execution row before
\* the workflow has inserted it.
SPECIFICATION Spec
CONSTANTS
  Task <- MCTwoTasks
  Order <- MCOrder
  TaskRetries = 0
  OrchestrationAttempts = 3
  BrowserAttempts = 2
  Cancellers = {c1}
  Operators = {}
  Requeuers = {}
  MaxFaults = 0
PROPERTY
  CancelStops
CHECK_DEADLOCK FALSE
