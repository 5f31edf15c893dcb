\* Two operators answer and one cancel call runs while any one activity attempt
\* may be lost: both orders of two answers, and a repeated createHumanApproval.
SPECIFICATION Spec
CONSTANTS
  Task <- MCTwoTasks
  Order <- MCOrder
  TaskRetries = 1
  OrchestrationAttempts = 2
  BrowserAttempts = 2
  Cancellers = {c1}
  Operators = {o1, o2}
  Requeuers = {}
  MaxFaults = 1
INVARIANTS
  TypeOK
  ApprovalGate
  RefusalHolds
  CompletedIsEarned
  FinalStatusAgrees
  OrderedExecution
  FailuresAreQueued
PROPERTIES
  NoNewTaskAfterCancel
SYMMETRY MCSymmetry
CHECK_DEADLOCK FALSE
