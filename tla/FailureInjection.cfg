\* Three handlers: one that fails, one that has read the armed row as well, and one
\* that finds it disarmed or saves over it.
SPECIFICATION Spec
CONSTANTS
  Request = {q1, q2, q3}
  Admin = {ann}
  MaxStarted = 5
INVARIANT FailsOnce
PROPERTY MaintenanceHolds
CHECK_DEADLOCK FALSE
