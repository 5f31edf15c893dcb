\* Three attempts: the two Temporal makes and the first of the workflow's retry.
\* Three faults let an overdue attempt, a handler without a page and a fresh
\* attempt overlap.
SPECIFICATION Spec
CONSTANTS
  Attempts = {1, 2, 3}
  Hotel = {home, other}
  Home = home
  MaxFaults = 3
INVARIANTS
  TypeOK
  CreatedOnce
  SuccessIsRecorded
  ReceiptIsReal
PROPERTY
  ReceiptIsFinal
CHECK_DEADLOCK FALSE
