\* The worker uses 5 failures and 1 probe; 3 and 2 with four calls let stale calls
\* of two earlier periods meet a spent and an unspent budget.
SPECIFICATION FairSpec
CONSTANTS
  Callers = {a, b, c, d}
  FailureThreshold = 3
  HalfOpenMaxAttempts = 2
  CountCap = 4
INVARIANTS
  TypeOK
  OpenHasDeadline
  ClosedBelowThreshold
  ProbeBudget
PROPERTIES
  Recovers
  Trips
