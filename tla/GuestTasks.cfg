SPECIFICATION Spec
CONSTANTS
  r1 = r1
  r2 = r2
  h1 = h1
  h2 = h2
  Request = {r1, r2}
  Hotel = {h1, h2}
  Cases <- Mixed
  CheckedIn = {h2}
  Staff = {s1}
  MaxTries = 2
  MaxFaults = 1
  MaxActs = 2
INVARIANTS
  TypeOK
  ReportsAreTrue
  NotDoneOnCancelled
  ReservationsProtected
PROPERTIES
  CancelledForGood
  ImplementsLifecycle
CHECK_DEADLOCK FALSE
