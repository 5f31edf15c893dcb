\* The limits of the code.  Two faults let an overdue attempt write after another
\* one was lost.
SPECIFICATION Spec
CONSTANTS
  Answer = {towels, wakeUp}
  Attempts = 3
  MaxRetries = 2
  MaxFaults = 2
INVARIANTS
  CallBudget
  Traceable
CHECK_DEADLOCK FALSE
