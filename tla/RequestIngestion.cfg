\* Four calls: as many as it takes to give a waiter the answer of another body.
\* Three of them meet on one key, with any of three bodies, two on one
\* externalRequestId; one fault lets a lock expire under its holder, or a call
\* fail or crash.
SPECIFICATION Spec
CONSTANTS
  a = a
  Call = {a, b, c, d}
  k1 = k1
  k2 = k2
  plain = plain
  other = other
  hook = hook
  again = again
  ext = ext
  None = None
  Key = {k1, k2}
  Body = {plain, other, hook, again}
  Sends <- MCSends
  External <- MCExternal
  Polls = 1
  MaxFaults = 1
INVARIANTS
  TypeOK
  StartedOnce
  SameAnswer
  AnswerFits
  OneHandler
SYMMETRY MCSymmetry
CHECK_DEADLOCK FALSE
