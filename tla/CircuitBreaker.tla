--------------------------- MODULE CircuitBreaker ---------------------------
(***************************************************************************)
(* The circuit breaker of @innflow/telemetry with several calls in flight. *)
(* The browser worker keeps one breaker for the PMS and runs activities    *)
(* concurrently, so a call admitted in one state may end in another: the   *)
(* code before `await fn()' and the code after it are separate steps.      *)
(*                                                                         *)
(* openedAt is abstracted to what evaluateStateTransition asks of it: not  *)
(* set, set less than resetTimeoutMs ago, or set longer ago.  failureCount *)
(* is only compared with the threshold: the code counts on for ever, the   *)
(* model up to CountCap, a bound of its own that no comparison can see.    *)
(***************************************************************************)
EXTENDS Naturals, FiniteSets

CONSTANTS Callers, FailureThreshold, HalfOpenMaxAttempts, CountCap

ASSUME CallersAssumption == IsFiniteSet(Callers)
ASSUME OptionsAssumption ==
  /\ FailureThreshold \in Nat \ {0}
  /\ HalfOpenMaxAttempts \in Nat \ {0}
  /\ CountCap \in Nat /\ CountCap >= FailureThreshold

VARIABLES
  state, failureCount, halfOpenAttempts, openedAt,
  calls,  \* "probing": admitted in the present HALF_OPEN period
  up      \* the dependency answers

breaker == <<state, failureCount, halfOpenAttempts, openedAt>>
vars == <<breaker, calls, up>>

InFlight == {c \in Callers : calls[c] # "idle"}
Probing  == {c \in Callers : calls[c] = "probing"}

Init ==
  /\ state = "CLOSED" /\ failureCount = 0 /\ halfOpenAttempts = 0
  /\ openedAt = "unset"
  /\ calls = [c \in Callers |-> "idle"]
  /\ up \in BOOLEAN

\* What is left of the calls when the HALF_OPEN period ends: c's has ended.
PeriodEnds(c) ==
  calls' = [d \in Callers |-> CASE d = c                -> "idle"
                                [] calls[d] = "probing" -> "running"
                                [] OTHER                -> calls[d]]

Ends(c) == calls' = [calls EXCEPT ![c] = "idle"]

\* Faulty: the time of the opening is not set.
TransitionToOpenUndated ==
  state' = "OPEN" /\ halfOpenAttempts' = 0 /\ UNCHANGED openedAt

TransitionToOpen ==
  state' = "OPEN" /\ openedAt' = "recent" /\ halfOpenAttempts' = 0

\* recordSuccess: whatever the state, the breaker closes.
RecordSuccess(c) ==
  /\ c \in InFlight /\ up
  /\ state' = "CLOSED" /\ failureCount' = 0 /\ halfOpenAttempts' = 0
  /\ openedAt' = "unset"
  /\ PeriodEnds(c)
  /\ UNCHANGED up

\* failureCount += 1, up to the model's bound.
Increment(n) == IF n < CountCap THEN n + 1 ELSE n

\* Faulty: one failure more than the threshold is needed.
RecordFailureAbove(c) ==
  /\ c \in InFlight /\ ~up
  /\ failureCount' = Increment(failureCount)
  /\ IF state = "HALF_OPEN" \/ failureCount' > FailureThreshold
     THEN TransitionToOpen /\ PeriodEnds(c)
     ELSE UNCHANGED <<state, halfOpenAttempts, openedAt>> /\ Ends(c)
  /\ UNCHANGED up

\* recordFailure: HALF_OPEN opens at once, the others at the threshold; a late
\* failure re-arms a breaker that is already OPEN.
RecordFailure(c) ==
  /\ c \in InFlight /\ ~up
  /\ failureCount' = Increment(failureCount)
  /\ IF state = "HALF_OPEN" \/ failureCount' >= FailureThreshold
     THEN TransitionToOpen /\ PeriodEnds(c)
     ELSE UNCHANGED <<state, halfOpenAttempts, openedAt>> /\ Ends(c)
  /\ UNCHANGED up

\* Faulty: HALF_OPEN keeps the time of the opening.
GetStateKeepsTime ==
  /\ state = "OPEN" /\ openedAt = "elapsed"
  /\ state' = "HALF_OPEN" /\ halfOpenAttempts' = 0
  /\ UNCHANGED <<failureCount, openedAt, calls, up>>

\* Faulty: the timeout closes the breaker.
GetStateCloses ==
  /\ state = "OPEN" /\ openedAt = "elapsed"
  /\ state' = "CLOSED" /\ failureCount' = 0
  /\ halfOpenAttempts' = 0 /\ openedAt' = "unset"
  /\ UNCHANGED <<calls, up>>

\* evaluateStateTransition, as getState runs it.
GetState ==
  /\ state = "OPEN" /\ openedAt = "elapsed"
  /\ state' = "HALF_OPEN" /\ halfOpenAttempts' = 0 /\ openedAt' = "unset"
  /\ UNCHANGED <<failureCount, calls, up>>

AdmitClosed(c) ==
  /\ calls[c] = "idle" /\ state = "CLOSED"
  /\ calls' = [calls EXCEPT ![c] = "running"]
  /\ UNCHANGED <<breaker, up>>

\* Faulty: the call that finds the timeout elapsed is not counted.
AdmitProbeUncounted(c) ==
  /\ calls[c] = "idle"
  /\ \/ /\ state = "OPEN" /\ openedAt = "elapsed"
        /\ halfOpenAttempts' = 0
     \/ /\ state = "HALF_OPEN" /\ halfOpenAttempts < HalfOpenMaxAttempts
        /\ halfOpenAttempts' = halfOpenAttempts + 1
  /\ state' = "HALF_OPEN" /\ openedAt' = "unset"
  /\ calls' = [calls EXCEPT ![c] = "probing"]
  /\ UNCHANGED <<failureCount, up>>

\* Faulty: the budget is compared with > for >=.
AdmitProbeBeyond(c) ==
  /\ calls[c] = "idle"
  /\ \/ /\ state = "OPEN" /\ openedAt = "elapsed"
        /\ halfOpenAttempts' = 1
     \/ /\ state = "HALF_OPEN" /\ halfOpenAttempts <= HalfOpenMaxAttempts
        /\ halfOpenAttempts' = halfOpenAttempts + 1
  /\ state' = "HALF_OPEN" /\ openedAt' = "unset"
  /\ calls' = [calls EXCEPT ![c] = "probing"]
  /\ UNCHANGED <<failureCount, up>>

\* execute evaluates the transition first: an OPEN breaker whose timeout has
\* elapsed admits this call as the first probe.
AdmitProbe(c) ==
  /\ calls[c] = "idle"
  /\ \/ /\ state = "OPEN" /\ openedAt = "elapsed"
        /\ halfOpenAttempts' = 1
     \/ /\ state = "HALF_OPEN" /\ halfOpenAttempts < HalfOpenMaxAttempts
        /\ halfOpenAttempts' = halfOpenAttempts + 1
  /\ state' = "HALF_OPEN" /\ openedAt' = "unset"
  /\ calls' = [calls EXCEPT ![c] = "probing"]
  /\ UNCHANGED <<failureCount, up>>

\* CircuitOpenError with the probes used up, which re-opens the breaker.  The
\* rejection of an OPEN breaker changes nothing and is a stuttering step.
RejectProbe(c) ==
  /\ calls[c] = "idle"
  /\ state = "HALF_OPEN" /\ halfOpenAttempts >= HalfOpenMaxAttempts
  /\ TransitionToOpen
  /\ PeriodEnds(c)
  /\ UNCHANGED <<failureCount, up>>

\* resetTimeoutMs have passed since openedAt.
ResetTimeout ==
  /\ openedAt = "recent"
  /\ openedAt' = "elapsed"
  /\ UNCHANGED <<state, failureCount, halfOpenAttempts, calls, up>>

\* The dependency fails or comes back.
Environment == up' = ~up /\ UNCHANGED <<breaker, calls>>

Execute(c) == AdmitClosed(c) \/ AdmitProbe(c) \/ RejectProbe(c)
Settle(c)  == RecordSuccess(c) \/ RecordFailure(c)

Next ==
  \/ \E c \in Callers : Execute(c) \/ Settle(c)
  \/ GetState \/ ResetTimeout \/ Environment

Spec == Init /\ [][Next]_vars

(***************************************************************************)
(* Time passes; a call ends, because every Playwright step has a timeout;  *)
(* somebody keeps calling, because the workflow retries its tasks and      *)
(* guests send requests.  Nothing is assumed of getState.                  *)
(***************************************************************************)
FairSpec ==
  /\ Spec
  /\ WF_vars(ResetTimeout)
  /\ WF_vars(\E c \in Callers : Execute(c))
  /\ \A c \in Callers : WF_vars(Settle(c))
-----------------------------------------------------------------------------
\* Every variable keeps its type; halfOpenAttempts never leaves the range its
\* option gives it, whatever calls are in flight when a period begins or ends.
TypeOK ==
  /\ state \in {"CLOSED", "OPEN", "HALF_OPEN"}
  /\ failureCount \in 0 .. CountCap
  /\ halfOpenAttempts \in 0 .. HalfOpenMaxAttempts
  /\ openedAt \in {"unset", "recent", "elapsed"}
  /\ calls \in [Callers -> {"idle", "running", "probing"}]
  /\ up \in BOOLEAN

\* An OPEN breaker always knows since when, so the reset timeout can end it,
\* and no other state holds a time that could re-open it to a probe.
OpenHasDeadline == (state = "OPEN") <=> (openedAt # "unset")

\* The breaker is CLOSED exactly while the failures since the last success or
\* closing are fewer than the threshold, however calls of different periods end.
ClosedBelowThreshold == (state = "CLOSED") <=> (failureCount < FailureThreshold)

\* Each unit of the probe budget is held by a call of this HALF_OPEN period
\* that is still in flight: a breaker whose budget is spent has a probe whose
\* end will decide, and no period admits more than halfOpenMaxAttempts.
ProbeBudget ==
  /\ halfOpenAttempts = Cardinality(Probing)
  /\ halfOpenAttempts <= HalfOpenMaxAttempts
  /\ halfOpenAttempts > 0 => state = "HALF_OPEN"

\* When the dependency stays up, the breaker does not stay open, though every
\* rejected caller of a HALF_OPEN period arms it again.
Recovers == <>[]up => []<>(state = "CLOSED")

\* When the dependency stays down, the breaker does not stay closed.
Trips == <>[]~up => <>[](state # "CLOSED")
=============================================================================
