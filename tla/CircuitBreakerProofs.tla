----------------------- MODULE CircuitBreakerProofs -----------------------
(***************************************************************************)
(* The breaker's invariants for every finite set of callers, threshold and *)
(* probe budget.  They are inductive together: ProbeBudget gives that no   *)
(* probe is in flight outside HALF_OPEN, which is what lets a late end of  *)
(* an earlier call leave the budget alone.                                 *)
(***************************************************************************)
EXTENDS CircuitBreaker, FiniteSetTheorems, TLAPS

IInv == TypeOK /\ OpenHasDeadline /\ ClosedBelowThreshold /\ ProbeBudget

USE CallersAssumption, OptionsAssumption

\* The calls of a HALF_OPEN period are finitely many.
LEMMA ProbingFinite == IsFiniteSet(Probing)
  BY FS_Subset DEF Probing

\* Outside HALF_OPEN no call of the present period is in flight.
LEMMA NoProbeOutside == ASSUME IInv, state # "HALF_OPEN"
                        PROVE  halfOpenAttempts = 0 /\ Probing = {}
<1>1. halfOpenAttempts = 0
  BY DEF IInv, ProbeBudget, TypeOK
<1>2. QED
  BY <1>1, ProbingFinite, FS_EmptySet DEF IInv, ProbeBudget

\* When the period ends no call is a probe any more.
LEMMA PeriodEndsProbes ==
  ASSUME IInv, NEW c \in Callers, PeriodEnds(c)
  PROVE  /\ calls' \in [Callers -> {"idle", "running", "probing"}]
         /\ Cardinality(Probing') = 0
<1>1. Probing' = {} /\ calls' \in [Callers -> {"idle", "running", "probing"}]
  BY DEF PeriodEnds, Probing, IInv, TypeOK
<1>2. QED
  BY <1>1, FS_EmptySet

\* A new breaker is CLOSED, without failures and without probes.
LEMMA InitIInv == Init => IInv
<1>1. SUFFICES ASSUME Init PROVE IInv
  OBVIOUS
<1>2. Probing = {}
  BY <1>1 DEF Init, Probing
<1>3. Cardinality(Probing) = 0
  BY <1>2, FS_EmptySet
<1>4. QED
  BY <1>1, <1>3 DEF Init, IInv, TypeOK, OpenHasDeadline, ClosedBelowThreshold,
                    ProbeBudget

\* Every admission, every end of a call and the passing of time keep the invariant.
LEMMA NextIInv == IInv /\ [Next]_vars => IInv'
<1>1. SUFFICES ASSUME IInv, [Next]_vars PROVE IInv'
  OBVIOUS
<1> USE <1>1 DEF TypeOK, OpenHasDeadline, ClosedBelowThreshold
<1>2. ASSUME NEW c \in Callers, AdmitClosed(c) PROVE IInv'
  <2>1. Probing' = Probing
    BY <1>2, NoProbeOutside DEF AdmitClosed, IInv, Probing, breaker
  <2>2. QED
    BY <1>2, <2>1 DEF AdmitClosed, IInv, ProbeBudget, breaker
<1>3. ASSUME NEW c \in Callers, AdmitProbe(c) PROVE IInv'
  <2>1. c \notin Probing /\ Probing' = Probing \cup {c}
    BY <1>3 DEF AdmitProbe, IInv, Probing
  <2>2. Cardinality(Probing') = Cardinality(Probing) + 1
    BY <2>1, ProbingFinite, FS_AddElement
  <2>3. halfOpenAttempts' = halfOpenAttempts + 1
    BY <1>3, NoProbeOutside DEF AdmitProbe, IInv
  <2>4. halfOpenAttempts' \in Nat /\ halfOpenAttempts' <= HalfOpenMaxAttempts
    BY <1>3, <2>3 DEF AdmitProbe, IInv
  <2>5. ProbeBudget'
    BY <1>3, <2>2, <2>3, <2>4 DEF AdmitProbe, IInv, ProbeBudget
  <2>6. state # "CLOSED" /\ failureCount' = failureCount /\ state' = "HALF_OPEN"
    BY <1>3 DEF AdmitProbe
  <2>7. QED
    BY <1>3, <2>4, <2>5, <2>6 DEF AdmitProbe, IInv
<1>4. ASSUME NEW c \in Callers, RejectProbe(c) PROVE IInv'
  <2>1. Cardinality(Probing') = 0 /\ halfOpenAttempts' = 0
    BY <1>4, PeriodEndsProbes DEF RejectProbe, TransitionToOpen
  <2>2. ProbeBudget'
    BY <2>1 DEF ProbeBudget
  <2>3. QED
    BY <1>4, <2>1, <2>2, PeriodEndsProbes DEF RejectProbe, TransitionToOpen, IInv
<1>5. ASSUME NEW c \in Callers, RecordSuccess(c) PROVE IInv'
  <2>1. Cardinality(Probing') = 0 /\ halfOpenAttempts' = 0
    BY <1>5, PeriodEndsProbes DEF RecordSuccess
  <2>2. ProbeBudget'
    BY <2>1 DEF ProbeBudget
  <2>3. QED
    BY <1>5, <2>1, <2>2, PeriodEndsProbes DEF RecordSuccess, IInv
<1>6. ASSUME NEW c \in Callers, RecordFailure(c) PROVE IInv'
  <2>1. failureCount' \in 0 .. CountCap /\ failureCount' >= failureCount
    BY <1>6 DEF RecordFailure, Increment, IInv
  <2>2. CASE state = "HALF_OPEN" \/ failureCount' >= FailureThreshold
    <3>1. TransitionToOpen /\ PeriodEnds(c) /\ up' = up
      BY <1>6, <2>2 DEF RecordFailure
    <3>2. Cardinality(Probing') = 0 /\ halfOpenAttempts' = 0
      BY <3>1, PeriodEndsProbes DEF TransitionToOpen
    <3>3. ProbeBudget'
      BY <3>2 DEF ProbeBudget
    <3>4. failureCount' >= FailureThreshold
      BY <2>1, <2>2 DEF IInv
    <3>5. QED
      BY <2>1, <3>1, <3>2, <3>3, <3>4, PeriodEndsProbes DEF TransitionToOpen, IInv
  <2>3. CASE ~(state = "HALF_OPEN" \/ failureCount' >= FailureThreshold)
    <3>1. Ends(c) /\ UNCHANGED <<state, halfOpenAttempts, openedAt, up>>
      BY <1>6, <2>3 DEF RecordFailure
    <3>2. halfOpenAttempts = 0 /\ Probing = {}
      BY <2>3, NoProbeOutside
    <3>3. Probing' = {} /\ calls' \in [Callers -> {"idle", "running", "probing"}]
      BY <3>1, <3>2 DEF Ends, Probing, IInv
    <3>4. ProbeBudget'
      BY <3>1, <3>2, <3>3, FS_EmptySet DEF ProbeBudget
    <3>5. QED
      BY <2>1, <2>3, <3>1, <3>3, <3>4 DEF IInv
  <2>4. QED
    BY <2>2, <2>3
<1>7. CASE GetState
  <2>1. halfOpenAttempts' = halfOpenAttempts /\ Probing' = Probing
    BY <1>7, NoProbeOutside DEF GetState, Probing
  <2>2. QED
    BY <1>7, <2>1, NoProbeOutside DEF GetState, IInv, ProbeBudget
<1>8. CASE ResetTimeout
  <2>1. Probing' = Probing
    BY <1>8 DEF ResetTimeout, Probing
  <2>2. QED
    BY <1>8, <2>1 DEF ResetTimeout, IInv, ProbeBudget
<1>9. CASE Environment
  <2>1. Probing' = Probing
    BY <1>9 DEF Environment, Probing
  <2>2. QED
    BY <1>9, <2>1 DEF Environment, IInv, ProbeBudget, breaker
<1>10. CASE UNCHANGED vars
  <2>1. Probing' = Probing
    BY <1>10 DEF vars, Probing
  <2>2. QED
    BY <1>10, <2>1 DEF vars, IInv, ProbeBudget, breaker
<1>11. QED
  BY <1>2, <1>3, <1>4, <1>5, <1>6, <1>7, <1>8, <1>9, <1>10
     DEF Next, Execute, Settle

\* execute, recordSuccess, recordFailure and getState keep the four fields of
\* the breaker consistent under every interleaving.
THEOREM BreakerInvariant == Spec => []IInv
  BY InitIInv, NextIInv, PTL DEF Spec

\* transitionTo sets openedAt with OPEN and only then: no breaker is open
\* without a time from which evaluateStateTransition counts.
THEOREM DeadlineTheorem == Spec => []OpenHasDeadline
<1>1. IInv => OpenHasDeadline
  BY DEF IInv
<1>2. QED
  BY <1>1, BreakerInvariant, PTL

\* The breaker admits every call exactly while it has counted fewer failures
\* than failureThreshold.
THEOREM ThresholdTheorem == Spec => []ClosedBelowThreshold
<1>1. IInv => ClosedBelowThreshold
  BY DEF IInv
<1>2. QED
  BY <1>1, BreakerInvariant, PTL

\* No HALF_OPEN period admits more than halfOpenMaxAttempts calls, and a spent
\* budget is held by calls whose end will move the breaker.
THEOREM ProbeTheorem == Spec => []ProbeBudget
<1>1. IInv => ProbeBudget
  BY DEF IInv
<1>2. QED
  BY <1>1, BreakerInvariant, PTL

\* The four fields of the breaker and the calls keep their types for any threshold,
\* probe budget and callers: no count leaves its bounds, no call is lost.
THEOREM TypeTheorem == Spec => []TypeOK
<1>1. IInv => TypeOK
  BY DEF IInv
<1>2. QED
  BY <1>1, BreakerInvariant, PTL
=============================================================================
