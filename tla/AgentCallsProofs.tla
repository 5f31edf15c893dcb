-------------------------- MODULE AgentCallsProofs --------------------------
(***************************************************************************)
(* Traceable, for any number of answers, attempts, retries and faults.  It *)
(* is strengthened by what an attempt has done at each of its points, and  *)
(* by the fact that no row and no overdue attempt is younger than the      *)
(* attempt Temporal is at.                                                 *)
(*                                                                         *)
(* CallBudget, for any limits: what the earlier attempts may have spent,   *)
(* and the HTTP calls of this one, bound the calls of all.                 *)
(***************************************************************************)
EXTENDS AgentCalls, TLAPS

Ages ==
  /\ attempt \in Nat
  /\ \A run \in runs : run.attempt \in Nat /\ run.attempt <= attempt
  /\ \A s \in stray : s.run.attempt \in Nat /\ s.run.attempt <= attempt

RowFits == row = answer \/ overtaken

Progress ==
  /\ at \in {"call", "answered", "recorded", "updated", "done", "failed"}
  /\ overtaken \in BOOLEAN
  /\ at \in {"recorded", "updated", "done"} => Run \in runs
  /\ at \in {"updated", "done"} => RowFits
  /\ at = "done" => taken = answer
  /\ taken # Nothing => at = "done"

IInv == Ages /\ Progress

\* The initial state satisfies the invariant.
LEMMA InitIInv == Init => IInv
  <1> SUFFICES ASSUME Init PROVE IInv
    OBVIOUS
  <1>1. Ages
    BY DEF Init, Ages
  <1>2. Progress
    BY DEF Init, Progress
  <1> QED BY <1>1, <1>2 DEF IInv

\* A failed attempt leaves rows and overdue attempts behind and starts over.
LEMMA AttemptFailsKeeps ==
  ASSUME IInv, AttemptFails, at \notin {"done", "failed"}, overtaken' = overtaken,
         \A s \in stray' : s.run.attempt \in Nat /\ s.run.attempt <= attempt
  PROVE  IInv'
  <1>1. attempt' \in Nat /\ attempt <= attempt'
    BY AgentAssumption DEF IInv, Ages, AttemptFails
  <1>2. at' \in {"call", "failed"} /\ runs' = runs /\ taken' = taken
    BY DEF AttemptFails
  <1>3. Ages'
    BY <1>1, <1>2 DEF IInv, Ages
  <1>4. taken = Nothing
    BY DEF IInv, Progress
  <1>5. Progress'
    BY <1>2, <1>4 DEF IInv, Progress
  <1> QED BY <1>3, <1>5 DEF IInv

\* An attempt that goes on without writing or returning keeps the invariant.
LEMMA CallKeeps ==
  ASSUME IInv, at = "call", at' \in {"call", "answered"},
         UNCHANGED <<attempt, runs, row, taken, late>>
  PROVE  IInv'
  <1>1. Ages'
    BY DEF IInv, Ages, late
  <1>2. Progress'
    BY DEF IInv, Progress, late
  <1> QED BY <1>1, <1>2 DEF IInv

\* Every step keeps the invariant.
LEMMA NextIInv == IInv /\ [Next]_vars => IInv'
  <1> SUFFICES ASSUME IInv, [Next]_vars PROVE IInv'
    OBVIOUS
  <1> USE DEF IInv
  <1>1. CASE OpenAIAnswers \/ OpenAIRetries \/ MockAnswers
    BY <1>1, CallKeeps DEF OpenAIAnswers, OpenAIRetries, MockAnswers, Answers
  <1>2. CASE OpenAIFails \/ MockFails
    <2>1. AttemptFails /\ at = "call" /\ UNCHANGED late
      BY <1>2 DEF OpenAIFails, MockFails
    <2> QED BY <2>1, AttemptFailsKeeps DEF late, Ages
  <1>3. CASE CreateAgentRun
    <2>1. Ages'
      BY <1>3 DEF CreateAgentRun, Ages, Run, ask, late
    <2>2. Run' = Run /\ Run \in runs' /\ at = "answered" /\ at' = "recorded"
          /\ taken' = taken /\ overtaken' = overtaken
      BY <1>3 DEF CreateAgentRun, Run, ask, late
    <2>3. Progress'
      BY <2>2 DEF Progress
    <2> QED BY <2>1, <2>3
  <1>4. CASE UpdateGuestRequestStatus
    <2>1. Ages'
      BY <1>4 DEF UpdateGuestRequestStatus, Ages, ask, late
    <2>2. Run' = Run /\ runs' = runs /\ RowFits' /\ at = "recorded" /\ at' = "updated"
          /\ taken' = taken /\ overtaken' = overtaken
      BY <1>4 DEF UpdateGuestRequestStatus, Run, RowFits, ask, late
    <2>3. Progress'
      BY <2>2 DEF Progress
    <2> QED BY <2>1, <2>3
  <1>5. CASE Returns
    <2>1. Ages'
      BY <1>5 DEF Returns, Ages, ask, late
    <2>2. Run' = Run /\ runs' = runs /\ RowFits' = RowFits /\ at = "updated"
          /\ at' = "done" /\ taken' = answer' /\ overtaken' = overtaken
      BY <1>5 DEF Returns, Run, RowFits, ask, late
    <2>3. Progress'
      BY <2>2 DEF Progress
    <2> QED BY <2>1, <2>3
  <1>6. CASE AttemptLost
    BY <1>6, AttemptFailsKeeps DEF AttemptLost, Lost, Ages
  <1>7. CASE AttemptOverdue
    <2>1. \A s \in stray' : s.run.attempt \in Nat /\ s.run.attempt <= attempt
      BY <1>7 DEF AttemptOverdue, Lost, Ages, Run
    <2> QED BY <1>7, <2>1, AttemptFailsKeeps DEF AttemptOverdue, Lost
  <1>8. CASE \E s \in stray : StrayWrites(s)
    <2>1. PICK s \in stray : StrayWrites(s)
      BY <1>8
    <2>2. UNCHANGED <<ask, at, taken>>
      BY <2>1 DEF StrayWrites
    <2>3. \/ /\ runs' = runs \cup {s.run}
             /\ stray' = (stray \ {s}) \cup {[s EXCEPT !.at = "recorded"]}
             /\ UNCHANGED <<row, overtaken>>
          \/ runs' = runs /\ stray' \subseteq stray /\ overtaken' = TRUE
      BY <2>1 DEF StrayWrites
    <2>4. \A t \in stray' : t.run.attempt \in Nat /\ t.run.attempt <= attempt
      <3>1. [s EXCEPT !.at = "recorded"].run = s.run
        BY <2>1, <2>3 DEF StrayWrites
      <3> QED BY <2>3, <3>1 DEF Ages
    <2>5. Ages'
      BY <2>2, <2>3, <2>4 DEF Ages, ask
    <2>6. Run' = Run /\ runs \subseteq runs'
      BY <2>2, <2>3 DEF Run, ask
    <2>7. overtaken' \in BOOLEAN /\ (RowFits => RowFits')
      BY <2>2, <2>3 DEF RowFits, ask, Progress
    <2>8. Progress'
      BY <2>2, <2>6, <2>7 DEF Progress, ask
    <2> QED BY <2>5, <2>8
  <1>9. CASE UNCHANGED vars
    <2>1. Ages'
      BY <1>9 DEF Ages, vars, ask, late
    <2>2. Progress'
      BY <1>9 DEF Progress, RowFits, Run, vars, ask, late
    <2> QED BY <2>1, <2>2
  <1> QED BY <1>1, <1>2, <1>3, <1>4, <1>5, <1>6, <1>7, <1>8, <1>9 DEF Next

\* Once an answer is taken the attempt is done, and Progress says what it has left.
LEMMA IInvTraceable == IInv => Traceable
  BY DEF IInv, Ages, Progress, RowFits, Run, Traceable

\* What the workflow goes on with is on record as the latest attempt's answer and is
\* what the request's row says, however often agents were asked again.
THEOREM SpecTraceable == Spec => []Traceable
  BY InitIInv, NextIInv, IInvTraceable, PTL DEF Spec
-----------------------------------------------------------------------------
\* What n attempts may spend: each makes at most one call and its retries.
Allowance(n) == n * (MaxRetries + 1)

Points == {"call", "answered", "recorded", "updated", "done", "failed"}

Budget ==
  /\ attempt \in 1..Attempts /\ http \in Nat /\ calls \in Nat /\ at \in Points
  /\ http <= IF at = "call" THEN MaxRetries ELSE MaxRetries + 1
  /\ calls <= IF at = "failed" THEN Allowance(Attempts)
                               ELSE Allowance(attempt - 1) + http

\* One more attempt has one more allowance.
LEMMA AllowanceGrows ==
  ASSUME NEW n \in Nat
  PROVE  Allowance(n) \in Nat /\ Allowance(n + 1) = Allowance(n) + MaxRetries + 1
  BY AgentAssumption DEF Allowance

\* More attempts have a larger allowance.
LEMMA AllowanceIsMonotone ==
  ASSUME NEW n \in Nat, NEW m \in Nat, m <= n
  PROVE  Allowance(m) <= Allowance(n)
  <1>1. n - m \in Nat /\ n = m + (n - m)
    OBVIOUS
  <1>2. Allowance(n) = Allowance(m) + Allowance(n - m)
    BY <1>1, AgentAssumption DEF Allowance
  <1> QED BY <1>1, <1>2, AllowanceGrows

\* A failed attempt has stayed within its own allowance.
LEMMA AttemptFailsWithin ==
  ASSUME Budget, AttemptFails, at \notin {"done", "failed"}, calls' \in Nat,
         calls' <= Allowance(attempt - 1) + MaxRetries + 1
  PROVE  Budget'
  <1>1. attempt \in 1..Attempts /\ Attempts \in Nat /\ MaxRetries \in Nat
    BY AgentAssumption DEF Budget
  <1>2. calls' <= Allowance(attempt)
    BY <1>1, AllowanceGrows, attempt - 1 \in Nat, (attempt - 1) + 1 = attempt
  <1>3. CASE attempt < Attempts
    <2>1. attempt' = attempt + 1 /\ at' = "call" /\ http' = 0
      BY <1>3 DEF AttemptFails
    <2>2. attempt' - 1 = attempt
      BY <1>1, <2>1
    <2>3. Allowance(attempt - 1)' = Allowance(attempt)
      BY <2>2 DEF Allowance
    <2> QED BY <1>1, <1>2, <1>3, <2>1, <2>2, AllowanceGrows DEF Budget, Points
  <1>4. CASE attempt = Attempts
    <2>1. attempt' = attempt /\ at' = "failed" /\ http' = 0
      BY <1>1, <1>4 DEF AttemptFails
    <2> QED BY <1>1, <1>2, <1>4, <2>1 DEF Budget, Points
  <1> QED BY <1>1, <1>3, <1>4

\* The first attempt has spent nothing.
LEMMA InitBudget == Init => Budget
  <1> SUFFICES ASSUME Init PROVE Budget
    OBVIOUS
  <1>1. attempt = 1 /\ at = "call" /\ http = 0 /\ calls = 0 /\ attempt - 1 = 0
    BY DEF Init
  <1>2. Allowance(0) \in Nat
    BY AllowanceGrows
  <1> QED BY <1>1, <1>2, AgentAssumption DEF Budget, Points

\* Every step stays within the budget.
LEMMA NextBudget == Budget /\ [Next]_vars => Budget'
  <1> SUFFICES ASSUME Budget, [Next]_vars PROVE Budget'
    OBVIOUS
  <1>1. /\ attempt \in 1..Attempts /\ attempt - 1 \in Nat /\ http \in Nat /\ calls \in Nat
        /\ Attempts \in Nat /\ MaxRetries \in Nat
    BY AgentAssumption DEF Budget
  <1>2. Allowance(attempt - 1) \in Nat
    BY <1>1, AllowanceGrows
  <1>3. CASE OpenAIAnswers \/ OpenAIRetries
    <2>1. /\ at = "call" /\ at' \in {"call", "answered"} /\ attempt' = attempt
          /\ http' = http + 1 /\ calls' = calls + 1
          /\ at' = "call" => http < MaxRetries
      BY <1>3 DEF OpenAIAnswers, OpenAIRetries, Answers
    <2> QED BY <1>1, <1>2, <2>1 DEF Budget, Points
  <1>4. CASE OpenAIFails
    <2>1. at = "call" /\ calls' = calls + 1 /\ AttemptFails
      BY <1>4 DEF OpenAIFails
    <2>2. calls' \in Nat /\ calls' <= Allowance(attempt - 1) + MaxRetries + 1
      BY <1>1, <1>2, <2>1 DEF Budget
    <2> QED BY <2>1, <2>2, AttemptFailsWithin
  <1>5. CASE MockFails \/ AttemptLost \/ AttemptOverdue
    <2>1. at \notin {"done", "failed"} /\ calls' = calls /\ AttemptFails
      BY <1>5 DEF MockFails, AttemptLost, AttemptOverdue, Lost
    <2>2. calls' \in Nat /\ calls' <= Allowance(attempt - 1) + MaxRetries + 1
      BY <1>1, <1>2, <2>1 DEF Budget
    <2> QED BY <2>1, <2>2, AttemptFailsWithin
  <1>6. CASE MockAnswers \/ CreateAgentRun \/ UpdateGuestRequestStatus \/ Returns
    <2>1. /\ at \in {"call", "answered", "recorded", "updated"}
          /\ at' \in {"answered", "recorded", "updated", "done"}
          /\ UNCHANGED <<attempt, http, calls>>
      BY <1>6 DEF MockAnswers, Answers, CreateAgentRun, UpdateGuestRequestStatus, Returns, ask
    <2> QED BY <1>1, <1>2, <2>1 DEF Budget, Points
  <1>7. CASE (\E s \in stray : StrayWrites(s)) \/ UNCHANGED vars
    <2>1. UNCHANGED <<attempt, http, calls, at>>
      BY <1>7 DEF StrayWrites, vars, ask
    <2> QED BY <2>1 DEF Budget
  <1> QED BY <1>3, <1>4, <1>5, <1>6, <1>7 DEF Next

\* No attempt has a number above the limit, so the budget is the limit's allowance.
LEMMA WithinBudget == Budget => CallBudget
  <1> SUFFICES ASSUME Budget PROVE CallBudget
    OBVIOUS
  <1>1. /\ attempt \in 1..Attempts /\ attempt - 1 \in Nat /\ (attempt - 1) + 1 = attempt
        /\ Attempts \in Nat /\ MaxRetries \in Nat /\ calls \in Nat /\ http \in Nat
    BY AgentAssumption DEF Budget
  <1>2. Allowance(attempt - 1) + MaxRetries + 1 = Allowance(attempt)
    BY <1>1, AllowanceGrows
  <1>3. Allowance(attempt) <= Allowance(Attempts)
    BY <1>1, AllowanceIsMonotone
  <1>4. Allowance(attempt - 1) \in Nat /\ Allowance(attempt) \in Nat /\ Allowance(Attempts) \in Nat
    BY <1>1, AllowanceGrows
  <1>5. calls <= Allowance(Attempts)
    BY <1>1, <1>2, <1>3, <1>4 DEF Budget
  <1> QED BY <1>5 DEF CallBudget, Allowance

\* However the provider and Temporal fail, the HTTP calls of an agent stay within
\* Temporal's attempts times the provider's calls.
THEOREM SpecCallBudget == Spec => []CallBudget
  BY InitBudget, NextBudget, WithinBudget, PTL DEF Spec
=============================================================================
