-------------------- MODULE GuestRequestWorkflowProofs --------------------
(***************************************************************************)
(* Type correctness, the approval, cancel, result and queue invariants of  *)
(* GuestRequestWorkflow and its refinement of RequestLifecycle, for every  *)
(* set of tasks, operators and callers and every retry policy.             *)
(*                                                                         *)
(* Four layers.  TypeInv adds to the types that a result is known wherever *)
(* it is written.  ApprovalInv, on top of it, follows an approval from     *)
(* the operator's answer through the workflow's resolution to the row, and *)
(* says which lost attempts may still write to approval rows.  LoopInv     *)
(* follows the tasks through the execution loop to the derived status and  *)
(* the rows it is written to.  ConsentInv ties the row of the approval to  *)
(* what the lifecycle calls consent; with it every step is a step of the   *)
(* lifecycle or a stutter.                                                 *)
(***************************************************************************)
EXTENDS GuestRequestWorkflow, TLAPS

USE TaskAssumption, RetryAssumption

\* The finalization writes a status the workflow has derived.
FinalKnown ==
  /\ pc \in {"escalate", "finalize"} => finalStatus # "none"
  /\ \A c \in stray : c.activity = "finalize" => finalStatus # "none"

TypeInv == TypeOK /\ FinalKnown
-----------------------------------------------------------------------------
(* Where the workflow code may stand after a step.                         *)

Arrives(places) ==
  /\ pc' \in places /\ attempt' = 1 /\ written' = 0
  /\ current' \in Task /\ tries' \in 1 .. (TaskRetries + 1)
  /\ finalStatus' \in FinalStatus \cup {"none"}
  /\ pc' \in {"escalate", "finalize"} => finalStatus' # "none"
  /\ finalStatus # "none" => finalStatus' # "none"

\* Finishing leads to the escalation or the finalization.
LEMMA FinishArrives ==
  ASSUME PositionOK, NEW chosen, NEW res, NEW ver, Finish(chosen, res, ver),
         UNCHANGED <<current, tries>>
  PROVE  Arrives({"escalate", "finalize"})
<1>1. DeriveExecutionStatus(chosen, res, ver) \in
        {"CANCELLED", "FAILED", "PARTIALLY_COMPLETED", "COMPLETED"}
  BY DEF DeriveExecutionStatus
<1> DEFINE status == DeriveExecutionStatus(chosen, res, ver)
<1>2. \/ Escalate("ESCALATED")
      \/ status = "PARTIALLY_COMPLETED" /\ Escalate(status)
      \/ status \in {"CANCELLED", "COMPLETED"} /\ Finalize(status)
  BY <1>1 DEF Finish
<1>3. QED
  BY <1>2 DEF Escalate, Finalize, Start, Arrives, PositionOK, FinalStatus

\* The verification loop starts a verification or finishes.
LEMMA VerifyNextArrives ==
  ASSUME PositionOK, NEW chosen, NEW res, NEW ver, VerifyNext(chosen, res, ver)
  PROVE  Arrives({"verify", "escalate", "finalize"})
<1> DEFINE todo == {t \in chosen : res[t] = "ok" /\ ver[t] = "none"}
<1>1. CASE /\ Start("verify")
           /\ \E t \in Task : First(t, todo) /\ current' = t
           /\ UNCHANGED <<tries, finalStatus>>
  BY <1>1 DEF Start, Arrives, PositionOK
<1>2. CASE Finish(chosen, res, ver) /\ UNCHANGED <<current, tries>>
  BY <1>2, FinishArrives DEF Arrives
<1>3. QED
  BY <1>1, <1>2 DEF VerifyNext

\* The execution loop starts a task, unless the request is cancelled, or leaves
\* it to the verification loop.
LEMMA ExecuteNextArrives ==
  ASSUME PositionOK, NEW chosen, NEW res, ExecuteNext(chosen, res)
  PROVE  /\ Arrives({"execute", "verify", "escalate", "finalize"})
         /\ cancelled => pc' # "execute"
<1> DEFINE todo == {t \in chosen : res[t] = "none"}
<1>1. CASE /\ ~cancelled /\ Start("execute")
           /\ \E t \in Task : First(t, todo) /\ current' = t
           /\ tries' = 1
           /\ UNCHANGED finalStatus
  BY <1>1 DEF Start, Arrives, PositionOK
<1>2. CASE VerifyNext(chosen, res, verified)
  BY <1>2, VerifyNextArrives DEF Arrives
<1>3. QED
  BY <1>1, <1>2 DEF ExecuteNext

\* So does the beginning of the execution.
LEMMA BeginExecutionArrives ==
  ASSUME PositionOK, NEW chosen, BeginExecution(chosen)
  PROVE  /\ Arrives({"execute", "verify", "escalate", "finalize"})
         /\ cancelled => pc' # "execute"
<1>1. CASE cancelled
  BY <1>1 DEF BeginExecution, Finalize, Start, Arrives, PositionOK, FinalStatus
<1>2. CASE ~cancelled
  BY <1>2, ExecuteNextArrives DEF BeginExecution
<1>3. QED
  BY <1>1, <1>2
-----------------------------------------------------------------------------
(* Types.                                                                  *)

\* A write of an attempt keeps the types of the four tables.
LEMMA EffectTypes ==
  ASSUME TypeInv, NEW c \in Call, Effect(c),
         c.activity = "finalize" => finalStatus # "none"
  PROVE  DatabaseOK' /\ c.written \in {0, 1}
<1> USE DEF TypeInv, TypeOK, DatabaseOK, Call, SetRequestStatus,
            SetExecutionStatus, SetApprovalStatus
<1>1. CASE InitializeWorkflowExecution(c)
  BY <1>1 DEF InitializeWorkflowExecution, RequestStatus, ExecutionStatus
<1>2. CASE ClassifyGuestRequest(c)
  BY <1>2 DEF ClassifyGuestRequest, RequestStatus
<1>3. CASE PlanGuestRequest(c)
  BY <1>3 DEF PlanGuestRequest, RequestStatus
<1>4. CASE EvaluateGuestRequestPolicy(c)
  BY <1>4 DEF EvaluateGuestRequestPolicy, RequestStatus
<1>5. CASE CreateHumanApproval(c)
  BY <1>5 DEF CreateHumanApproval, RequestStatus, ApprovalStatus, ApprovalId
<1>6. CASE ResolveHumanApproval(c)
  BY <1>6 DEF ResolveHumanApproval, RecordOK, ApprovalStatus
<1>7. CASE EnqueueFailureItem(c)
  BY <1>7 DEF EnqueueFailureItem, FailureItem, FailureStatus
<1>8. CASE EscalateGuestRequest(c)
  BY <1>8 DEF EscalateGuestRequest, RequestStatus
<1>9. CASE FinalizeGuestRequest(c)
  BY <1>9 DEF FinalizeGuestRequest, RequestStatus, ExecutionStatus, PositionOK,
              FinalStatus, ExecutionStatusOf
<1>10. QED
  BY <1>1, <1>2, <1>3, <1>4, <1>5, <1>6, <1>7, <1>8, <1>9 DEF Effect

\* Where the workflow arrives is a position.
LEMMA ArrivalTypes ==
  ASSUME Arrives(OrchestrationActivity \cup BrowserActivity)
  PROVE  PositionOK'
  BY DEF Arrives, PositionOK, Place

\* A lost attempt leaves a position, and what may still be running is a call.
LEMMA NextAttemptTypes ==
  ASSUME TypeInv, NEW limit \in {OrchestrationAttempts, BrowserAttempts},
         NextAttempt(limit),
         pc \in OrchestrationActivity => limit = OrchestrationAttempts,
         pc \in BrowserActivity => limit = BrowserAttempts,
         pc \in OrchestrationActivity \cup BrowserActivity
  PROVE  /\ PositionOK' /\ DatabaseOK' /\ RecordOK' /\ SignalsOK' /\ ApiOK'
         /\ finalStatus' = finalStatus
<1> USE DEF TypeInv, TypeOK, NextAttempt, database, signals, planned, api,
            operatorVars, loop
<1>1. PositionOK'
  <2>1. UNCHANGED <<finalStatus, current, tries>> /\ written' = 0
    OBVIOUS
  <2>2. CASE attempt < limit
    BY <2>1, <2>2 DEF PositionOK
  <2>3. CASE ~(attempt < limit)
    BY <2>1, <2>3 DEF PositionOK, Place, OrchestrationActivity
  <2>4. QED
    BY <2>2, <2>3
<1>2. QED
  BY <1>1 DEF DatabaseOK, RecordOK, SignalsOK, ApiOK

\* What a step of the workflow code that is not a fault or a handler keeps.
LEMMA OutsideTypes ==
  ASSUME TypeInv, UNCHANGED <<signals, stray, overtaken, adrift, faults, api>>,
         pms' \in SUBSET Task
  PROVE  LostOK' /\ SignalsOK' /\ ApiOK'
  BY DEF TypeInv, TypeOK, LostOK, SignalsOK, ApiOK, signals, api, operatorVars

\* A step of the workflow code that arrives somewhere keeps the types.
LEMMA WorkflowTypes ==
  ASSUME TypeInv, Arrives(OrchestrationActivity \cup BrowserActivity),
         UNCHANGED <<database, signals, lost, api>>, pms' \in SUBSET Task,
         RecordOK'
  PROVE  TypeInv'
<1>1. DatabaseOK'
  BY DEF TypeInv, TypeOK, DatabaseOK, database
<1>2. LostOK' /\ SignalsOK' /\ ApiOK'
  BY OutsideTypes DEF lost
<1>3. FinalKnown'
  BY DEF TypeInv, FinalKnown, Arrives, lost
<1>4. QED
  BY <1>1, <1>2, <1>3, ArrivalTypes DEF TypeInv, TypeOK

\* The types hold before the workflow is started.
LEMMA InitTypes == Init => TypeInv
<1>1. SUFFICES ASSUME Init PROVE TypeInv
  OBVIOUS
<1>2. current \in Task
  BY <1>1 DEF Init
<1>3. PositionOK
  BY <1>1, <1>2 DEF Init, PositionOK, Place, OrchestrationActivity
<1>4. DatabaseOK
  BY <1>1 DEF Init, DatabaseOK, RequestStatus, ExecutionStatus, ApprovalStatus,
              FailureStatus
<1>5. RecordOK /\ SignalsOK
  BY <1>1 DEF Init, RecordOK, SignalsOK
<1>6. LostOK
  <2>1. stray \in SUBSET Call /\ overtaken \in BOOLEAN
    BY <1>1, Zenon DEF Init
  <2>2. pms \in SUBSET Task /\ adrift \in SUBSET Task /\ faults \in 0 .. MaxFaults
    BY <1>1 DEF Init
  <2>3. QED
    BY <2>1, <2>2 DEF LostOK
<1>7. ApiOK
  BY <1>1 DEF Init, ApiOK
<1>8. FinalKnown
  BY <1>1 DEF Init, FinalKnown
<1>9. QED
  BY <1>3, <1>4, <1>5, <1>6, <1>7, <1>8 DEF TypeInv, TypeOK

\* The steps of the workflow code before the execution.
LEMMA PreparationTypes ==
  ASSUME TypeInv,
         \/ StartWorkflow \/ InitializeReturned \/ ClassifyReturned
         \/ PlanReturned \/ PolicyReturned \/ ConditionMet
         \/ ApprovalTimeout \/ ResolveReturned
  PROVE  TypeInv'
<1> DEFINE Places == OrchestrationActivity \cup BrowserActivity
<1> USE DEF TypeInv, TypeOK, PositionOK, RecordOK, outside, planned, loop
<1>0. pms \in SUBSET Task
  BY DEF LostOK
<1>1. CASE StartWorkflow
  <2>1. Arrives(Places)
    BY <1>1 DEF StartWorkflow, Start, Arrives, OrchestrationActivity
  <2>2. QED
    BY <1>0, <1>1, <2>1, WorkflowTypes DEF StartWorkflow
<1>2. CASE InitializeReturned
  <2>1. Arrives(Places)
    BY <1>2 DEF InitializeReturned, Finalize, Start, Arrives,
                OrchestrationActivity, FinalStatus
  <2>2. QED
    BY <1>0, <1>2, <2>1, WorkflowTypes DEF InitializeReturned
<1>3. CASE ClassifyReturned
  <2>1. Arrives(Places)
    BY <1>3 DEF ClassifyReturned, Escalate, Start, Arrives,
                OrchestrationActivity, FinalStatus
  <2>2. QED
    BY <1>0, <1>3, <2>1, WorkflowTypes DEF ClassifyReturned
<1>4. CASE PlanReturned
  <2>1. Arrives(Places)
    BY <1>4 DEF PlanReturned, Start, Arrives, OrchestrationActivity
  <2>2. RecordOK'
    BY <1>4 DEF PlanReturned
  <2>3. QED
    BY <1>0, <1>4, <2>1, <2>2, WorkflowTypes DEF PlanReturned
<1>5. CASE PolicyReturned
  <2>1. PICK approved \in BOOLEAN, required \in BOOLEAN :
          /\ tasks' \in SUBSET tasks
          /\ requiresApproval' = (required \/ requiresApproval)
          /\ \/ Escalate("ESCALATED") /\ UNCHANGED <<current, tries>>
             \/ Start("createApproval") /\ UNCHANGED <<finalStatus, current, tries>>
             \/ BeginExecution(tasks')
    BY <1>5 DEF PolicyReturned
  <2>2. Arrives(Places)
    BY <2>1, BeginExecutionArrives DEF Escalate, Start, Arrives, BrowserActivity,
       OrchestrationActivity, FinalStatus
  <2>3. RecordOK'
    BY <1>5, <2>1 DEF PolicyReturned
  <2>4. QED
    BY <1>0, <1>5, <2>2, <2>3, WorkflowTypes DEF PolicyReturned
<1>6. CASE ConditionMet
  <2>1. Arrives(Places)
    BY <1>6 DEF ConditionMet, Finalize, Escalate, Resolve, Start, Arrives,
                OrchestrationActivity, FinalStatus
  <2>2. RecordOK'
    BY <1>6 DEF ConditionMet, Resolve
  <2>3. QED
    BY <1>0, <1>6, <2>1, <2>2, WorkflowTypes DEF ConditionMet
<1>7. CASE ApprovalTimeout
  <2>1. Arrives(Places)
    BY <1>7 DEF ApprovalTimeout, Resolve, Start, Arrives, OrchestrationActivity
  <2>2. QED
    BY <1>0, <1>7, <2>1, WorkflowTypes DEF ApprovalTimeout, Resolve
<1>8. CASE ResolveReturned
  <2>1. Arrives(Places)
    BY <1>8, BeginExecutionArrives DEF ResolveReturned, Escalate, Start, Arrives,
       BrowserActivity, OrchestrationActivity, FinalStatus
  <2>2. QED
    BY <1>0, <1>8, <2>1, WorkflowTypes DEF ResolveReturned
<1>9. QED
  BY <1>1, <1>2, <1>3, <1>4, <1>5, <1>6, <1>7, <1>8

\* The steps that arrive nowhere: the wait begins, the workflow completes.
LEMMA PauseTypes ==
  ASSUME TypeInv, \/ CreateApprovalReturned \/ FinalizeReturned
  PROVE  TypeInv'
<1> USE DEF TypeInv, TypeOK, outside, planned, loop
<1>0. pms' \in SUBSET Task
  BY DEF CreateApprovalReturned, FinalizeReturned, LostOK
<1>1. LostOK' /\ SignalsOK' /\ ApiOK'
  BY <1>0, OutsideTypes DEF CreateApprovalReturned, FinalizeReturned, lost
<1>2. DatabaseOK'
  BY DEF CreateApprovalReturned, FinalizeReturned, DatabaseOK, database
<1>3. CASE CreateApprovalReturned
  <2>1. attempt \in ApprovalId
    BY <1>3 DEF CreateApprovalReturned, Returned, PositionOK,
                OrchestrationActivity, ApprovalId
  <2>2. PositionOK' /\ RecordOK'
    BY <1>3, <2>1 DEF CreateApprovalReturned, PositionOK, RecordOK, Place,
                      OrchestrationActivity
  <2>3. FinalKnown'
    BY <1>3 DEF CreateApprovalReturned, FinalKnown, lost
  <2>4. QED
    BY <1>1, <1>2, <2>2, <2>3
<1>4. CASE FinalizeReturned
  <2>1. PositionOK' /\ RecordOK'
    BY <1>4 DEF FinalizeReturned, PositionOK, RecordOK, Place,
                OrchestrationActivity
  <2>2. FinalKnown'
    BY <1>4 DEF FinalizeReturned, FinalKnown, lost
  <2>3. QED
    BY <1>1, <1>2, <2>1, <2>2
<1>5. QED
  BY <1>3, <1>4

\* The steps of the execution, of the verification and of the escalation.
LEMMA ExecutionTypes ==
  ASSUME TypeInv,
         \/ ExecuteReturned \/ EnqueueExecutionReturned \/ VerifyReturned
         \/ EnqueueVerificationReturned \/ EscalateReturned
  PROVE  TypeInv'
<1> DEFINE Places == OrchestrationActivity \cup BrowserActivity
<1> USE DEF TypeInv, TypeOK, outside, planned, loop
<1>0. pms \in SUBSET Task /\ current \in Task
  BY DEF LostOK, PositionOK
<1>1. CASE ExecuteReturned
  <2>1. CASE /\ result' = [result EXCEPT ![current] = "ok"]
             /\ ExecuteNext(tasks, result')
    <3>1. Arrives(Places)
      BY <2>1, ExecuteNextArrives DEF Arrives, BrowserActivity,
                                      OrchestrationActivity
    <3>2. RecordOK'
      BY <1>1, <2>1 DEF ExecuteReturned, RecordOK
    <3>3. QED
      BY <1>0, <1>1, <3>1, <3>2, WorkflowTypes DEF ExecuteReturned
  <2>2. CASE /\ tries <= TaskRetries
             /\ Start("execute")
             /\ tries' = tries + 1
             /\ UNCHANGED <<current, result, finalStatus>>
    <3>1. Arrives(Places)
      BY <2>2 DEF Arrives, Start, BrowserActivity, PositionOK
    <3>2. RecordOK'
      BY <1>1, <2>2 DEF ExecuteReturned, RecordOK
    <3>3. QED
      BY <1>0, <1>1, <3>1, <3>2, WorkflowTypes DEF ExecuteReturned
  <2>3. CASE /\ result' = [result EXCEPT ![current] = "failed"]
             /\ Start("enqueueExecution")
             /\ UNCHANGED <<current, tries, finalStatus>>
    <3>1. Arrives(Places)
      BY <2>3 DEF Arrives, Start, OrchestrationActivity, PositionOK
    <3>2. RecordOK'
      BY <1>1, <2>3 DEF ExecuteReturned, RecordOK
    <3>3. QED
      BY <1>0, <1>1, <3>1, <3>2, WorkflowTypes DEF ExecuteReturned
  <2>4. QED
    BY <1>1, <2>1, <2>2, <2>3 DEF ExecuteReturned
<1>2. CASE EnqueueExecutionReturned
  <2>1. Arrives(Places)
    BY <1>2, ExecuteNextArrives, VerifyNextArrives
       DEF EnqueueExecutionReturned, Arrives, BrowserActivity,
           OrchestrationActivity
  <2>2. QED
    BY <1>0, <1>2, <2>1, WorkflowTypes DEF EnqueueExecutionReturned, RecordOK
<1>3. CASE VerifyReturned
  <2>1. \/ VerifyNext(tasks, result, verified')
        \/ /\ Start("enqueueVerification")
           /\ UNCHANGED <<current, tries, finalStatus>>
    BY <1>3 DEF VerifyReturned
  <2>2. Arrives(Places)
    BY <2>1, VerifyNextArrives DEF Arrives, Start, BrowserActivity,
       OrchestrationActivity, PositionOK
  <2>3. RecordOK'
    BY <1>3 DEF VerifyReturned, RecordOK
  <2>4. QED
    BY <1>0, <1>3, <2>2, <2>3, WorkflowTypes DEF VerifyReturned
<1>4. CASE EnqueueVerificationReturned
  <2>1. Arrives(Places)
    BY <1>4, VerifyNextArrives DEF EnqueueVerificationReturned, Arrives,
       BrowserActivity, OrchestrationActivity
  <2>2. QED
    BY <1>0, <1>4, <2>1, WorkflowTypes DEF EnqueueVerificationReturned, RecordOK
<1>5. CASE EscalateReturned
  <2>1. Arrives(Places)
    BY <1>5 DEF EscalateReturned, Returned, Start, Arrives, FinalKnown,
                OrchestrationActivity, PositionOK
  <2>2. QED
    BY <1>0, <1>5, <2>1, WorkflowTypes DEF EscalateReturned, RecordOK
<1>6. QED
  BY <1>1, <1>2, <1>3, <1>4, <1>5

\* Writes, lost attempts and attempts that go on after they were lost.
LEMMA ActivityTypes ==
  ASSUME TypeInv,
         \/ ActivityWrite \/ ActivityLost \/ InitializeConflict
         \/ BrowserAttemptLost
         \/ \E c \in stray : StrayWrite(c)
         \/ \E t \in Task : StrayEffect(t)
  PROVE  TypeInv'
<1> USE DEF TypeInv, TypeOK
<1>1. CASE ActivityWrite
  <2>1. pc \in OrchestrationActivity /\ attempt \in 1 .. OrchestrationAttempts
    BY <1>1 DEF ActivityWrite, PositionOK
  <2>2. written \in {0, 1}
    BY <1>1 DEF ActivityWrite, Effect, Here, InitializeWorkflowExecution,
       ClassifyGuestRequest, PlanGuestRequest, EvaluateGuestRequestPolicy,
       CreateHumanApproval, ResolveHumanApproval, EnqueueFailureItem,
       EscalateGuestRequest, FinalizeGuestRequest
  <2>3. Here \in Call
    BY <2>1, <2>2 DEF Here, Call, PositionOK
  <2>4. DatabaseOK'
    BY <1>1, <2>3, EffectTypes DEF ActivityWrite, Here, FinalKnown
  <2>5. PositionOK' /\ RecordOK'
    BY <1>1, <2>2 DEF ActivityWrite, PositionOK, RecordOK, planned, loop
  <2>6. LostOK' /\ SignalsOK' /\ ApiOK'
    BY <1>1, OutsideTypes DEF ActivityWrite, outside, lost, LostOK
  <2>7. FinalKnown'
    BY <1>1 DEF ActivityWrite, FinalKnown, outside, lost
  <2>8. QED
    BY <2>4, <2>5, <2>6, <2>7
<1>2. CASE ActivityLost
  <2>1. /\ PositionOK' /\ DatabaseOK' /\ RecordOK' /\ SignalsOK' /\ ApiOK'
        /\ finalStatus' = finalStatus
    BY <1>2, NextAttemptTypes DEF ActivityLost, BrowserActivity,
                                  OrchestrationActivity
  <2>2. written < Writes(pc) => Here \in Call
    BY <1>2 DEF ActivityLost, Here, Call, Writes, PositionOK
  <2>3. LostOK'
    BY <1>2, <2>2 DEF ActivityLost, LostOK
  <2>4. FinalKnown'
    BY <1>2, <2>1 DEF ActivityLost, NextAttempt, FinalKnown, Here
  <2>5. QED
    BY <2>1, <2>3, <2>4
<1>3. CASE InitializeConflict
  <2>1. /\ PositionOK' /\ DatabaseOK' /\ RecordOK' /\ SignalsOK' /\ ApiOK'
        /\ finalStatus' = finalStatus
    BY <1>3, NextAttemptTypes DEF InitializeConflict, BrowserActivity,
                                  OrchestrationActivity
  <2>2. LostOK'
    BY <1>3 DEF InitializeConflict, LostOK, lost
  <2>3. FinalKnown'
    BY <1>3, <2>1 DEF InitializeConflict, NextAttempt, FinalKnown, lost
  <2>4. QED
    BY <2>1, <2>2, <2>3
<1>4. CASE BrowserAttemptLost
  <2>1. /\ PositionOK' /\ DatabaseOK' /\ RecordOK' /\ SignalsOK' /\ ApiOK'
        /\ finalStatus' = finalStatus
    BY <1>4, NextAttemptTypes DEF BrowserAttemptLost, BrowserActivity,
                                  OrchestrationActivity
  <2>2. LostOK'
    BY <1>4 DEF BrowserAttemptLost, LostOK, PositionOK
  <2>3. FinalKnown'
    BY <1>4, <2>1 DEF BrowserAttemptLost, NextAttempt, FinalKnown,
                      BrowserActivity
  <2>4. QED
    BY <2>1, <2>2, <2>3
<1>5. ASSUME NEW c \in stray, StrayWrite(c) PROVE TypeInv'
  <2>1. c \in Call
    BY <1>5 DEF LostOK
  <2>2. DatabaseOK' /\ c.written \in {0, 1}
    BY <1>5, <2>1, EffectTypes DEF StrayWrite, FinalKnown
  <2>3. PositionOK' /\ RecordOK' /\ SignalsOK' /\ ApiOK'
    BY <1>5 DEF StrayWrite, workflow, planned, loop, signals, api, operatorVars,
                PositionOK, RecordOK, SignalsOK, ApiOK
  <2>4. \A d \in stray' : d \in Call /\ (d \in stray \/ d.activity = c.activity)
    BY <1>5, <2>1, <2>2 DEF StrayWrite, Writes, Call, LostOK
  <2>5. overtaken' \in BOOLEAN
    BY <1>5 DEF StrayWrite
  <2>6. LostOK'
    BY <1>5, <2>4, <2>5 DEF StrayWrite, LostOK
  <2>7. FinalKnown'
    BY <1>5, <2>4 DEF StrayWrite, FinalKnown, workflow
  <2>8. QED
    BY <2>2, <2>3, <2>6, <2>7
<1>6. ASSUME NEW t \in Task, StrayEffect(t) PROVE TypeInv'
  <2>1. LostOK'
    BY <1>6 DEF StrayEffect, LostOK
  <2>2. DatabaseOK' /\ PositionOK' /\ RecordOK'
    BY <1>6 DEF StrayEffect, database, workflow, planned, loop, DatabaseOK,
                PositionOK, RecordOK
  <2>3. SignalsOK' /\ ApiOK'
    BY <1>6 DEF StrayEffect, signals, api, operatorVars, SignalsOK, ApiOK
  <2>4. FinalKnown'
    BY <1>6 DEF StrayEffect, workflow, FinalKnown
  <2>5. QED
    BY <2>1, <2>2, <2>3, <2>4
<1>7. QED
  BY <1>1, <1>2, <1>3, <1>4, <1>5, <1>6

\* The handlers of the control API.
LEMMA HandlerTypes ==
  ASSUME TypeInv, Handlers
  PROVE  TypeInv'
<1> USE DEF TypeInv, TypeOK
<1>1. UNCHANGED <<workflow, pms, lost>>
  BY DEF Handlers, CancelRequestRead, CancelRequestSignal, CancelRequestWrite,
     CancelWorkflow, ResolveCheck, ResolveSignal, RequeueSignal, RequeueWrite,
     RetryRequest, ResolveFailure
<1>2. PositionOK' /\ RecordOK' /\ LostOK' /\ FinalKnown'
  BY <1>1 DEF workflow, planned, loop, lost, PositionOK, RecordOK, LostOK,
              FinalKnown
<1> DEFINE Others == DatabaseOK' /\ SignalsOK' /\ ApiOK'
<1> USE DEF database, signals, api, operatorVars
<1>3. ASSUME NEW c \in Cancellers,
             \/ CancelRequestRead(c) \/ CancelRequestSignal(c)
             \/ CancelRequestWrite(c) \/ CancelWorkflow(c)
      PROVE  Others
  <2>1. DatabaseOK'
    BY <1>3 DEF CancelRequestRead, CancelRequestSignal, CancelRequestWrite,
                CancelWorkflow, DatabaseOK, RequestStatus
  <2>2. SignalsOK'
    BY <1>3 DEF CancelRequestRead, CancelRequestSignal, CancelRequestWrite,
                CancelWorkflow, SignalsOK
  <2>3. ApiOK'
    BY <1>3 DEF CancelRequestRead, CancelRequestSignal, CancelRequestWrite,
                CancelWorkflow, ApiOK
  <2>4. QED
    BY <2>1, <2>2, <2>3
<1>4. ASSUME NEW o \in Operators, NEW id \in ApprovalId, NEW approved \in BOOLEAN,
             ResolveCheck(o, id, approved)
      PROVE  Others
  <2>1. DatabaseOK' /\ SignalsOK'
    BY <1>4 DEF ResolveCheck, DatabaseOK, SignalsOK
  <2>2. ApiOK'
    BY <1>4 DEF ResolveCheck, ApiOK, ApprovalId
  <2>3. QED
    BY <2>1, <2>2
<1>5. ASSUME NEW o \in Operators, ResolveSignal(o) PROVE Others
  <2>1. DatabaseOK'
    BY <1>5 DEF ResolveSignal, DatabaseOK
  <2>2. operatorApproval[o] \in ApprovalId /\ operatorVerdict[o] \in BOOLEAN
    BY <1>5 DEF ResolveSignal, ApiOK
  <2>3. SignalsOK'
    BY <1>5, <2>2 DEF ResolveSignal, SignalsOK, Decision
  <2>4. ApiOK'
    BY <1>5 DEF ResolveSignal, ApiOK
  <2>5. QED
    BY <2>1, <2>3, <2>4
<1>6. ASSUME NEW i \in FailureItem,
             \/ ResolveFailure(i)
             \/ \E r \in Requeuers : RequeueSignal(r, i) \/ RequeueWrite(r, i)
      PROVE  Others
  <2>1. DatabaseOK'
    BY <1>6 DEF ResolveFailure, RequeueSignal, RequeueWrite, SignalManualRetry,
                DatabaseOK, FailureStatus
  <2>2. SignalsOK'
    BY <1>6 DEF ResolveFailure, RequeueSignal, RequeueWrite, SignalManualRetry,
                SignalsOK
  <2>3. ApiOK'
    BY <1>6 DEF ResolveFailure, RequeueSignal, RequeueWrite, ApiOK
  <2>4. QED
    BY <2>1, <2>2, <2>3
<1>7. ASSUME RetryRequest PROVE Others
  BY <1>7 DEF RetryRequest, SignalManualRetry, DatabaseOK, SignalsOK, ApiOK
<1>8. QED
  BY <1>2, <1>3, <1>4, <1>5, <1>6, <1>7 DEF Handlers

\* TypeInv is inductive.
LEMMA NextTypes == TypeInv /\ [Next]_vars => TypeInv'
<1>1. SUFFICES ASSUME TypeInv, [Next]_vars PROVE TypeInv'
  OBVIOUS
<1>2. CASE StartWorkflow \/ WorkflowSteps
  BY <1>1, <1>2, PreparationTypes, PauseTypes, ExecutionTypes, ActivityTypes
     DEF WorkflowSteps
<1>3. CASE ActivityWrite \/ Faults
  BY <1>1, <1>3, ActivityTypes DEF Faults
<1>4. CASE Handlers
  BY <1>1, <1>4, HandlerTypes
<1>5. CASE UNCHANGED vars
  <2>1. DatabaseOK' /\ PositionOK' /\ RecordOK'
    BY <1>1, <1>5 DEF vars, database, planned, loop, TypeInv, TypeOK, DatabaseOK,
                      PositionOK, RecordOK
  <2>2. LostOK' /\ SignalsOK' /\ ApiOK' /\ FinalKnown'
    BY <1>1, <1>5 DEF vars, lost, signals, api, operatorVars, TypeInv, TypeOK,
                      LostOK, SignalsOK, ApiOK, FinalKnown
  <2>3. QED
    BY <2>1, <2>2 DEF TypeInv, TypeOK
<1>6. QED
  BY <1>1, <1>2, <1>3, <1>4, <1>5 DEF Next

\* TypeInv holds of every behaviour.
LEMMA TypeInvariant == Spec => []TypeInv
  BY InitTypes, NextTypes, PTL DEF Spec

\* Every variable keeps its type, whatever is lost, repeated or signalled.
THEOREM TypeCorrect == Spec => []TypeOK
<1>1. TypeInv => TypeOK
  BY DEF TypeInv
<1>2. QED
  BY <1>1, TypeInvariant, PTL
-----------------------------------------------------------------------------
(***************************************************************************)
(* The approval.  Answered, ResolvedAsAnswered and Recorded carry the      *)
(* operator's verdict to the row; ApprovalPhases and StrayApprovals say    *)
(* that nothing disturbs the row on the way; Granted and Refused are what  *)
(* the execution may rely on.                                              *)
(***************************************************************************)
Preparing == {"notStarted", "initialize", "classify", "plan", "policy"}
Asking    == Preparing \cup {"createApproval"}
Executing == {"execute", "enqueueExecution", "verify", "enqueueVerification"}
Refusal   == {"REJECTED", "TIMED_OUT"}

\* A decision the workflow holds is an operator's answer.
Answered ==
  decision # NoDecision =>
    \E o \in Operators : /\ operatorState[o] = "answered"
                         /\ operatorApproval[o] = decision.id
                         /\ operatorVerdict[o] = decision.approved

\* The workflow learns the approval's id after it has asked, resolves it after
\* it has waited, and touches no task before.
ApprovalPhases ==
  /\ pc \in Asking => approvalId = 0
  /\ pc \in Asking \cup {"await"} => resolution = "none"
  /\ pc \in {"await", "resolve"} => approvalId # 0
  /\ pc \in Asking \cup {"await", "resolve"} => Touched = {}

\* A lost createHumanApproval writes to another row than the workflow's.
StrayApprovals ==
  \A c \in stray :
    c.activity = "createApproval" =>
      /\ pc \notin Preparing
      /\ c.attempt # approvalId
      /\ pc = "createApproval" => c.attempt < attempt

\* What the workflow resolves as approved, an operator approved.
ResolvedAsAnswered ==
  resolution = "APPROVED" => approvalId # 0 /\ ApprovedBySomeone(approvalId)

\* resolveHumanApproval returns when the row is written.
Recorded == pc = "resolve" /\ written # 0 => approvalStatus[approvalId] = resolution

\* Execution has the consent it needs, on record.
Granted ==
  Touched # {} \/ pc \in Executing =>
    (requiresApproval =>
       resolution = "APPROVED" /\ approvalStatus[approvalId] = "APPROVED")

\* A refusal is final.
Refused ==
  /\ resolution \in Refusal => Touched = {} /\ pc \notin Executing
  /\ \A id \in ApprovalId : approvalStatus[id] \in Refusal => resolution \in Refusal

ApprovalInv ==
  /\ Answered /\ ApprovalPhases /\ StrayApprovals /\ ResolvedAsAnswered
  /\ Recorded /\ Granted /\ Refused

\* Where the workflow waits for no consent any more.
Settled == pc \notin Asking \cup {"await", "resolve"}

\* As long as nobody answers and the workflow takes no answer, both stay.
LEMMA AnswersKept ==
  ASSUME Answered, UNCHANGED <<decision, operatorVars>>
  PROVE  Answered' /\ \A id : ApprovedBySomeone(id)' <=> ApprovedBySomeone(id)
  BY DEF Answered, operatorVars, ApprovedBySomeone

\* Without a task started, nothing is touched.
LEMMA StillUntouched ==
  ASSUME Touched = {}, UNCHANGED <<result, pms, adrift>>, pc' # "execute"
  PROVE  Touched' = {}
  BY DEF Touched

\* What a write does to the approval rows.
LEMMA EffectApprovals ==
  ASSUME NEW c, Effect(c)
  PROVE  \/ /\ c.activity \notin {"createApproval", "resolve"}
            /\ approvalStatus' = approvalStatus
         \/ /\ c.activity = "createApproval"
            /\ approvalStatus' \in
                 {approvalStatus, [approvalStatus EXCEPT ![c.attempt] = "PENDING"]}
         \/ /\ c.activity = "resolve"
            /\ approvalStatus' = [approvalStatus EXCEPT ![approvalId] = resolution]
  BY DEF Effect, InitializeWorkflowExecution, ClassifyGuestRequest,
     PlanGuestRequest, EvaluateGuestRequestPolicy, CreateHumanApproval,
     ResolveHumanApproval, EnqueueFailureItem, EscalateGuestRequest,
     FinalizeGuestRequest, SetRequestStatus, SetExecutionStatus,
     SetApprovalStatus

\* Before the workflow starts there is no approval.
LEMMA InitApproval == Init => ApprovalInv
<1>1. SUFFICES ASSUME Init PROVE ApprovalInv
  OBVIOUS
<1>2. Touched = {}
  BY <1>1 DEF Init, Touched
<1>3. QED
  BY <1>1, <1>2 DEF Init, ApprovalInv, Answered, ApprovalPhases, StrayApprovals,
     ResolvedAsAnswered, Recorded, Granted, Refused, Refusal, Executing, Asking,
     Preparing

\* The workflow prepares the request: classification, plan, policy.
LEMMA PreparationApproval ==
  ASSUME TypeInv, ApprovalInv, pc \in Preparing, written' = 0,
         UNCHANGED <<approvalStatus, decision, operatorVars, stray, approvalId,
                     resolution, result, pms, adrift>>,
         \/ pc' \in Asking \cup {"escalate", "finalize"}
         \/ ~requiresApproval' /\ Settled'
  PROVE  ApprovalInv'
<1> USE DEF ApprovalInv
<1>1. approvalId = 0 /\ resolution = "none" /\ Touched = {}
  BY DEF ApprovalPhases, Asking
<1>2. Answered'
  BY AnswersKept
<1>3. ApprovalPhases'
  BY <1>1, StillUntouched DEF ApprovalPhases, Asking, Preparing, Settled
<1>4. StrayApprovals'
  BY DEF StrayApprovals, TypeInv, TypeOK, LostOK
<1>5. ResolvedAsAnswered' /\ Recorded'
  BY <1>1 DEF ResolvedAsAnswered, Recorded
<1>6. Granted'
  BY <1>1, StillUntouched DEF Granted, Executing, Asking, Preparing
<1>7. Refused'
  BY <1>1 DEF Refused, Refusal
<1>8. QED
  BY <1>2, <1>3, <1>4, <1>5, <1>6, <1>7

\* Once settled, a step that leaves the approval alone may go on executing, or
\* keep what is touched.
LEMMA SettledApproval ==
  ASSUME TypeInv, ApprovalInv, Settled, Settled',
         UNCHANGED <<approvalStatus, decision, operatorVars, stray, approvalId,
                     resolution, requiresApproval>>,
         pc \in Executing \/ (pc' \notin Executing /\ Touched' = Touched)
  PROVE  ApprovalInv'
<1> USE DEF ApprovalInv
<1>1. Answered' /\ ResolvedAsAnswered'
  BY AnswersKept DEF ResolvedAsAnswered
<1>2. ApprovalPhases' /\ Recorded'
  BY DEF ApprovalPhases, Recorded, Settled
<1>3. StrayApprovals'
  BY DEF StrayApprovals, Settled, Asking
<1>4. Granted' /\ Refused'
  BY DEF Granted, Refused
<1>5. QED
  BY <1>1, <1>2, <1>3, <1>4

\* The steps from the start to the policy.
LEMMA PreparingSteps ==
  ASSUME TypeInv, ApprovalInv,
         \/ StartWorkflow \/ InitializeReturned \/ ClassifyReturned
         \/ PlanReturned \/ PolicyReturned
  PROVE  ApprovalInv'
<1> USE DEF Start, Finalize, Escalate, outside, lost, signals, api, database, loop,
            planned, Returned, Asking, Preparing
<1>1. CASE StartWorkflow
  BY <1>1, PreparationApproval DEF StartWorkflow
<1>2. CASE InitializeReturned
  BY <1>2, PreparationApproval DEF InitializeReturned
<1>3. CASE ClassifyReturned
  BY <1>3, PreparationApproval DEF ClassifyReturned
<1>4. CASE PlanReturned
  BY <1>4, PreparationApproval DEF PlanReturned
<1>5. CASE PolicyReturned
  <2>1. PICK approved \in BOOLEAN, required \in BOOLEAN :
          \/ Escalate("ESCALATED")
          \/ requiresApproval' /\ ~cancelled /\ Start("createApproval")
          \/ ~requiresApproval' /\ BeginExecution(tasks')
          \/ cancelled /\ BeginExecution(tasks')
    BY <1>5 DEF PolicyReturned
  <2>2. cancelled /\ BeginExecution(tasks') => pc' = "finalize" /\ written' = 0
    BY DEF BeginExecution
  <2>3. BeginExecution(tasks') => Settled' /\ written' = 0
    BY BeginExecutionArrives DEF TypeInv, TypeOK, Arrives, Settled
  <2>4. \/ pc' \in Asking \cup {"escalate", "finalize"}
        \/ ~requiresApproval' /\ Settled'
    BY <2>1, <2>2, <2>3
  <2>5. written' = 0
    BY <2>1, <2>2, <2>3
  <2>6. QED
    BY <1>5, <2>4, <2>5, PreparationApproval DEF PolicyReturned
<1>6. QED
  BY <1>1, <1>2, <1>3, <1>4, <1>5

\* createHumanApproval returns the id of the row its last attempt created, and
\* every earlier attempt has another one.
LEMMA CreateApprovalStep ==
  ASSUME TypeInv, ApprovalInv, CreateApprovalReturned
  PROVE  ApprovalInv'
<1> USE DEF CreateApprovalReturned, ApprovalInv, outside, lost, signals, api,
            database, loop, planned, Returned
<1>1. /\ pc = "createApproval" /\ resolution = "none" /\ Touched = {}
      /\ attempt \in ApprovalId /\ 0 \notin ApprovalId
  BY DEF ApprovalPhases, Asking, TypeInv, TypeOK, PositionOK, ApprovalId,
         OrchestrationActivity
<1>2. Answered' /\ ResolvedAsAnswered' /\ Recorded'
  BY <1>1, AnswersKept DEF ResolvedAsAnswered, Recorded
<1>3. ApprovalPhases'
  BY <1>1, StillUntouched DEF ApprovalPhases, Asking, Preparing
<1>4. StrayApprovals'
  BY <1>1 DEF StrayApprovals, Preparing, TypeInv, TypeOK, LostOK, Call, ApprovalId
<1>5. Granted' /\ Refused'
  BY <1>1, StillUntouched DEF Granted, Refused, Refusal, Executing
<1>6. QED
  BY <1>2, <1>3, <1>4, <1>5

\* The wait ends: with a cancellation, an answer to this approval or to another
\* one, or with the timer.
LEMMA AwaitSteps ==
  ASSUME TypeInv, ApprovalInv, ConditionMet \/ ApprovalTimeout
  PROVE  ApprovalInv'
<1> USE DEF ConditionMet, ApprovalTimeout, ApprovalInv, outside, lost, signals,
            api, database, loop, planned, Resolve, Finalize, Escalate, Start
<1>1. /\ pc = "await" /\ resolution = "none" /\ Touched = {}
      /\ approvalId # 0 /\ pc' \in {"resolve", "escalate", "finalize"}
      /\ written' = 0 /\ approvalId' = approvalId
      /\ UNCHANGED <<approvalStatus, decision, operatorVars, stray, result, pms,
                      adrift>>
  BY DEF ApprovalPhases
<1>2. Answered' /\ \A id : ApprovedBySomeone(id)' <=> ApprovedBySomeone(id)
  BY <1>1, AnswersKept
<1>3. Touched' = {}
  BY <1>1, StillUntouched
<1>4. ApprovalPhases' /\ Recorded'
  BY <1>1, <1>3 DEF ApprovalPhases, Recorded, Asking, Preparing
<1>5. StrayApprovals'
  BY <1>1 DEF StrayApprovals, Preparing
<1>6. ResolvedAsAnswered'
  <2>1. resolution' = "APPROVED" =>
          /\ resolution' # resolution
          /\ decision # NoDecision /\ decision.id = approvalId
          /\ decision.approved = TRUE
    BY <1>1 DEF SignalsOK, TypeInv, TypeOK, Decision
  <2>2. resolution' = "APPROVED" => ApprovedBySomeone(approvalId)
    BY <2>1 DEF Answered, ApprovedBySomeone
  <2>3. QED
    BY <1>1, <1>2, <2>2 DEF ResolvedAsAnswered
<1>7. Granted' /\ Refused'
  BY <1>1, <1>3 DEF Granted, Refused, Refusal, Executing
<1>8. QED
  BY <1>2, <1>4, <1>5, <1>6, <1>7

\* The resolved approval is on record; the workflow executes or escalates.
LEMMA ResolveStep ==
  ASSUME TypeInv, ApprovalInv, ResolveReturned
  PROVE  ApprovalInv'
<1> USE DEF ResolveReturned, ApprovalInv, outside, lost, signals, api, database,
            loop, planned, Returned, Escalate, Start
<1>1. /\ pc = "resolve" /\ Touched = {} /\ approvalId # 0
      /\ approvalStatus[approvalId] = resolution
      /\ UNCHANGED <<approvalStatus, decision, operatorVars, stray, approvalId,
                      resolution, requiresApproval, result, pms, adrift>>
  BY DEF ApprovalPhases, Recorded, Writes
<1>2. Answered' /\ ResolvedAsAnswered'
  BY <1>1, AnswersKept DEF ResolvedAsAnswered
<1>3. Settled' /\ written' = 0
  BY BeginExecutionArrives DEF TypeInv, TypeOK, Arrives, Settled, Asking, Preparing
<1>4. resolution # "APPROVED" => pc' = "escalate"
  OBVIOUS
<1>5. ApprovalPhases' /\ Recorded'
  BY <1>3 DEF ApprovalPhases, Recorded, Settled
<1>6. StrayApprovals'
  BY <1>1, <1>3 DEF StrayApprovals, Settled, Asking
<1>7. Granted'
  BY <1>1, <1>4, StillUntouched DEF Granted, Executing
<1>8. Refused'
  BY <1>1, <1>4, StillUntouched DEF Refused, Refusal, Executing
<1>9. QED
  BY <1>2, <1>5, <1>6, <1>7, <1>8

\* The execution, the verification, the escalation and the finalization.
LEMMA ExecutionSteps ==
  ASSUME TypeInv, ApprovalInv,
         \/ ExecuteReturned \/ EnqueueExecutionReturned \/ VerifyReturned
         \/ EnqueueVerificationReturned \/ EscalateReturned \/ FinalizeReturned
         \/ BrowserAttemptLost
  PROVE  ApprovalInv'
<1> USE DEF outside, lost, signals, api, database, loop, planned, Returned, Start,
            Settled, Asking, Preparing, Executing
<1>1. PositionOK
  BY DEF TypeInv, TypeOK
<1>2. CASE ExecuteReturned
  <2>1. Settled'
    BY <1>1, <1>2, ExecuteNextArrives DEF ExecuteReturned, Arrives
  <2>2. QED
    BY <1>2, <2>1, SettledApproval DEF ExecuteReturned
<1>3. CASE EnqueueExecutionReturned
  <2>1. Settled'
    BY <1>1, <1>3, ExecuteNextArrives, VerifyNextArrives
       DEF EnqueueExecutionReturned, Arrives
  <2>2. QED
    BY <1>3, <2>1, SettledApproval DEF EnqueueExecutionReturned
<1>4. CASE VerifyReturned
  <2>1. Settled'
    BY <1>1, <1>4, VerifyNextArrives DEF VerifyReturned, Arrives
  <2>2. QED
    BY <1>4, <2>1, SettledApproval DEF VerifyReturned
<1>5. CASE EnqueueVerificationReturned
  <2>1. Settled'
    BY <1>1, <1>5, VerifyNextArrives DEF EnqueueVerificationReturned, Arrives
  <2>2. QED
    BY <1>5, <2>1, SettledApproval DEF EnqueueVerificationReturned
<1>6. CASE EscalateReturned
  <2>1. Touched' = Touched
    BY <1>6 DEF EscalateReturned, Touched
  <2>2. QED
    BY <1>6, <2>1, SettledApproval DEF EscalateReturned
<1>7. CASE FinalizeReturned
  <2>1. Touched' = Touched
    BY <1>7 DEF FinalizeReturned, Touched
  <2>2. QED
    BY <1>7, <2>1, SettledApproval DEF FinalizeReturned
<1>8. CASE BrowserAttemptLost
  <2>1. pc \in Executing /\ Settled /\ Settled'
    BY <1>8 DEF BrowserAttemptLost, NextAttempt, BrowserActivity
  <2>2. QED
    BY <1>8, <2>1, SettledApproval DEF BrowserAttemptLost, NextAttempt
<1>9. QED
  BY <1>2, <1>3, <1>4, <1>5, <1>6, <1>7, <1>8

\* A write of the current attempt: createHumanApproval and resolveHumanApproval
\* run while nothing is touched, the others leave approvals alone.
LEMMA WriteApproval ==
  ASSUME TypeInv, ApprovalInv, ActivityWrite
  PROVE  ApprovalInv'
<1> USE DEF ActivityWrite, ApprovalInv, outside, lost, signals, api, loop, planned
<1>1. UNCHANGED <<pc, attempt, decision, operatorVars, stray, approvalId, resolution,
                  requiresApproval, result, pms, adrift, current>>
  OBVIOUS
<1>2. /\ Touched' = Touched /\ 0 \notin ApprovalId
      /\ approvalId \in {0} \cup ApprovalId
      /\ approvalStatus \in [ApprovalId -> ApprovalStatus]
  BY <1>1 DEF Touched, TypeInv, TypeOK, RecordOK, DatabaseOK, ApprovalId
<1>3. \/ /\ pc \notin {"createApproval", "resolve"}
         /\ approvalStatus' = approvalStatus
      \/ /\ pc = "createApproval"
         /\ approvalStatus' \in
              {approvalStatus, [approvalStatus EXCEPT ![attempt] = "PENDING"]}
      \/ /\ pc = "resolve"
         /\ approvalStatus' = [approvalStatus EXCEPT ![approvalId] = resolution]
  BY EffectApprovals DEF Here
<1>4. Answered' /\ ResolvedAsAnswered'
  BY <1>1, AnswersKept DEF ResolvedAsAnswered
<1>5. ApprovalPhases' /\ StrayApprovals'
  BY <1>1, <1>2 DEF ApprovalPhases, StrayApprovals
<1>6. Recorded'
  BY <1>1, <1>2, <1>3 DEF Recorded, ApprovalPhases
<1>7. Granted'
  BY <1>1, <1>2, <1>3 DEF Granted, ApprovalPhases, Asking, Executing
<1>8. Refused'
  BY <1>1, <1>2, <1>3 DEF Refused, Refusal
<1>9. QED
  BY <1>4, <1>5, <1>6, <1>7, <1>8

\* A lost attempt of createHumanApproval is older than any that follows it.
LEMMA LostApproval ==
  ASSUME TypeInv, ApprovalInv, ActivityLost \/ InitializeConflict
  PROVE  ApprovalInv'
<1> USE DEF ActivityLost, InitializeConflict, NextAttempt, ApprovalInv, lost, signals,
            api, database, loop, planned
<1>1. /\ pc \in OrchestrationActivity /\ written' = 0
      /\ attempt \in 1 .. OrchestrationAttempts
      /\ \/ pc' = pc /\ attempt' = attempt + 1
         \/ pc' = "failed"
      /\ stray' \in SUBSET (stray \cup {Here})
      /\ UNCHANGED <<approvalStatus, decision, operatorVars, approvalId, resolution,
                      requiresApproval, result, pms, adrift, current>>
  BY DEF OrchestrationActivity, TypeInv, TypeOK, PositionOK
<1>2. Touched' = Touched
  BY <1>1 DEF Touched, OrchestrationActivity
<1>3. Answered' /\ ResolvedAsAnswered' /\ Recorded'
  BY <1>1, AnswersKept DEF ResolvedAsAnswered, Recorded
<1>4. ApprovalPhases'
  BY <1>1, <1>2 DEF ApprovalPhases, Asking, Preparing
<1>5. StrayApprovals'
  <2>1. SUFFICES ASSUME NEW c \in stray', c.activity = "createApproval"
                 PROVE  /\ pc' \notin Preparing
                        /\ c.attempt # approvalId'
                        /\ pc' = "createApproval" => c.attempt < attempt'
    BY DEF StrayApprovals
  <2>2. CASE c \in stray
    BY <1>1, <2>1, <2>2 DEF StrayApprovals, Preparing, TypeInv, TypeOK, LostOK, Call
  <2>3. CASE c = Here
    BY <1>1, <2>1, <2>3 DEF Here, ApprovalPhases, Asking, Preparing
  <2>4. QED
    BY <1>1, <2>2, <2>3
<1>6. Granted' /\ Refused'
  BY <1>1, <1>2 DEF Granted, Refused, Executing
<1>7. QED
  BY <1>3, <1>4, <1>5, <1>6

\* What a lost attempt still writes is another approval's row, or what the
\* workflow's row holds or is about to hold.
LEMMA StrayApproval ==
  ASSUME TypeInv, ApprovalInv, NEW c \in stray, StrayWrite(c)
  PROVE  ApprovalInv'
<1> USE DEF StrayWrite, ApprovalInv, workflow, signals, api, loop, planned
<1>1. UNCHANGED <<pc, attempt, written, decision, operatorVars, approvalId,
                  resolution, requiresApproval, result, pms, adrift, current>>
  OBVIOUS
<1>2. /\ Touched' = Touched /\ 0 \notin ApprovalId
      /\ approvalId \in {0} \cup ApprovalId
      /\ approvalStatus \in [ApprovalId -> ApprovalStatus]
      /\ c \in Call
  BY <1>1 DEF Touched, TypeInv, TypeOK, RecordOK, DatabaseOK, LostOK, ApprovalId
<1>3. \/ approvalStatus' = approvalStatus
      \/ /\ c.activity = "createApproval" /\ c.attempt # approvalId
         /\ approvalStatus' = [approvalStatus EXCEPT ![c.attempt] = "PENDING"]
      \/ approvalStatus' = [approvalStatus EXCEPT ![approvalId] = resolution]
  BY EffectApprovals DEF StrayApprovals
<1>4. Answered' /\ ResolvedAsAnswered'
  BY <1>1, AnswersKept DEF ResolvedAsAnswered
<1>5. ApprovalPhases'
  BY <1>1, <1>2 DEF ApprovalPhases
<1>6. StrayApprovals'
  <2>1. \A d \in stray' :
          d \in stray \/ (d.activity = c.activity /\ d.attempt = c.attempt)
    BY <1>2 DEF Call
  <2>2. QED
    BY <1>1, <2>1 DEF StrayApprovals
<1>7. Recorded'
  BY <1>1, <1>2, <1>3 DEF Recorded, ApprovalPhases
<1>8. Granted'
  BY <1>1, <1>2, <1>3 DEF Granted, ResolvedAsAnswered
<1>9. Refused'
  BY <1>1, <1>2, <1>3 DEF Refused, Refusal
<1>10. QED
  BY <1>4, <1>5, <1>6, <1>7, <1>8, <1>9

\* The API only adds answers.
LEMMA HandlerApproval ==
  ASSUME TypeInv, ApprovalInv, Handlers
  PROVE  ApprovalInv'
<1> USE DEF ApprovalInv, database, signals, api, operatorVars
<1>1. UNCHANGED <<approvalStatus, workflow, pms, lost>>
  BY DEF Handlers, CancelRequestRead, CancelRequestSignal, CancelRequestWrite,
     CancelWorkflow, ResolveCheck, ResolveSignal, RequeueSignal, RequeueWrite,
     RetryRequest, ResolveFailure
<1>2. \/ UNCHANGED <<decision, operatorVars>>
      \/ \E o \in Operators, id \in ApprovalId, approved \in BOOLEAN :
           ResolveCheck(o, id, approved)
      \/ \E o \in Operators : ResolveSignal(o)
  BY DEF Handlers, CancelRequestRead, CancelRequestSignal, CancelRequestWrite,
     CancelWorkflow, RequeueSignal, RequeueWrite, RetryRequest, ResolveFailure
<1> DEFINE AnswersGrow ==
             Answered' /\ \A id : ApprovedBySomeone(id) => ApprovedBySomeone(id)'
<1>3. AnswersGrow
  <2>1. CASE UNCHANGED <<decision, operatorVars>>
    BY <2>1, AnswersKept
  <2>2. ASSUME NEW o \in Operators, NEW id \in ApprovalId,
               NEW approved \in BOOLEAN, ResolveCheck(o, id, approved)
        PROVE  AnswersGrow
    BY <2>2 DEF ResolveCheck, Answered, ApprovedBySomeone, TypeInv, TypeOK, ApiOK
  <2>3. ASSUME NEW o \in Operators, ResolveSignal(o)
        PROVE  AnswersGrow
    BY <2>3 DEF ResolveSignal, Answered, ApprovedBySomeone, TypeInv, TypeOK, ApiOK
  <2>4. QED
    BY <1>2, <2>1, <2>2, <2>3
<1>4. Touched' = Touched
  BY <1>1 DEF workflow, loop, lost, Touched
<1>5. ApprovalPhases' /\ StrayApprovals' /\ Recorded' /\ Granted' /\ Refused'
  BY <1>1, <1>4 DEF workflow, planned, loop, lost, ApprovalPhases, StrayApprovals,
                    Recorded, Granted, Refused
<1>6. ResolvedAsAnswered'
  BY <1>1, <1>3 DEF workflow, ResolvedAsAnswered
<1>7. QED
  BY <1>3, <1>5, <1>6

\* Every step keeps what is known of the approvals.
LEMMA NextApproval == TypeInv /\ ApprovalInv /\ [Next]_vars => ApprovalInv'
<1>1. SUFFICES ASSUME TypeInv, ApprovalInv, [Next]_vars PROVE ApprovalInv'
  OBVIOUS
<1>2. CASE StartWorkflow \/ WorkflowSteps
  BY <1>1, <1>2, PreparingSteps, CreateApprovalStep, AwaitSteps, ResolveStep,
     ExecutionSteps, LostApproval DEF WorkflowSteps
<1>3. CASE ActivityWrite
  BY <1>1, <1>3, WriteApproval
<1>4. CASE Faults
  <2>1. ASSUME NEW t \in Task, StrayEffect(t) PROVE ApprovalInv'
    <3>1. UNCHANGED <<database, workflow, signals, stray, api>> /\ Touched' = Touched
      BY <2>1 DEF StrayEffect, Touched, workflow, loop
    <3>2. Answered' /\ ResolvedAsAnswered'
      BY <1>1, <3>1, AnswersKept DEF api, signals, workflow, ApprovalInv,
                                    ResolvedAsAnswered
    <3>3. QED
      BY <1>1, <3>1, <3>2 DEF workflow, planned, database, ApprovalInv,
         ApprovalPhases, StrayApprovals, Recorded, Granted, Refused
  <2>2. QED
    BY <1>1, <1>4, <2>1, LostApproval, ExecutionSteps, StrayApproval DEF Faults
<1>5. CASE Handlers
  BY <1>1, <1>5, HandlerApproval
<1>6. CASE UNCHANGED vars
  BY <1>1, <1>6 DEF vars, database, signals, planned, loop, lost, api, operatorVars,
     ApprovalInv, Answered, ApprovalPhases, StrayApprovals, ResolvedAsAnswered,
     ApprovedBySomeone, Recorded, Granted, Refused, Touched
<1>7. QED
  BY <1>1, <1>2, <1>3, <1>4, <1>5, <1>6 DEF Next

\* The approval invariant, at every moment.
LEMMA ApprovalInvariant == Spec => []ApprovalInv
  BY InitApproval, NextApproval, TypeInvariant, PTL DEF Spec

\* The workflow's requiresApproval gate: no task of a request that needs a human
\* reaches the browser worker unless the approval it waited for is recorded
\* APPROVED and an operator approved that one.
THEOREM ApprovalGateHolds == Spec => []ApprovalGate
<1>1. ApprovalInv => ApprovalGate
  BY DEF ApprovalInv, Granted, ResolvedAsAnswered, ApprovalGate
<1>2. QED
  BY <1>1, ApprovalInvariant, PTL

\* The early returns after a rejection and a timeout: a refused request never
\* touches the PMS.
THEOREM RefusalIsFinal == Spec => []RefusalHolds
<1>1. ApprovalInv => RefusalHolds
  BY DEF ApprovalInv, Refused, Refusal, RefusalHolds
<1>2. QED
  BY <1>1, ApprovalInvariant, PTL
-----------------------------------------------------------------------------
(* The cancel signal.                                                      *)

\* A step that records no result and starts no execution touches nothing new.
LEMMA NothingStarted ==
  ASSUME UNCHANGED <<result, pms, adrift>>,
         pc' = "execute" => pc = "execute" /\ current' = current
  PROVE  Touched' \subseteq Touched
  BY DEF Touched

\* After the cancel signal no step touches a task that was untouched.
LEMMA CancelledStep ==
  ASSUME TypeInv, [Next]_vars, cancelled
  PROVE  Touched' \subseteq Touched
<1> USE DEF TypeInv, TypeOK, outside, lost, signals, api, database, loop, planned,
            workflow, Start, Finalize, Escalate, Resolve
<1>1. CASE \/ StartWorkflow \/ InitializeReturned \/ ClassifyReturned
           \/ PlanReturned \/ CreateApprovalReturned \/ ConditionMet
           \/ ApprovalTimeout \/ EscalateReturned \/ FinalizeReturned
  BY <1>1, NothingStarted DEF StartWorkflow, InitializeReturned, ClassifyReturned,
     PlanReturned, CreateApprovalReturned, ConditionMet, ApprovalTimeout,
     EscalateReturned, FinalizeReturned
<1>2. CASE PolicyReturned
  <2>1. pc' # "execute"
    BY <1>2, BeginExecutionArrives DEF PolicyReturned
  <2>2. QED
    BY <1>2, <2>1, NothingStarted DEF PolicyReturned
<1>3. CASE ResolveReturned
  <2>1. pc' # "execute"
    BY <1>3, BeginExecutionArrives DEF ResolveReturned
  <2>2. QED
    BY <1>3, <2>1, NothingStarted DEF ResolveReturned
<1>4. CASE ExecuteReturned
  <2>1. current \in Touched /\ pms' \subseteq pms \cup {current} /\ adrift' = adrift
    BY <1>4 DEF ExecuteReturned, Touched, PositionOK
  <2>2. pc' = "execute" => current' = current
    BY <1>4, ExecuteNextArrives DEF ExecuteReturned
  <2>3. \A t \in Task : result'[t] # "none" => result[t] # "none" \/ t = current
    BY <1>4 DEF ExecuteReturned, RecordOK
  <2>4. QED
    BY <2>1, <2>2, <2>3 DEF Touched
<1>5. CASE EnqueueExecutionReturned
  <2>1. pc' # "execute"
    BY <1>5, ExecuteNextArrives, VerifyNextArrives
       DEF EnqueueExecutionReturned, Arrives
  <2>2. QED
    BY <1>5, <2>1, NothingStarted DEF EnqueueExecutionReturned
<1>6. CASE VerifyReturned
  <2>1. pc' # "execute"
    BY <1>6, VerifyNextArrives DEF VerifyReturned, Arrives
  <2>2. QED
    BY <1>6, <2>1, NothingStarted DEF VerifyReturned
<1>7. CASE EnqueueVerificationReturned
  <2>1. pc' # "execute"
    BY <1>7, VerifyNextArrives DEF EnqueueVerificationReturned, Arrives
  <2>2. QED
    BY <1>7, <2>1, NothingStarted DEF EnqueueVerificationReturned
<1>8. CASE ActivityWrite \/ ActivityLost \/ InitializeConflict
  BY <1>8, NothingStarted DEF ActivityWrite, ActivityLost, InitializeConflict,
     NextAttempt
<1>9. CASE BrowserAttemptLost
  BY <1>9 DEF BrowserAttemptLost, NextAttempt, Touched
<1>10. ASSUME NEW c \in stray, StrayWrite(c) PROVE Touched' \subseteq Touched
  BY <1>10, NothingStarted DEF StrayWrite
<1>11. ASSUME NEW t \in Task, StrayEffect(t) PROVE Touched' \subseteq Touched
  BY <1>11 DEF StrayEffect, Touched
<1>12. CASE Handlers
  <2>1. UNCHANGED <<workflow, pms, lost>>
    BY <1>12 DEF Handlers, CancelRequestRead, CancelRequestSignal,
       CancelRequestWrite, CancelWorkflow, ResolveCheck, ResolveSignal,
       RequeueSignal, RequeueWrite, RetryRequest, ResolveFailure
  <2>2. QED
    BY <2>1, NothingStarted
<1>13. CASE UNCHANGED vars
  BY <1>13, NothingStarted DEF vars
<1>14. QED
  BY <1>1, <1>2, <1>3, <1>4, <1>5, <1>6, <1>7, <1>8, <1>9, <1>10, <1>11, <1>12, <1>13
     DEF Next, WorkflowSteps, Faults

\* The loop's check of cancelled: from the signal on, no step of the workflow, of
\* a retry or of a lost attempt hands another task to the browser worker.
THEOREM CancelHolds == Spec => NoNewTaskAfterCancel
<1>1. TypeInv /\ [Next]_vars => [cancelled => Touched' \subseteq Touched]_vars
  BY CancelledStep
<1>2. QED
  BY <1>1, TypeInvariant, PTL DEF Spec, NoNewTaskAfterCancel
-----------------------------------------------------------------------------
(***************************************************************************)
(* The execution loop and the outcome.  LoopPhases and OrderedExecution    *)
(* follow the tasks through the loop, Queued the failure queue behind it,  *)
(* Deserved and Confirmed what the derived status may claim, and Reported  *)
(* and Agreement the status on its way to the two rows.                    *)
(***************************************************************************)
\* Where the workflow has derived, or been denied, its result.
Ending == {"escalate", "finalize", "completed", "failed"}

\* There is a result at the end only, and a task in execution is one of the
\* plan without a result; a request that stops at its first failure has none.
LoopPhases ==
  /\ ~Settled => finalStatus = "none" /\ \A t \in Task : verified[t] = "none"
  /\ finalStatus # "none" => pc \in Ending
  /\ pc = "completed" => finalStatus # "none"
  /\ pc = "execute" =>
       /\ current \in tasks /\ result[current] = "none"
       /\ multiAction \/ \A t \in tasks : result[t] # "failed"

\* What the derived status says of the tasks is so.
Deserved ==
  /\ finalStatus = "COMPLETED" =>
       \A t \in tasks : result[t] = "ok" /\ verified[t] = "yes"
  /\ finalStatus = "PARTIALLY_COMPLETED" => \E t \in tasks : result[t] = "ok"
  /\ finalStatus = "CANCELLED" => cancelled

\* A success has been seen in the PMS, and the PMS forgets nothing.
Confirmed == \A t \in Task : result[t] = "ok" => t \in pms

\* Only the finalization writes COMPLETED over the request.
Reported == requestStatus = "COMPLETED" => finalStatus = "COMPLETED"

\* The finalization has written the request's row first, the execution's second.
Agreement ==
  /\ pc = "completed" \/ (pc = "finalize" /\ written # 0) =>
       \/ requestStatus = finalStatus
       \/ requestStatus = "CANCELLED" /\ \E c \in Cancellers : cancelling[c] = "done"
       \/ overtaken
  /\ pc = "completed" \/ (pc = "finalize" /\ written = 2) =>
       executionStatus = ExecutionStatusOf(finalStatus)

\* A task's failure is in the queue, or about to be written there.
HasItem(t, kind) == \E n \in ApprovalId : failureStatus[<<t, kind, n>>] # "none"

Queueing(t, activity) ==
  \/ pc = activity /\ written = 0 /\ t = current
  \/ pc = "failed"

Queued ==
  \A t \in Task :
    /\ result[t] = "failed" =>
         HasItem(t, "TASK_EXECUTION") \/ Queueing(t, "enqueueExecution")
    /\ verified[t] = "no" =>
         HasItem(t, "TASK_VERIFICATION") \/ Queueing(t, "enqueueVerification")

LoopInv ==
  /\ LoopPhases /\ Deserved /\ Confirmed /\ Reported /\ Agreement /\ Queued
  /\ OrderedExecution

(***************************************************************************)
(* The consent the lifecycle speaks of.  Asked says that the row is        *)
(* PENDING until the workflow resolves it, Resolved that it then holds the *)
(* resolution unless the workflow failed on the way, Conclusive that the   *)
(* derived status fits the resolution.                                     *)
(***************************************************************************)
Asked ==
  /\ pc \in {"createApproval", "await", "resolve"} => requiresApproval
  /\ pc = "createApproval" /\ written # 0 => approvalStatus[attempt] = "PENDING"

Resolved ==
  /\ pc = "resolve" => resolution # "none"
  /\ \A c \in stray : c.activity = "resolve" => resolution # "none"
  /\ resolution # "none" => approvalId # 0
  /\ approvalId # 0 =>
       \/ approvalStatus[approvalId] = "PENDING"
       \/ resolution # "none" /\ approvalStatus[approvalId] = resolution
  /\ resolution # "none" /\ pc \notin {"resolve", "failed"} =>
       approvalStatus[approvalId] = resolution

Conclusive ==
  /\ resolution \in Refusal => finalStatus \in {"none", "ESCALATED"}
  /\ finalStatus = "COMPLETED" /\ requiresApproval => resolution = "APPROVED"

ConsentInv == Asked /\ Resolved /\ Conclusive
-----------------------------------------------------------------------------
(* Where the loop goes.                                                    *)

\* Precedes orders the tasks strictly: nothing in a set comes before its first.
LEMMA FirstComesFirst ==
  ASSUME NEW S \in SUBSET Task, NEW t \in Task, First(t, S)
  PROVE  t \in S /\ \A s \in S : ~Precedes(s, t)
<1>1. t \in S
  BY DEF First
<1>2. ASSUME NEW s \in S, Precedes(s, t) PROVE FALSE
  <2>1. /\ s \in Nat /\ t \in Nat /\ Order[s] \in Nat /\ Order[t] \in Nat
    BY <1>1
  <2>2. s # t
    BY <1>2, <2>1 DEF Precedes
  <2>3. Precedes(t, s)
    BY <1>2, <2>2 DEF First
  <2>4. QED
    BY <1>2, <2>1, <2>3 DEF Precedes
<1>3. QED
  BY <1>1, <1>2

\* The loop hands over the first task that has no result.
Begins ==
  /\ pc' = "execute" /\ UNCHANGED finalStatus
  /\ current' \in tasks' /\ result'[current'] = "none"
  /\ \A s \in tasks' : Precedes(s, current') => result'[s] # "none"

\* The loop is over: a verification, or a result that is deserved.
Concludes ==
  \/ pc' = "verify" /\ UNCHANGED finalStatus
  \/ pc' \in {"escalate", "finalize"} /\ finalStatus' # "none" /\ Deserved'

\* A status is derived from complete results: COMPLETED when every task has
\* succeeded and none is without its verification.
LEMMA FinishConcludes ==
  ASSUME RecordOK', UNCHANGED cancelled,
         \A t \in tasks' : result'[t] = "ok" => verified'[t] # "none",
         NEW chosen, NEW res, NEW ver,
         chosen = tasks', res = result', ver = verified',
         Finish(chosen, res, ver)
  PROVE  Concludes /\ written' = 0
<1> DEFINE status == DeriveExecutionStatus(chosen, res, ver)
<1>1. /\ pc' \in {"escalate", "finalize"} /\ written' = 0
      /\ \/ status = "FAILED" /\ finalStatus' = "ESCALATED"
         \/ /\ status \in {"PARTIALLY_COMPLETED", "COMPLETED", "CANCELLED"}
            /\ finalStatus' = status
  BY DEF Finish, Escalate, Finalize, Start
<1>2. status = "COMPLETED" =>
        \A t \in tasks' : result'[t] = "ok" /\ verified'[t] # "no"
  BY DEF DeriveExecutionStatus
<1>3. status = "PARTIALLY_COMPLETED" => \E t \in tasks' : result'[t] = "ok"
  BY DEF DeriveExecutionStatus
<1>4. status = "CANCELLED" => cancelled
  BY DEF DeriveExecutionStatus
<1>5. \A t \in tasks' : verified'[t] \in {"none", "yes", "no"}
  BY DEF RecordOK
<1>6. QED
  BY <1>1, <1>2, <1>3, <1>4, <1>5 DEF Concludes, Deserved

\* After the last verification the status is derived from complete results.
LEMMA VerifyNextConcludes ==
  ASSUME RecordOK', UNCHANGED cancelled,
         NEW chosen, NEW res, NEW ver,
         chosen = tasks', res = result', ver = verified',
         VerifyNext(chosen, res, ver)
  PROVE  Concludes /\ written' = 0
<1> DEFINE todo == {t \in chosen : res[t] = "ok" /\ ver[t] = "none"}
<1>1. CASE Start("verify") /\ UNCHANGED finalStatus
  BY <1>1 DEF Start, Concludes
<1>2. CASE todo = {} /\ Finish(chosen, res, ver)
  <2>1. \A t \in tasks' : result'[t] = "ok" => verified'[t] # "none"
    BY <1>2
  <2>2. QED
    BY <1>2, <2>1, FinishConcludes
<1>3. QED
  BY <1>1, <1>2 DEF VerifyNext

\* The loop begins the first task without a result, or is over.
LEMMA ExecuteNextLeads ==
  ASSUME RecordOK', UNCHANGED <<cancelled, verified>>,
         NEW chosen, NEW res, chosen = tasks', res = result',
         ExecuteNext(chosen, res)
  PROVE  (Begins \/ Concludes) /\ written' = 0
<1> DEFINE todo == {t \in chosen : res[t] = "none"}
<1>1. CASE /\ Start("execute") /\ UNCHANGED finalStatus
           /\ \E t \in Task : First(t, todo) /\ current' = t
  <2>1. PICK t \in Task : First(t, todo) /\ current' = t
    BY <1>1
  <2>2. t \in todo /\ \A s \in todo : ~Precedes(s, t)
    <3>1. todo \in SUBSET Task
      BY DEF RecordOK
    <3>2. QED
      BY <2>1, <3>1, FirstComesFirst
  <2>3. QED
    BY <1>1, <2>1, <2>2 DEF Start, Begins
<1>2. CASE VerifyNext(chosen, res, verified)
  BY <1>2, VerifyNextConcludes
<1>3. QED
  BY <1>1, <1>2 DEF ExecuteNext

\* A cancellation before the first task is a result that is deserved.
LEMMA BeginExecutionLeads ==
  ASSUME RecordOK', UNCHANGED <<cancelled, result, verified>>,
         NEW chosen, chosen = tasks', BeginExecution(chosen)
  PROVE  (Begins \/ Concludes) /\ written' = 0
<1>1. CASE cancelled
  BY <1>1 DEF BeginExecution, Finalize, Start, Concludes, Deserved
<1>2. CASE ~cancelled
  BY <1>2, ExecuteNextLeads DEF BeginExecution
<1>3. QED
  BY <1>1, <1>2
-----------------------------------------------------------------------------
(* Steps.                                                                  *)

\* Before the workflow is started there is nothing to order or to report.
LEMMA InitLoop == Init => LoopInv
<1>1. SUFFICES ASSUME Init PROVE LoopInv
  OBVIOUS
<1>2. /\ pc = "notStarted" /\ finalStatus = "none" /\ requestStatus = "RECEIVED"
      /\ \A t \in Task : result[t] = "none" /\ verified[t] = "none"
      /\ tasks = {}
  BY <1>1 DEF Init
<1>3. QED
  BY <1>2 DEF LoopInv, LoopPhases, Deserved, Confirmed, Reported, Agreement,
     Queued, OrderedExecution, Ending

\* Before the execution begins there are no results, and a step that leaves
\* them alone takes the first task, or concludes without any.
LEMMA BeforeLoop ==
  ASSUME TypeInv, TypeInv', ApprovalInv, LoopInv, ~Settled,
         UNCHANGED <<database, result, verified, pms, lost, signals, api>>,
         \/ ~Settled' /\ UNCHANGED finalStatus
         \/ /\ pc' \in {"escalate", "finalize"} /\ written' = 0
            /\ \/ finalStatus' = "ESCALATED"
               \/ cancelled /\ finalStatus' = "CANCELLED"
         \/ BeginExecution(tasks')
  PROVE  LoopInv'
<1> USE DEF LoopInv, database, lost, signals, api
<1>1. /\ \A t \in Task : result[t] = "none" /\ verified[t] = "none"
      /\ pms = {} /\ adrift = {} /\ finalStatus = "none"
      /\ requestStatus # "COMPLETED"
  <2>1. Touched = {}
    BY DEF ApprovalInv, ApprovalPhases, Settled
  <2>2. QED
    BY <2>1 DEF Touched, LoopPhases, Reported
<1>2. \/ ~Settled' /\ finalStatus' = "none"
      \/ (Begins \/ Concludes) /\ written' = 0
  <2>1. CASE BeginExecution(tasks')
    <3>1. RecordOK'
      BY DEF TypeInv, TypeOK
    <3>2. QED
      BY <2>1, <3>1, BeginExecutionLeads
  <2>2. CASE /\ pc' \in {"escalate", "finalize"} /\ written' = 0
             /\ \/ finalStatus' = "ESCALATED"
                \/ cancelled /\ finalStatus' = "CANCELLED"
    BY <2>2 DEF Concludes, Deserved
  <2>3. QED
    BY <1>1, <2>1, <2>2
<1>3. LoopPhases'
  <2>1. tasks' \in SUBSET Task
    BY DEF TypeInv, TypeOK, RecordOK
  <2>2. \A t \in Task : result'[t] = "none" /\ verified'[t] = "none"
    BY <1>1
  <2>3. CASE ~Settled' /\ finalStatus' = "none"
    BY <2>2, <2>3 DEF LoopPhases, Settled, Asking, Preparing
  <2>4. CASE Begins
    BY <1>1, <2>1, <2>2, <2>4 DEF LoopPhases, Begins, Settled, Asking, Preparing
  <2>5. CASE Concludes
    BY <1>1, <2>5 DEF LoopPhases, Concludes, Settled, Asking, Preparing, Ending
  <2>6. QED
    BY <1>2, <2>3, <2>4, <2>5
<1>4. Deserved'
  BY <1>1, <1>2 DEF Deserved, Begins, Concludes
<1>5. Confirmed' /\ Reported' /\ Queued'
  BY <1>1 DEF Confirmed, Reported, Queued
<1>6. Agreement'
  BY <1>2 DEF Agreement, Begins, Concludes, Settled, Asking, Preparing
<1>7. OrderedExecution'
  <2>1. \A t \in Touched' : Begins /\ t = current'
    BY <1>1, <1>2 DEF Touched, Begins, Concludes, Settled, Asking, Preparing
  <2>2. tasks' \in SUBSET Task
    BY DEF TypeInv, TypeOK, RecordOK
  <2>3. Begins => \A t \in tasks' : ~Precedes(t, current')
    BY <1>1, <2>2 DEF Begins
  <2>4. QED
    BY <2>1, <2>3 DEF OrderedExecution, Precedes
<1>8. QED
  BY <1>3, <1>4, <1>5, <1>6, <1>7

\* Every step up to the execution keeps LoopInv.
LEMMA PreparingLoop ==
  ASSUME TypeInv, TypeInv', ApprovalInv, LoopInv,
         \/ StartWorkflow \/ InitializeReturned \/ ClassifyReturned
         \/ PlanReturned \/ PolicyReturned \/ CreateApprovalReturned
         \/ ConditionMet \/ ApprovalTimeout \/ ResolveReturned
  PROVE  LoopInv'
<1> USE DEF Start, Finalize, Escalate, Resolve, outside, loop, planned, Returned,
            Settled, Asking, Preparing
<1>1. CASE StartWorkflow \/ InitializeReturned
  BY <1>1, BeforeLoop DEF StartWorkflow, InitializeReturned
<1>2. CASE ClassifyReturned \/ PlanReturned
  BY <1>2, BeforeLoop DEF ClassifyReturned, PlanReturned
<1>3. CASE PolicyReturned
  BY <1>3, BeforeLoop DEF PolicyReturned
<1>4. CASE CreateApprovalReturned
  BY <1>4, BeforeLoop DEF CreateApprovalReturned
<1>5. CASE ConditionMet
  BY <1>5, BeforeLoop DEF ConditionMet
<1>6. CASE ApprovalTimeout
  BY <1>6, BeforeLoop DEF ApprovalTimeout
<1>7. CASE ResolveReturned
  <2>1. tasks' = tasks
    BY <1>7 DEF ResolveReturned
  <2>2. \/ BeginExecution(tasks')
        \/ pc' = "escalate" /\ written' = 0 /\ finalStatus' = "ESCALATED"
    BY <1>7, <2>1 DEF ResolveReturned
  <2>3. QED
    BY <1>7, <2>2, BeforeLoop DEF ResolveReturned
<1>8. QED
  BY <1>1, <1>2, <1>3, <1>4, <1>5, <1>6, <1>7

\* In the loop a task gets its result once, a failure goes to the queue before
\* the loop goes on, and a task is begun when those before it have succeeded, or
\* the request may go on after failures.
LEMMA InLoop ==
  ASSUME TypeInv, TypeInv', LoopInv, pc \in Executing, written' = 0,
         UNCHANGED <<database, signals, lost, api, multiAction, tasks>>,
         pms \subseteq pms', pms' \subseteq Touched,
         \A t \in Task : \/ result'[t] = result[t]
                         \/ pc = "execute" /\ t = current,
         \A t \in Task : result'[t] = "ok" => result[t] = "ok" \/ t \in pms',
         \A t \in Task : result'[t] = "failed" =>
           \/ result[t] = "failed"
           \/ pc' = "enqueueExecution" /\ current' = t,
         \A t \in Task : verified'[t] = "no" =>
           \/ verified[t] = "no"
           \/ pc' = "enqueueVerification" /\ current' = t,
         pc \in {"enqueueExecution", "enqueueVerification"} => written # 0,
         \/ Begins /\ (multiAction \/ \A t \in tasks : result'[t] # "failed")
         \/ Concludes
         \/ /\ pc' \in {"enqueueExecution", "enqueueVerification"}
            /\ UNCHANGED finalStatus
         \/ /\ pc = "execute" /\ pc' = "execute"
            /\ UNCHANGED <<current, result, finalStatus>>
  PROVE  LoopInv'
<1> USE DEF LoopInv, database, lost, signals, api
<1>1. Settled /\ finalStatus = "none" /\ pc # "failed" /\ requestStatus # "COMPLETED"
  BY DEF LoopPhases, Reported, Executing, Settled, Asking, Preparing, Ending
<1>2. LoopPhases'
  BY <1>1 DEF LoopPhases, Begins, Concludes, Settled, Asking, Preparing, Ending
<1>3. Deserved'
  BY <1>1 DEF Deserved, Begins, Concludes
<1>4. Confirmed' /\ Reported'
  BY <1>1 DEF Confirmed, Reported
<1>5. Agreement'
  BY DEF Agreement, Begins, Concludes
<1>6. Queued'
  <2>1. \A t \in Task, kind \in FailureKind : HasItem(t, kind)' <=> HasItem(t, kind)
    BY DEF HasItem
  <2>2. \A t \in Task : /\ ~Queueing(t, "enqueueExecution")
                        /\ ~Queueing(t, "enqueueVerification")
    BY <1>1 DEF Queueing
  <2>3. QED
    BY <2>1, <2>2 DEF Queued, Queueing, FailureKind
<1>7. OrderedExecution'
  <2>1. SUFFICES ASSUME NEW t \in tasks, NEW u \in tasks, Precedes(t, u),
                        u \in Touched'
                 PROVE  result'[t] = "ok" \/ (multiAction /\ result'[t] = "failed")
    BY DEF OrderedExecution, Precedes
  <2>2. t \in Task /\ u \in Task
    BY DEF TypeInv, TypeOK, RecordOK
  <2>3. CASE u \in Touched
    <3>1. result[t] = "ok" \/ (multiAction /\ result[t] = "failed")
      BY <2>1, <2>3 DEF OrderedExecution
    <3>2. QED
      BY <2>2, <3>1 DEF LoopPhases
  <2>4. CASE u \notin Touched
    <3>1. Begins /\ u = current'
      BY <2>1, <2>2, <2>4 DEF Touched, Concludes
    <3>2. result'[t] # "none"
      BY <2>1, <3>1 DEF Begins
    <3>3. result'[t] \in {"ok", "failed"}
      BY <2>2, <3>2 DEF TypeInv, TypeOK, RecordOK
    <3>4. pc' = "execute" /\ LoopPhases'
      BY <1>2, <3>1 DEF Begins
    <3>5. QED
      BY <3>3, <3>4 DEF LoopPhases
  <2>5. QED
    BY <2>3, <2>4
<1>8. QED
  BY <1>2, <1>3, <1>4, <1>5, <1>6, <1>7

\* Every step of the loop over the tasks and their verifications keeps LoopInv.
LEMMA ExecutionLoop ==
  ASSUME TypeInv, TypeInv', LoopInv,
         \/ ExecuteReturned \/ EnqueueExecutionReturned \/ VerifyReturned
         \/ EnqueueVerificationReturned
  PROVE  LoopInv'
<1> USE DEF Start, outside, loop, planned, Returned, Writes, Executing
<1>0. /\ RecordOK /\ RecordOK' /\ current \in Task
      /\ pms \subseteq Touched
      /\ pc = "execute" =>
           /\ current \in Touched
           /\ multiAction \/ \A t \in tasks : result[t] # "failed"
  BY DEF TypeInv, TypeOK, PositionOK, Touched, LoopInv, LoopPhases
<1>1. CASE ExecuteReturned
  <2>0. /\ pc = "execute" /\ pms \subseteq pms' /\ pms' \subseteq Touched
        /\ UNCHANGED <<database, signals, lost, api, multiAction, tasks, verified>>
    BY <1>0, <1>1 DEF ExecuteReturned
  <2>1. CASE /\ current \in pms'
             /\ result' = [result EXCEPT ![current] = "ok"]
             /\ ExecuteNext(tasks, result')
    <3>1. (Begins \/ Concludes) /\ written' = 0
      BY <1>0, <2>0, <2>1, ExecuteNextLeads DEF signals
    <3>2. /\ \A t \in Task : result'[t] = result[t] \/ t = current
          /\ \A t \in Task : result'[t] = "ok" => result[t] = "ok" \/ t \in pms'
          /\ \A t \in Task : result'[t] = "failed" => result[t] = "failed"
          /\ multiAction \/ \A t \in tasks : result'[t] # "failed"
      BY <1>0, <2>0, <2>1 DEF RecordOK
    <3>3. QED
      BY <2>0, <3>1, <3>2, InLoop
  <2>2. CASE Start("execute") /\ UNCHANGED <<current, result, finalStatus>>
    BY <2>0, <2>2, InLoop
  <2>3. CASE /\ result' = [result EXCEPT ![current] = "failed"]
             /\ Start("enqueueExecution")
             /\ UNCHANGED <<current, tries, finalStatus>>
    <3>1. /\ \A t \in Task : result'[t] = result[t] \/ t = current
          /\ \A t \in Task : result'[t] = "ok" => result[t] = "ok"
          /\ \A t \in Task : result'[t] = "failed" =>
               result[t] = "failed" \/ t = current
      BY <1>0, <2>3 DEF RecordOK
    <3>2. QED
      BY <2>0, <2>3, <3>1, InLoop
  <2>4. QED
    BY <1>1, <2>1, <2>2, <2>3 DEF ExecuteReturned
<1>2. CASE EnqueueExecutionReturned
  <2>0. /\ pc = "enqueueExecution" /\ written # 0
        /\ UNCHANGED <<database, signals, lost, api, multiAction, tasks, result,
                        verified, pms>>
    BY <1>2 DEF EnqueueExecutionReturned
  <2>1. \/ Begins /\ multiAction /\ written' = 0
        \/ Concludes /\ written' = 0
    <3>1. CASE multiAction
      <4>1. ExecuteNext(tasks, result)
        BY <1>2, <3>1 DEF EnqueueExecutionReturned
      <4>2. QED
        BY <1>0, <2>0, <3>1, <4>1, ExecuteNextLeads DEF signals
    <3>2. CASE ~multiAction
      <4>1. VerifyNext(tasks, result, verified)
        BY <1>2, <3>2 DEF EnqueueExecutionReturned
      <4>2. QED
        BY <1>0, <2>0, <4>1, VerifyNextConcludes DEF signals
    <3>3. QED
      BY <3>1, <3>2
  <2>2. QED
    BY <1>0, <2>0, <2>1, InLoop
<1>3. CASE VerifyReturned
  <2>0. /\ pc = "verify"
        /\ UNCHANGED <<database, signals, lost, api, multiAction, tasks, result,
                        pms>>
    BY <1>3 DEF VerifyReturned
  <2>1. CASE /\ verified' = [verified EXCEPT ![current] = "yes"]
             /\ VerifyNext(tasks, result, verified')
    <3>1. Concludes /\ written' = 0
      BY <1>0, <2>0, <2>1, VerifyNextConcludes DEF signals
    <3>2. \A t \in Task : verified'[t] = "no" => verified[t] = "no"
      BY <1>0, <2>1 DEF RecordOK
    <3>3. QED
      BY <1>0, <2>0, <3>1, <3>2, InLoop
  <2>2. CASE /\ verified' = [verified EXCEPT ![current] = "no"]
             /\ Start("enqueueVerification")
             /\ UNCHANGED <<current, tries, finalStatus>>
    <3>1. \A t \in Task : verified'[t] = "no" => verified[t] = "no" \/ t = current
      BY <1>0, <2>2 DEF RecordOK
    <3>2. QED
      BY <1>0, <2>0, <2>2, <3>1, InLoop
  <2>3. QED
    BY <1>3, <2>1, <2>2 DEF VerifyReturned
<1>4. CASE EnqueueVerificationReturned
  <2>0. /\ pc = "enqueueVerification" /\ written # 0
        /\ UNCHANGED <<database, signals, lost, api, multiAction, tasks, result,
                        verified, pms>>
    BY <1>4 DEF EnqueueVerificationReturned
  <2>1. Concludes /\ written' = 0
    <3>1. VerifyNext(tasks, result, verified)
      BY <1>4 DEF EnqueueVerificationReturned
    <3>2. QED
      BY <1>0, <2>0, <3>1, VerifyNextConcludes DEF signals
  <2>2. QED
    BY <1>0, <2>0, <2>1, InLoop
<1>5. QED
  BY <1>1, <1>2, <1>3, <1>4

\* What a step outside the loop keeps.
LEMMA LoopKept ==
  ASSUME LoopInv, UNCHANGED <<multiAction, tasks, result, verified, finalStatus>>,
         pms \subseteq pms', Touched' \subseteq Touched, cancelled => cancelled'
  PROVE  Deserved' /\ Confirmed' /\ OrderedExecution'
<1>1. Deserved' /\ Confirmed'
  BY DEF LoopInv, Deserved, Confirmed
<1>2. OrderedExecution'
  BY DEF LoopInv, OrderedExecution, Precedes
<1>3. QED
  BY <1>1, <1>2

\* A failure item, once written, is not deleted.
LEMMA ItemsKept ==
  ASSUME \A i \in FailureItem : failureStatus[i] # "none" => failureStatus'[i] # "none"
  PROVE  \A t \in Task, kind \in FailureKind : HasItem(t, kind) => HasItem(t, kind)'
<1>1. \A t \in Task, kind \in FailureKind, n \in ApprovalId :
        <<t, kind, n>> \in FailureItem
  BY DEF FailureItem, ApprovalId
<1>2. QED
  BY <1>1 DEF HasItem

\* What a write of an attempt does to the statuses of the request, of the
\* execution and of the queue items.
LEMMA EffectStatuses ==
  ASSUME DatabaseOK, NEW c \in Call, Effect(c)
  PROVE  /\ \/ requestStatus' = requestStatus
            \/ requestStatus' # "COMPLETED" /\ c.activity # "finalize"
            \/ requestStatus' = finalStatus /\ c.activity = "finalize"
         /\ \/ executionStatus' = executionStatus
            \/ executionStatus = "none"
            \/ executionStatus' = ExecutionStatusOf(finalStatus)
         /\ c.activity = "finalize" =>
              \/ c.written = 0 /\ requestStatus' = finalStatus
              \/ c.written = 1 /\ executionStatus' = ExecutionStatusOf(finalStatus)
         /\ c.activity = "enqueueExecution" =>
              failureStatus'[<<c.task, "TASK_EXECUTION", c.attempt>>] = "OPEN"
         /\ c.activity = "enqueueVerification" =>
              failureStatus'[<<c.task, "TASK_VERIFICATION", c.attempt>>] = "OPEN"
         /\ \A i \in FailureItem :
              failureStatus[i] # "none" => failureStatus'[i] # "none"
<1> USE DEF SetRequestStatus, SetExecutionStatus, SetApprovalStatus
<1>1. CASE InitializeWorkflowExecution(c)
  BY <1>1 DEF InitializeWorkflowExecution
<1>2. CASE ClassifyGuestRequest(c) \/ PlanGuestRequest(c)
           \/ EvaluateGuestRequestPolicy(c) \/ EscalateGuestRequest(c)
  BY <1>2 DEF ClassifyGuestRequest, PlanGuestRequest, EvaluateGuestRequestPolicy,
              EscalateGuestRequest
<1>3. CASE CreateHumanApproval(c) \/ ResolveHumanApproval(c)
  BY <1>3 DEF CreateHumanApproval, ResolveHumanApproval
<1>4. CASE EnqueueFailureItem(c)
  <2>1. PICK kind \in FailureKind :
          /\ c.activity = (IF kind = "TASK_EXECUTION" THEN "enqueueExecution"
                                                      ELSE "enqueueVerification")
          /\ failureStatus' =
               [failureStatus EXCEPT ![<<c.task, kind, c.attempt>>] = "OPEN"]
          /\ UNCHANGED <<requestStatus, executionStatus>>
    BY <1>4 DEF EnqueueFailureItem
  <2>2. <<c.task, kind, c.attempt>> \in FailureItem
    BY DEF FailureItem, Call
  <2>3. /\ failureStatus'[<<c.task, kind, c.attempt>>] = "OPEN"
        /\ \A i \in FailureItem :
             failureStatus[i] # "none" => failureStatus'[i] # "none"
    BY <2>1, <2>2 DEF DatabaseOK
  <2>4. QED
    BY <2>1, <2>3 DEF FailureKind
<1>5. CASE FinalizeGuestRequest(c)
  BY <1>5 DEF FinalizeGuestRequest
<1>6. QED
  BY <1>1, <1>2, <1>3, <1>4, <1>5 DEF Effect

\* The escalation hands over to the finalization, which completes the workflow
\* when both rows are written.
LEMMA EndingLoop ==
  ASSUME TypeInv, LoopInv, EscalateReturned \/ FinalizeReturned
  PROVE  LoopInv'
<1> USE DEF EscalateReturned, FinalizeReturned, Start, outside, loop, planned,
            Returned, Writes
<1>1. /\ pc \in {"escalate", "finalize"} /\ pc' \in {"finalize", "completed"}
      /\ pc' = "completed" => pc = "finalize" /\ written = 2
      /\ pc' = "finalize" => written' = 0
      /\ finalStatus # "none"
      /\ UNCHANGED <<database, signals, pms, lost, api, planned, finalStatus,
                      result, verified, current>>
  BY DEF TypeInv, FinalKnown
<1>2. Deserved' /\ Confirmed' /\ OrderedExecution'
  <2>1. Touched' \subseteq Touched
    BY <1>1 DEF Touched, lost
  <2>2. QED
    BY <1>1, <2>1, LoopKept DEF signals
<1>3. LoopPhases'
  BY <1>1 DEF LoopInv, LoopPhases, Settled, Asking, Preparing, Ending
<1>4. Reported' /\ Agreement'
  BY <1>1 DEF LoopInv, Reported, Agreement, database, lost, api
<1>5. Queued'
  BY <1>1 DEF LoopInv, Queued, Queueing, HasItem, database
<1>6. QED
  BY <1>2, <1>3, <1>4, <1>5 DEF LoopInv

\* A write of the current attempt.
LEMMA WriteLoop ==
  ASSUME TypeInv, LoopInv, ActivityWrite
  PROVE  LoopInv'
<1> USE DEF ActivityWrite, outside, loop, planned, TypeInv, TypeOK
<1>0. /\ pc \in OrchestrationActivity /\ Effect(Here) /\ written' = written + 1
      /\ UNCHANGED <<pc, attempt, multiAction, tasks, finalStatus, current, result,
                      verified, pms, adrift, cancelled, cancelling, overtaken>>
  BY DEF signals, lost, api
<1>1. Here \in Call
  <2>1. written \in {0, 1}
    BY <1>0 DEF Effect, Here, InitializeWorkflowExecution,
       ClassifyGuestRequest, PlanGuestRequest, EvaluateGuestRequestPolicy,
       CreateHumanApproval, ResolveHumanApproval, EnqueueFailureItem,
       EscalateGuestRequest, FinalizeGuestRequest
  <2>2. attempt \in 1 .. OrchestrationAttempts
    BY <1>0 DEF PositionOK
  <2>3. QED
    BY <1>0, <2>1, <2>2 DEF Here, Call, PositionOK
<1>2. /\ \/ requestStatus' = requestStatus
         \/ requestStatus' # "COMPLETED" /\ pc # "finalize"
         \/ requestStatus' = finalStatus /\ pc = "finalize"
      /\ \/ executionStatus' = executionStatus
         \/ executionStatus = "none"
         \/ executionStatus' = ExecutionStatusOf(finalStatus)
      /\ pc = "finalize" =>
           \/ written = 0 /\ requestStatus' = finalStatus
           \/ written = 1 /\ executionStatus' = ExecutionStatusOf(finalStatus)
      /\ pc = "enqueueExecution" =>
           failureStatus'[<<current, "TASK_EXECUTION", attempt>>] = "OPEN"
      /\ pc = "enqueueVerification" =>
           failureStatus'[<<current, "TASK_VERIFICATION", attempt>>] = "OPEN"
      /\ \A i \in FailureItem :
           failureStatus[i] # "none" => failureStatus'[i] # "none"
  <2> DEFINE c == Here
  <2>1. /\ c.activity = pc /\ c.attempt = attempt /\ c.written = written
        /\ c.task = current
    BY DEF Here
  <2> HIDE DEF c
  <2>2. QED
    BY <1>0, <1>1, <2>1, EffectStatuses DEF c
<1>3. Deserved' /\ Confirmed' /\ OrderedExecution'
  <2>1. Touched' \subseteq Touched
    BY <1>0 DEF Touched
  <2>2. QED
    BY <1>0, <2>1, LoopKept
<1>4. LoopPhases' /\ Reported'
  BY <1>0, <1>2 DEF LoopInv, LoopPhases, Reported, Settled
<1>5. Agreement'
  <2>1. pc # "completed" /\ written \in 0 .. 2
    BY <1>0 DEF OrchestrationActivity, PositionOK
  <2>2. QED
    BY <1>0, <1>2, <2>1 DEF LoopInv, Agreement
<1>6. Queued'
  <2>1. \A t \in Task, kind \in FailureKind : HasItem(t, kind) => HasItem(t, kind)'
    BY <1>2, ItemsKept
  <2>2. attempt \in ApprovalId
    BY <1>0 DEF PositionOK, ApprovalId
  <2>3. /\ pc = "enqueueExecution" => HasItem(current, "TASK_EXECUTION")'
        /\ pc = "enqueueVerification" => HasItem(current, "TASK_VERIFICATION")'
    BY <1>0, <1>2, <2>2 DEF HasItem
  <2>4. QED
    BY <1>0, <2>1, <2>3 DEF LoopInv, Queued, Queueing, FailureKind
<1>7. QED
  BY <1>3, <1>4, <1>5, <1>6 DEF LoopInv

\* A lost attempt: the next one starts over, or the workflow fails.
LEMMA LostLoop ==
  ASSUME TypeInv, LoopInv,
         ActivityLost \/ InitializeConflict \/ BrowserAttemptLost
  PROVE  LoopInv'
<1> USE DEF ActivityLost, InitializeConflict, BrowserAttemptLost, NextAttempt,
            loop, planned, lost
<1>1. /\ pc \in OrchestrationActivity \cup BrowserActivity /\ written' = 0
      /\ pc' \in {pc, "failed"}
      /\ UNCHANGED <<database, signals, api, planned, finalStatus, loop, pms,
                      overtaken>>
      /\ adrift' \subseteq adrift \cup (IF pc = "execute" THEN {current} ELSE {})
  BY DEF OrchestrationActivity
<1>2. Deserved' /\ Confirmed' /\ OrderedExecution'
  <2>1. Touched' \subseteq Touched
    BY <1>1 DEF Touched
  <2>2. QED
    BY <1>1, <2>1, LoopKept DEF signals
<1>3. LoopPhases'
  BY <1>1 DEF LoopInv, LoopPhases, Settled, Asking, Preparing, Ending,
              OrchestrationActivity, BrowserActivity
<1>4. Reported' /\ Agreement'
  BY <1>1 DEF LoopInv, Reported, Agreement, database, OrchestrationActivity,
              BrowserActivity
<1>5. Queued'
  BY <1>1 DEF LoopInv, Queued, Queueing, HasItem, database
<1>6. QED
  BY <1>2, <1>3, <1>4, <1>5 DEF LoopInv

\* A lost attempt that goes on writes an outcome the workflow has derived, and
\* whatever else it writes over the request is on record as overtaken.
LEMMA StrayLoop ==
  ASSUME TypeInv, LoopInv, NEW c \in stray, StrayWrite(c)
  PROVE  LoopInv'
<1> USE DEF StrayWrite, workflow, loop, planned
<1>1. c \in Call /\ DatabaseOK
  BY DEF TypeInv, TypeOK, LostOK
<1>2. /\ UNCHANGED <<pc, written, multiAction, tasks, finalStatus, current, result,
                      verified, pms, adrift, cancelled, cancelling>>
      /\ overtaken' = (overtaken \/ requestStatus' # requestStatus)
  BY DEF signals, api
<1>3. /\ \/ requestStatus' = requestStatus
         \/ requestStatus' # "COMPLETED"
         \/ requestStatus' = finalStatus
      /\ \/ executionStatus' = executionStatus
         \/ executionStatus = "none"
         \/ executionStatus' = ExecutionStatusOf(finalStatus)
      /\ \A i \in FailureItem :
           failureStatus[i] # "none" => failureStatus'[i] # "none"
  BY <1>1, EffectStatuses
<1>4. Deserved' /\ Confirmed' /\ OrderedExecution'
  <2>1. Touched' \subseteq Touched
    BY <1>2 DEF Touched
  <2>2. QED
    BY <1>2, <2>1, LoopKept
<1>5. LoopPhases' /\ Reported'
  BY <1>2, <1>3 DEF LoopInv, LoopPhases, Reported, Settled
<1>6. Agreement'
  <2>1. ExecutionStatusOf(finalStatus) # "none"
    BY DEF ExecutionStatusOf
  <2>2. overtaken \in BOOLEAN
    BY DEF TypeInv, TypeOK, LostOK
  <2>3. QED
    BY <1>2, <1>3, <2>1, <2>2 DEF LoopInv, Agreement
<1>7. Queued'
  <2>1. \A t \in Task, kind \in FailureKind : HasItem(t, kind) => HasItem(t, kind)'
    BY <1>3, ItemsKept
  <2>2. QED
    BY <1>2, <2>1 DEF LoopInv, Queued, Queueing, FailureKind
<1>8. QED
  BY <1>4, <1>5, <1>6, <1>7 DEF LoopInv

\* The API writes CANCELLED over the request, at the end of a cancel call, and
\* never removes a queue item.
LEMMA HandlerLoop ==
  ASSUME TypeInv, LoopInv, Handlers
  PROVE  LoopInv'
<1>1. UNCHANGED <<executionStatus, approvalStatus, workflow, pms, lost>>
  BY DEF Handlers, CancelRequestRead, CancelRequestSignal, CancelRequestWrite,
     CancelWorkflow, ResolveCheck, ResolveSignal, RequeueSignal, RequeueWrite,
     RetryRequest, ResolveFailure, database
<1>2. /\ cancelled => cancelled'
      /\ \/ requestStatus' = requestStatus
         \/ /\ requestStatus' = "CANCELLED"
            /\ \E d \in Cancellers : cancelling'[d] = "done"
      /\ \A d \in Cancellers : cancelling[d] = "done" => cancelling'[d] = "done"
  <2>1. cancelling \in [Cancellers -> {"idle", "signal", "write", "done", "error",
                                       "signalled"}]
    BY DEF TypeInv, TypeOK, ApiOK
  <2>2. ASSUME NEW d \in Cancellers,
               \/ CancelRequestRead(d) \/ CancelRequestSignal(d)
               \/ CancelRequestWrite(d) \/ CancelWorkflow(d)
        PROVE  <1>2!:
    BY <2>1, <2>2 DEF CancelRequestRead, CancelRequestSignal, CancelRequestWrite,
                      CancelWorkflow, database, signals
  <2>3. CASE UNCHANGED <<requestStatus, cancelled, cancelling>>
    BY <2>3
  <2>4. QED
    BY <2>2, <2>3 DEF Handlers, ResolveCheck, ResolveSignal, RequeueSignal,
       RequeueWrite, RetryRequest, ResolveFailure, database, signals, api
<1>3. \A i \in FailureItem : failureStatus[i] # "none" => failureStatus'[i] # "none"
  <2>1. CASE UNCHANGED failureStatus
    BY <2>1
  <2>2. ASSUME NEW i \in FailureItem,
               ResolveFailure(i) \/ \E r \in Requeuers : RequeueWrite(r, i)
        PROVE  <1>3!:
    BY <2>2 DEF ResolveFailure, RequeueWrite, TypeInv, TypeOK, DatabaseOK
  <2>3. QED
    BY <2>1, <2>2 DEF Handlers, CancelRequestRead, CancelRequestSignal,
       CancelRequestWrite, CancelWorkflow, ResolveCheck, ResolveSignal,
       RequeueSignal, RetryRequest, database
<1>4. Deserved' /\ Confirmed' /\ OrderedExecution'
  <2>1. Touched' \subseteq Touched
    BY <1>1 DEF Touched, workflow, loop, lost
  <2>2. QED
    BY <1>1, <1>2, <2>1, LoopKept DEF workflow, planned, loop
<1>5. LoopPhases' /\ Reported'
  BY <1>1, <1>2 DEF LoopInv, LoopPhases, Reported, Settled, workflow, planned, loop
<1>6. Agreement'
  BY <1>1, <1>2 DEF LoopInv, Agreement, workflow, lost
<1>7. Queued'
  <2>1. \A t \in Task, kind \in FailureKind : HasItem(t, kind) => HasItem(t, kind)'
    BY <1>3, ItemsKept
  <2>2. QED
    BY <1>1, <2>1 DEF LoopInv, Queued, Queueing, FailureKind, workflow, loop
<1>8. QED
  BY <1>4, <1>5, <1>6, <1>7 DEF LoopInv

\* LoopInv is inductive on top of the two layers before it.
LEMMA NextLoop ==
  TypeInv /\ ApprovalInv /\ LoopInv /\ [Next]_vars => LoopInv'
<1>1. SUFFICES ASSUME TypeInv, ApprovalInv, LoopInv, [Next]_vars PROVE LoopInv'
  OBVIOUS
<1>2. TypeInv'
  BY <1>1, NextTypes
<1>3. CASE StartWorkflow \/ WorkflowSteps
  BY <1>1, <1>2, <1>3, PreparingLoop, ExecutionLoop, EndingLoop, LostLoop
     DEF WorkflowSteps
<1>4. CASE ActivityWrite
  BY <1>1, <1>4, WriteLoop
<1>5. CASE Faults
  <2>1. ASSUME NEW t \in Task, StrayEffect(t) PROVE LoopInv'
    <3>1. /\ UNCHANGED <<database, workflow, signals, stray, overtaken, api>>
          /\ pms \subseteq pms' /\ Touched' \subseteq Touched
      BY <2>1 DEF StrayEffect, Touched, workflow, loop
    <3>2. Deserved' /\ Confirmed' /\ OrderedExecution'
      BY <1>1, <3>1, LoopKept DEF workflow, planned, loop, signals
    <3>3. QED
      BY <1>1, <3>1, <3>2 DEF LoopInv, LoopPhases, Settled, Reported, Agreement,
         Queued, Queueing, HasItem, database, workflow, planned, loop, api
  <2>2. QED
    BY <1>1, <1>5, <2>1, LostLoop, StrayLoop DEF Faults
<1>6. CASE Handlers
  BY <1>1, <1>6, HandlerLoop
<1>7. CASE UNCHANGED vars
  <2>1. Deserved' /\ Confirmed' /\ OrderedExecution'
    <3>1. Touched' \subseteq Touched
      BY <1>7 DEF vars, loop, lost, Touched
    <3>2. QED
      BY <1>1, <1>7, <3>1, LoopKept DEF vars, signals, planned, loop
  <2>2. QED
    BY <1>1, <1>7, <2>1 DEF LoopInv, LoopPhases, Settled, Reported, Agreement,
       Queued, Queueing, HasItem, vars, database, planned, loop, lost, api
<1>8. QED
  BY <1>1, <1>3, <1>4, <1>5, <1>6, <1>7 DEF Next

\* LoopInv holds of every behaviour.
LEMMA LoopInvariant == Spec => []LoopInv
  BY InitLoop, NextLoop, TypeInvariant, ApprovalInvariant, PTL DEF Spec

\* deriveExecutionStatus: a request is COMPLETED in the database only when every
\* task the policy left has succeeded, is verified, and is in the PMS.
THEOREM CompletedIsEarnedHolds == Spec => []CompletedIsEarned
<1>1. TypeInv /\ LoopInv => CompletedIsEarned
  BY DEF LoopInv, Reported, Deserved, Confirmed, CompletedIsEarned, TypeInv,
         TypeOK, RecordOK
<1>2. QED
  BY <1>1, TypeInvariant, LoopInvariant, PTL

\* finalizeGuestRequest: when the workflow completes, both rows carry its result,
\* unless a cancel call or a lost attempt has written over the request.
THEOREM FinalStatusHolds == Spec => []FinalStatusAgrees
<1>1. LoopInv => FinalStatusAgrees
  BY DEF LoopInv, Agreement, FinalStatusAgrees
<1>2. QED
  BY <1>1, LoopInvariant, PTL

\* enqueueFailureItem: a completed workflow leaves no failed task and no failed
\* verification without an item, whatever attempts were lost on the way.
THEOREM FailuresQueued == Spec => []FailuresAreQueued
<1>1. LoopInv => FailuresAreQueued
  BY DEF LoopInv, Queued, Queueing, HasItem, FailuresAreQueued
<1>2. QED
  BY <1>1, LoopInvariant, PTL

\* The task loop: tasks are taken in execution order, and a request that is not
\* MULTI_ACTION stops at its first failure, whatever the order numbers are.
THEOREM ExecutionIsOrdered == Spec => []OrderedExecution
<1>1. LoopInv => OrderedExecution
  BY DEF LoopInv
<1>2. QED
  BY <1>1, LoopInvariant, PTL
-----------------------------------------------------------------------------
(* The consent and the outcome agree.                                      *)

\* Nobody has been asked before the workflow is started.
LEMMA InitConsent == Init => ConsentInv
  BY DEF Init, ConsentInv, Asked, Resolved, Conclusive, Refusal

\* A step that leaves the approval alone.
LEMMA ConsentKept ==
  ASSUME ConsentInv, Conclusive',
         UNCHANGED <<approvalStatus, approvalId, resolution, requiresApproval>>,
         \A c \in stray' : c.activity = "resolve" => c \in stray \/ pc = "resolve",
         pc' = "createApproval" =>
           pc = "createApproval" /\ (written' = 0 \/ UNCHANGED <<attempt, written>>),
         pc' \in {"await", "resolve"} => pc' = pc,
         pc' \notin {"resolve", "failed"} => pc \notin {"resolve", "failed"}
  PROVE  ConsentInv'
<1>1. Asked'
  BY DEF ConsentInv, Asked
<1>2. Resolved'
  BY DEF ConsentInv, Resolved
<1>3. QED
  BY <1>1, <1>2 DEF ConsentInv

\* Until the approval is asked for there is none, and what is executed without
\* needs none.
LEMMA PreparingConsent ==
  ASSUME TypeInv, ApprovalInv, LoopInv, ConsentInv,
         \/ StartWorkflow \/ InitializeReturned \/ ClassifyReturned
         \/ PlanReturned \/ PolicyReturned
  PROVE  ConsentInv'
<1> USE DEF Start, Finalize, Escalate, outside, lost, database, loop, planned,
            Returned, Asking, Preparing
<1>1. /\ pc \in Preparing /\ approvalId = 0 /\ resolution = "none"
      /\ finalStatus = "none"
      /\ UNCHANGED <<approvalStatus, approvalId, resolution, stray>>
  BY DEF ApprovalInv, ApprovalPhases, LoopInv, LoopPhases, Settled, StartWorkflow,
     InitializeReturned, ClassifyReturned, PlanReturned, PolicyReturned
<1>2. /\ pc' # "resolve" /\ pc' # "await"
      /\ pc' = "createApproval" => requiresApproval' /\ written' = 0
      /\ finalStatus' = "COMPLETED" => ~requiresApproval'
  <2>1. CASE StartWorkflow \/ InitializeReturned \/ ClassifyReturned \/ PlanReturned
    BY <1>1, <2>1 DEF StartWorkflow, InitializeReturned, ClassifyReturned,
                      PlanReturned
  <2>2. CASE PolicyReturned
    <3>1. PICK approved \in BOOLEAN, required \in BOOLEAN :
            \/ Escalate("ESCALATED")
            \/ requiresApproval' /\ Start("createApproval") /\ UNCHANGED finalStatus
            \/ (~requiresApproval' \/ cancelled) /\ BeginExecution(tasks')
      BY <2>2 DEF PolicyReturned
    <3>2. BeginExecution(tasks') => pc' \in {"execute", "verify", "escalate", "finalize"}
      BY BeginExecutionArrives DEF TypeInv, TypeOK, Arrives
    <3>3. cancelled /\ BeginExecution(tasks') => finalStatus' = "CANCELLED"
      BY DEF BeginExecution
    <3>4. QED
      BY <1>1, <3>1, <3>2, <3>3
  <2>3. QED
    BY <2>1, <2>2
<1>3. QED
  BY <1>1, <1>2 DEF ConsentInv, Asked, Resolved, Conclusive, Refusal

\* The approval is asked for, answered or given up, and resolved.
LEMMA AskingConsent ==
  ASSUME TypeInv, ApprovalInv, LoopInv, ConsentInv,
         \/ CreateApprovalReturned \/ ConditionMet \/ ApprovalTimeout
         \/ ResolveReturned
  PROVE  ConsentInv'
<1> USE DEF Start, Finalize, Escalate, Resolve, outside, lost, database, loop,
            planned, Returned, Writes
<1>1. /\ ApprovalPhases /\ Recorded /\ Asked /\ Resolved /\ PositionOK
      /\ UNCHANGED <<approvalStatus, requiresApproval, stray>>
  BY DEF ApprovalInv, ConsentInv, CreateApprovalReturned, ConditionMet,
     ApprovalTimeout, ResolveReturned, TypeInv, TypeOK
<1>2. pc \in {"createApproval", "await", "resolve"} => finalStatus = "none"
  BY DEF LoopInv, LoopPhases, Settled, Asking
<1>3. CASE CreateApprovalReturned
  <2>1. /\ pc = "createApproval" /\ resolution = "none" /\ resolution' = "none"
        /\ approvalStatus[attempt] = "PENDING" /\ requiresApproval
        /\ approvalId' = attempt /\ pc' = "await" /\ finalStatus' = finalStatus
    BY <1>1, <1>3 DEF CreateApprovalReturned, ApprovalPhases, Asking, Asked
  <2>2. QED
    BY <1>1, <1>2, <2>1 DEF ConsentInv, Asked, Resolved, Conclusive, Refusal
<1>4. CASE ConditionMet \/ ApprovalTimeout
  <2>1. /\ pc = "await" /\ resolution = "none" /\ requiresApproval
        /\ approvalId # 0 /\ approvalId' = approvalId
        /\ approvalStatus[approvalId] = "PENDING"
        /\ \/ /\ pc' = "resolve" /\ finalStatus' = finalStatus
              /\ resolution' # "none"
           \/ /\ pc' \in {"finalize", "escalate"} /\ resolution' = resolution
              /\ finalStatus' \in {"CANCELLED", "ESCALATED"}
    BY <1>1, <1>4 DEF ConditionMet, ApprovalTimeout, ApprovalPhases, Asked, Resolved
  <2>2. QED
    BY <1>1, <1>2, <2>1 DEF ConsentInv, Asked, Resolved, Conclusive, Refusal
<1>5. CASE ResolveReturned
  <2>1. /\ pc = "resolve" /\ resolution # "none" /\ requiresApproval
        /\ approvalId # 0 /\ approvalStatus[approvalId] = resolution
        /\ UNCHANGED <<approvalId, resolution>>
        /\ \/ resolution = "APPROVED" /\ BeginExecution(tasks)
           \/ pc' = "escalate" /\ finalStatus' = "ESCALATED"
    BY <1>1, <1>5 DEF ResolveReturned, ApprovalPhases, Asked, Resolved, Recorded
  <2>2. BeginExecution(tasks) => pc' \in {"execute", "verify", "escalate", "finalize"}
    BY <1>1, BeginExecutionArrives DEF Arrives
  <2>3. QED
    BY <1>1, <2>1, <2>2 DEF ConsentInv, Asked, Resolved, Conclusive, Refusal
<1>6. QED
  BY <1>3, <1>4, <1>5

\* What is executed is not refused, and granted if it has to be.
LEMMA ExecutionConsent ==
  ASSUME TypeInv, ApprovalInv, LoopInv, ConsentInv,
         \/ ExecuteReturned \/ EnqueueExecutionReturned \/ VerifyReturned
         \/ EnqueueVerificationReturned \/ EscalateReturned \/ FinalizeReturned
         \/ ActivityLost \/ InitializeConflict \/ BrowserAttemptLost
  PROVE  ConsentInv'
<1> USE DEF Start, outside, lost, database, loop, planned, Returned
<1>0. PositionOK /\ Refused /\ Granted
  BY DEF TypeInv, TypeOK, ApprovalInv
<1>1. CASE \/ ExecuteReturned \/ EnqueueExecutionReturned \/ VerifyReturned
           \/ EnqueueVerificationReturned
  <2>1. /\ pc \in Executing
        /\ UNCHANGED <<approvalStatus, approvalId, resolution, requiresApproval, stray>>
    BY <1>1 DEF ExecuteReturned, EnqueueExecutionReturned, VerifyReturned,
       EnqueueVerificationReturned, Executing
  <2>2. pc' \in Executing \cup {"escalate", "finalize"}
    <3>1. CASE ExecuteReturned \/ EnqueueExecutionReturned
      BY <1>0, <3>1, ExecuteNextArrives, VerifyNextArrives DEF ExecuteReturned,
         EnqueueExecutionReturned, Executing, Arrives
    <3>2. CASE VerifyReturned \/ EnqueueVerificationReturned
      BY <1>0, <3>2, VerifyNextArrives DEF VerifyReturned,
         EnqueueVerificationReturned, Executing, Arrives
    <3>3. QED
      BY <1>1, <3>1, <3>2
  <2>3. Conclusive'
    BY <1>0, <2>1 DEF Conclusive, Granted, Refused
  <2>4. QED
    BY <2>1, <2>2, <2>3, ConsentKept DEF Executing
<1>2. CASE EscalateReturned \/ FinalizeReturned
  <2>1. Conclusive'
    BY <1>2 DEF EscalateReturned, FinalizeReturned, ConsentInv, Conclusive
  <2>2. QED
    BY <1>2, <2>1, ConsentKept DEF EscalateReturned, FinalizeReturned
<1>3. CASE ActivityLost \/ InitializeConflict \/ BrowserAttemptLost
  <2>1. /\ pc' \in {pc, "failed"} /\ written' = 0
        /\ pc \in OrchestrationActivity \cup BrowserActivity
        /\ UNCHANGED <<approvalStatus, approvalId, resolution, requiresApproval,
                        finalStatus>>
        /\ stray' \subseteq stray \cup {Here}
    BY <1>3 DEF ActivityLost, InitializeConflict, BrowserAttemptLost, NextAttempt,
                OrchestrationActivity
  <2>2. Conclusive'
    BY <2>1 DEF ConsentInv, Conclusive
  <2>3. QED
    BY <2>1, <2>2, ConsentKept DEF Here, OrchestrationActivity, BrowserActivity
<1>4. QED
  BY <1>1, <1>2, <1>3

\* createHumanApproval writes PENDING, resolveHumanApproval the resolution; a lost
\* attempt writes to another row, or repeats the resolution.
LEMMA WriteConsent ==
  ASSUME TypeInv, ApprovalInv, ConsentInv,
         ActivityWrite \/ \E c \in stray : StrayWrite(c)
  PROVE  ConsentInv'
<1> USE DEF loop, planned, outside, lost, workflow
<1>0. /\ ApprovalPhases /\ StrayApprovals /\ Asked /\ Resolved
      /\ approvalStatus \in [ApprovalId -> ApprovalStatus]
      /\ approvalId \in {0} \cup ApprovalId /\ 0 \notin ApprovalId
      /\ pc \in OrchestrationActivity => attempt \in ApprovalId
  BY DEF ApprovalInv, ConsentInv, TypeInv, TypeOK, DatabaseOK, RecordOK, PositionOK,
         ApprovalId
<1>1. CASE ActivityWrite
  <2>1. /\ pc \in OrchestrationActivity /\ Effect(Here)
        /\ UNCHANGED <<pc, attempt, stray, approvalId, resolution,
                        requiresApproval, finalStatus>>
    BY <1>1 DEF ActivityWrite
  <2>2. Conclusive'
    BY <2>1 DEF ConsentInv, Conclusive
  <2>3. CASE pc = "createApproval"
    <3>1. /\ approvalStatus' \in
               {approvalStatus, [approvalStatus EXCEPT ![attempt] = "PENDING"]}
          /\ written = 0 =>
               approvalStatus' = [approvalStatus EXCEPT ![attempt] = "PENDING"]
      BY <2>1, <2>3 DEF Effect, Here, InitializeWorkflowExecution,
         ClassifyGuestRequest, PlanGuestRequest, EvaluateGuestRequestPolicy,
         CreateHumanApproval, ResolveHumanApproval, EnqueueFailureItem,
         EscalateGuestRequest, FinalizeGuestRequest, SetApprovalStatus,
         SetRequestStatus
    <3>2. approvalStatus'[attempt] = "PENDING" /\ approvalId = 0
      BY <1>0, <2>1, <2>3, <3>1 DEF Asked, ApprovalPhases, Asking
    <3>3. QED
      BY <1>0, <2>1, <2>2, <2>3, <3>2 DEF ConsentInv, Asked, Resolved
  <2>4. CASE pc # "createApproval"
    <3>1. \/ approvalStatus' = approvalStatus
          \/ /\ pc = "resolve"
             /\ approvalStatus' = [approvalStatus EXCEPT ![approvalId] = resolution]
      BY <2>1, <2>4, EffectApprovals DEF Here
    <3>2. QED
      BY <1>0, <2>1, <2>2, <2>4, <3>1 DEF ConsentInv, Asked, Resolved, ApprovalPhases
  <2>5. QED
    BY <2>3, <2>4
<1>2. ASSUME NEW c \in stray, StrayWrite(c) PROVE ConsentInv'
  <2>1. UNCHANGED <<pc, attempt, written, approvalId, resolution, requiresApproval,
                    finalStatus>>
    BY <1>2 DEF StrayWrite
  <2>2. Conclusive'
    BY <2>1 DEF ConsentInv, Conclusive
  <2>3. \/ approvalStatus' = approvalStatus
        \/ /\ c.attempt # approvalId /\ c.activity = "createApproval"
           /\ approvalStatus' = [approvalStatus EXCEPT ![c.attempt] = "PENDING"]
        \/ /\ resolution # "none"
           /\ approvalStatus' = [approvalStatus EXCEPT ![approvalId] = resolution]
    BY <1>0, <1>2, EffectApprovals DEF StrayWrite, StrayApprovals, Resolved
  <2>4. pc = "createApproval" => approvalStatus'[attempt] = approvalStatus[attempt]
                                 \/ approvalStatus'[attempt] = "PENDING"
    BY <1>0, <2>3 DEF ApprovalPhases, Asking, OrchestrationActivity
  <2>5. approvalId # 0 =>
          \/ approvalStatus'[approvalId] = approvalStatus[approvalId]
          \/ resolution # "none" /\ approvalStatus'[approvalId] = resolution
    BY <1>0, <2>3
  <2>6. \A d \in stray' : d \in stray \/ d.activity = c.activity
    <3>1. c \in Call
      BY <1>2 DEF TypeInv, TypeOK, LostOK
    <3>2. QED
      BY <1>2, <3>1 DEF StrayWrite, Call
  <2>7. Asked'
    BY <1>0, <2>1, <2>4 DEF Asked
  <2>8. Resolved'
    BY <1>0, <1>2, <2>1, <2>5, <2>6 DEF Resolved
  <2>9. QED
    BY <2>2, <2>7, <2>8 DEF ConsentInv
<1>3. QED
  BY <1>1, <1>2

\* ConsentInv is inductive on top of the three layers before it.
LEMMA NextConsent ==
  TypeInv /\ ApprovalInv /\ LoopInv /\ ConsentInv /\ [Next]_vars => ConsentInv'
<1>1. SUFFICES ASSUME TypeInv, ApprovalInv, LoopInv, ConsentInv, [Next]_vars
               PROVE  ConsentInv'
  OBVIOUS
<1>2. CASE StartWorkflow \/ WorkflowSteps \/ ActivityWrite
  BY <1>1, <1>2, PreparingConsent, AskingConsent, ExecutionConsent, WriteConsent
     DEF WorkflowSteps
<1>3. CASE Faults
  <2>1. ASSUME NEW t \in Task, StrayEffect(t) PROVE ConsentInv'
    <3>1. UNCHANGED <<database, workflow, stray>> /\ Conclusive'
      BY <1>1, <2>1 DEF StrayEffect, workflow, planned, ConsentInv, Conclusive
    <3>2. QED
      BY <1>1, <3>1, ConsentKept DEF database, workflow, planned
  <2>2. QED
    BY <1>1, <1>3, <2>1, ExecutionConsent, WriteConsent DEF Faults
<1>4. CASE Handlers \/ UNCHANGED vars
  <2>1. UNCHANGED <<approvalStatus, workflow, lost>>
    BY <1>4 DEF Handlers, CancelRequestRead, CancelRequestSignal,
       CancelRequestWrite, CancelWorkflow, ResolveCheck, ResolveSignal,
       RequeueSignal, RequeueWrite, RetryRequest, ResolveFailure, database, vars,
       workflow
  <2>2. Conclusive'
    BY <1>1, <2>1 DEF ConsentInv, Conclusive, workflow, planned
  <2>3. QED
    BY <1>1, <2>1, <2>2, ConsentKept DEF workflow, planned, lost
<1>5. QED
  BY <1>1, <1>2, <1>3, <1>4 DEF Next

\* ConsentInv holds of every behaviour.
LEMMA ConsentInvariant == Spec => []ConsentInv
  BY InitConsent, NextConsent, TypeInvariant, ApprovalInvariant, LoopInvariant, PTL
     DEF Spec
-----------------------------------------------------------------------------
(***************************************************************************)
(* The workflow implements RequestLifecycle: every step is an abstract     *)
(* step or changes nothing the lifecycle speaks of.                        *)
(***************************************************************************)
AbstractStep == Lifecycle!Next \/ UNCHANGED Lifecycle!vars

\* The consent is what the row of the approval the workflow waits for says.
ConsentOnRecord ==
  /\ approvalId = 0 => Consent = "none"
  /\ approvalId # 0 =>
       \/ approvalStatus[approvalId] = "PENDING" /\ Consent = "asked"
       \/ approvalStatus[approvalId] = "APPROVED" /\ Consent = "granted"
       \/ approvalStatus[approvalId] \in Refusal /\ Consent = "refused"

\* The lifecycle's consent is the status of the row.
LEMMA ConsentIsOnRecord == TypeInv /\ ConsentInv => ConsentOnRecord
<1>1. SUFFICES ASSUME TypeInv, ConsentInv PROVE ConsentOnRecord
  OBVIOUS
<1>2. CASE approvalId = 0
  BY <1>2 DEF Consent, ConsentOnRecord
<1>3. CASE approvalId # 0
  <2>1. approvalStatus[approvalId] \in {"PENDING", "APPROVED", "REJECTED", "TIMED_OUT"}
    BY <1>1, <1>3 DEF ConsentInv, Resolved, TypeInv, TypeOK, RecordOK
  <2>2. QED
    BY <1>3, <2>1 DEF Consent, ConsentOnRecord, Refusal
<1>4. QED
  BY <1>2, <1>3

\* The initial states are initial.
LEMMA InitRefines == Init => Lifecycle!Init
<1>1. SUFFICES ASSUME Init PROVE Lifecycle!Init
  OBVIOUS
<1>2. Touched = {}
  BY <1>1 DEF Init, Touched
<1>3. Consent = "none" /\ Conclusion = "none"
  BY <1>1 DEF Init, Consent, Conclusion
<1>4. QED
  BY <1>1, <1>2, <1>3 DEF Init, Lifecycle!Init

\* A step in which no task is begun, no approval moves and nothing ends.
LEMMA Stutters ==
  ASSUME UNCHANGED <<requiresApproval, approvalId, approvalStatus, cancelled>>,
         Touched' = Touched,
         pc' = pc \/ {pc, pc'} \cap {"completed", "failed"} = {},
         UNCHANGED finalStatus \/ pc' # "completed"
  PROVE  AbstractStep
<1>1. Consent' = Consent
  BY DEF Consent
<1>2. Conclusion' = Conclusion
  BY DEF Conclusion
<1>3. QED
  BY <1>1, <1>2 DEF AbstractStep, Lifecycle!vars

\* A step that begins a task is a Touch, if it has the consent it needs.
LEMMA BeginningTouches ==
  ASSUME NEW t \in Task, ~cancelled, Touched' = Touched \cup {t},
         UNCHANGED <<requiresApproval, approvalId, approvalStatus, cancelled>>,
         {pc, pc'} \cap {"completed", "failed"} = {},
         requiresApproval => Consent = "granted"
  PROVE  AbstractStep
<1>1. Consent' = Consent
  BY DEF Consent
<1>2. Conclusion = "none" /\ Conclusion' = "none"
  BY DEF Conclusion
<1>3. Lifecycle!Touch(t)
  BY <1>1, <1>2 DEF Lifecycle!Touch, Lifecycle!Open
<1>4. QED
  BY <1>3 DEF AbstractStep, Lifecycle!Next

\* Whether a human is needed is settled while there is nothing to consent to.
LEMMA PreparingRefines ==
  ASSUME TypeInv, TypeInv', ApprovalInv, LoopInv,
         \/ StartWorkflow \/ InitializeReturned \/ ClassifyReturned
         \/ PlanReturned \/ PolicyReturned
  PROVE  AbstractStep
<1> USE DEF Start, Finalize, Escalate, outside, lost, signals, database, loop,
            planned, Returned
<1>1. /\ pc \in Preparing /\ approvalId = 0 /\ Touched = {}
      /\ UNCHANGED <<approvalStatus, approvalId, cancelled, result, pms, adrift>>
  BY DEF ApprovalInv, ApprovalPhases, Asking, Preparing, StartWorkflow,
     InitializeReturned, ClassifyReturned, PlanReturned, PolicyReturned
<1>2. /\ Consent = "none" /\ Consent' = "none"
      /\ Conclusion = "none" /\ requiresApproval' \in BOOLEAN
  BY <1>1 DEF Consent, Conclusion, Preparing, TypeInv, TypeOK, RecordOK
<1>3. /\ pc' \notin {"completed", "failed"}
      /\ pc' = "execute" =>
           ~cancelled /\ ~requiresApproval /\ ~requiresApproval'
  <2>1. CASE StartWorkflow \/ InitializeReturned \/ ClassifyReturned \/ PlanReturned
    BY <2>1 DEF StartWorkflow, InitializeReturned, ClassifyReturned, PlanReturned
  <2>2. CASE PolicyReturned
    <3>1. PICK approved \in BOOLEAN, required \in BOOLEAN :
            /\ requiresApproval' = (required \/ requiresApproval)
            /\ \/ Escalate("ESCALATED")
               \/ Start("createApproval")
               \/ (~requiresApproval' \/ cancelled) /\ BeginExecution(tasks')
      BY <2>2 DEF PolicyReturned
    <3>2. BeginExecution(tasks') =>
            /\ pc' \in {"execute", "verify", "escalate", "finalize"}
            /\ cancelled => pc' # "execute"
      BY BeginExecutionArrives DEF TypeInv, TypeOK, Arrives
    <3>3. requiresApproval \in BOOLEAN /\ requiresApproval' \in BOOLEAN
      BY DEF TypeInv, TypeOK, RecordOK
    <3>4. QED
      BY <3>1, <3>2, <3>3
  <2>3. QED
    BY <2>1, <2>2
<1>4. CASE pc' = "execute"
  <2>1. current' \in Task /\ Touched' = Touched \cup {current'}
    BY <1>1, <1>4 DEF Touched, TypeInv, TypeOK, PositionOK
  <2>2. requiresApproval' = requiresApproval
    BY <1>2, <1>3, <1>4 DEF TypeInv, TypeOK, RecordOK
  <2>3. {pc, pc'} \cap {"completed", "failed"} = {}
    BY <1>1, <1>3 DEF Preparing
  <2>4. QED
    BY <1>1, <1>3, <1>4, <2>1, <2>2, <2>3, BeginningTouches
<1>5. CASE pc' # "execute"
  <2>1. Touched' = {}
    BY <1>1, <1>5, StillUntouched
  <2>2. Conclusion' = "none"
    BY <1>3 DEF Conclusion
  <2>3. Lifecycle!Assess
    BY <1>1, <1>2, <2>1, <2>2 DEF Lifecycle!Assess, Lifecycle!Open
  <2>4. QED
    BY <2>3 DEF AbstractStep, Lifecycle!Next
<1>6. QED
  BY <1>4, <1>5

\* Asking for the approval; waiting for it leaves the lifecycle alone, and the
\* first task is begun with the consent on record.
LEMMA AskingRefines ==
  ASSUME TypeInv, TypeInv', ApprovalInv, LoopInv, ConsentInv,
         \/ CreateApprovalReturned \/ ConditionMet \/ ApprovalTimeout
         \/ ResolveReturned
  PROVE  AbstractStep
<1> USE DEF Start, Finalize, Escalate, Resolve, outside, lost, signals, database,
            loop, planned, Returned, Writes
<1>1. /\ pc \in {"createApproval", "await", "resolve"} /\ Touched = {}
      /\ requiresApproval
      /\ UNCHANGED <<requiresApproval, approvalStatus, cancelled, result, pms, adrift>>
  BY DEF ApprovalInv, ApprovalPhases, Asking, ConsentInv, Asked,
     CreateApprovalReturned, ConditionMet, ApprovalTimeout, ResolveReturned
<1>2. CASE CreateApprovalReturned
  <2>1. /\ approvalId = 0 /\ approvalId' = attempt /\ attempt # 0
        /\ approvalStatus[attempt] = "PENDING" /\ pc' = "await"
    BY <1>2 DEF CreateApprovalReturned, ApprovalInv, ApprovalPhases, Asking,
       ConsentInv, Asked, TypeInv, TypeOK, PositionOK
  <2>2. Consent = "none" /\ Consent' = "asked"
    BY <1>1, <2>1 DEF Consent
  <2>3. Conclusion = "none" /\ Conclusion' = "none"
    BY <1>1, <2>1 DEF Conclusion
  <2>4. Touched' = Touched
    BY <1>1, <2>1, StillUntouched
  <2>5. Lifecycle!Ask
    BY <1>1, <2>2, <2>3, <2>4 DEF Lifecycle!Ask, Lifecycle!Open
  <2>6. QED
    BY <2>5 DEF AbstractStep, Lifecycle!Next
<1>3. CASE ConditionMet \/ ApprovalTimeout
  <2>1. /\ pc = "await" /\ pc' \in {"resolve", "finalize", "escalate"}
        /\ approvalId' = approvalId
    BY <1>3 DEF ConditionMet, ApprovalTimeout
  <2>2. Touched' = Touched
    BY <1>1, <2>1, StillUntouched
  <2>3. QED
    BY <1>1, <2>1, <2>2, Stutters
<1>4. CASE ResolveReturned
  <2>1. /\ approvalId # 0 /\ approvalId' = approvalId
        /\ approvalStatus[approvalId] = resolution
        /\ \/ resolution = "APPROVED" /\ BeginExecution(tasks)
           \/ pc' = "escalate"
    BY <1>4 DEF ResolveReturned, ApprovalInv, ApprovalPhases, Recorded
  <2>2. BeginExecution(tasks) =>
          /\ pc' \in {"execute", "verify", "escalate", "finalize"}
          /\ cancelled => pc' # "execute"
    BY BeginExecutionArrives DEF TypeInv, TypeOK, Arrives
  <2>3. {pc, pc'} \cap {"completed", "failed"} = {}
    BY <1>1, <2>1, <2>2
  <2>4. CASE pc' = "execute"
    <3>1. current' \in Task /\ Touched' = Touched \cup {current'}
      BY <1>1, <2>4 DEF Touched, TypeInv, TypeOK, PositionOK
    <3>2. Consent = "granted"
      BY <2>1, <2>4 DEF Consent
    <3>3. QED
      BY <1>1, <2>1, <2>2, <2>3, <2>4, <3>1, <3>2, BeginningTouches
  <2>5. CASE pc' # "execute"
    <3>1. Touched' = Touched
      BY <1>1, <2>5, StillUntouched
    <3>2. QED
      BY <1>1, <2>1, <2>2, <2>3, <3>1, Stutters
  <2>6. QED
    BY <2>4, <2>5
<1>5. QED
  BY <1>2, <1>3, <1>4

\* In the loop a task is begun with the consent granted and no cancellation in;
\* everything else the loop does is behind the lifecycle.
LEMMA LoopRefines ==
  ASSUME TypeInv, TypeInv', ApprovalInv, LoopInv, ConsentInv,
         \/ ExecuteReturned \/ EnqueueExecutionReturned \/ VerifyReturned
         \/ EnqueueVerificationReturned
  PROVE  AbstractStep
<1> USE DEF Start, outside, lost, signals, database, loop, planned, Returned
<1>0. PositionOK /\ PositionOK' /\ RecordOK
  BY DEF TypeInv, TypeOK
<1>1. /\ pc \in Executing
      /\ UNCHANGED <<approvalStatus, approvalId, requiresApproval, cancelled, adrift>>
  BY DEF ExecuteReturned, EnqueueExecutionReturned, VerifyReturned,
     EnqueueVerificationReturned, Executing
<1>2. /\ pc' \in Executing \cup {"escalate", "finalize"}
      /\ \/ pc' = "execute" => ~cancelled
         \/ pc = "execute" /\ pc' = "execute" /\ current' = current
  <2>1. CASE ExecuteReturned
    BY <1>0, <2>1, ExecuteNextArrives DEF ExecuteReturned, Executing, Arrives
  <2>2. CASE EnqueueExecutionReturned
    BY <1>0, <2>2, ExecuteNextArrives, VerifyNextArrives
       DEF EnqueueExecutionReturned, Executing, Arrives
  <2>3. CASE VerifyReturned
    BY <1>0, <2>3, VerifyNextArrives DEF VerifyReturned, Executing, Arrives
  <2>4. CASE EnqueueVerificationReturned
    BY <1>0, <2>4, VerifyNextArrives DEF EnqueueVerificationReturned, Executing,
                                         Arrives
  <2>5. QED
    BY <2>1, <2>2, <2>3, <2>4
<1>3. Touched' = IF pc' = "execute" THEN Touched \cup {current'} ELSE Touched
  <2>1. CASE ExecuteReturned
    <3>1. /\ pc = "execute" /\ pms' \in {pms, pms \cup {current}}
          /\ \/ result' = [result EXCEPT ![current] = "ok"]
             \/ result' = result /\ pc' = "execute" /\ current' = current
             \/ result' = [result EXCEPT ![current] = "failed"]
      BY <2>1 DEF ExecuteReturned
    <3>2. /\ \A t \in Task \ {current} : result'[t] = result[t]
          /\ current \in Touched
          /\ result'[current] # "none" \/ (pc' = "execute" /\ current' = current)
      BY <1>0, <3>1 DEF RecordOK, PositionOK, Touched
    <3>3. QED
      BY <1>0, <1>1, <3>1, <3>2 DEF Touched, PositionOK
  <2>2. CASE \/ EnqueueExecutionReturned \/ VerifyReturned
             \/ EnqueueVerificationReturned
    <3>1. pc # "execute" /\ UNCHANGED <<result, pms, adrift>>
      BY <2>2 DEF EnqueueExecutionReturned, VerifyReturned,
                  EnqueueVerificationReturned
    <3>2. QED
      BY <3>1 DEF Touched
  <2>3. QED
    BY <2>1, <2>2
<1>4. {pc, pc'} \cap {"completed", "failed"} = {}
  BY <1>1, <1>2 DEF Executing
<1>5. CASE pc' = "execute" /\ ~cancelled
  <2>1. requiresApproval => Consent = "granted"
    BY <1>1 DEF ApprovalInv, Granted, ResolvedAsAnswered, Consent
  <2>2. current' \in Task /\ Touched' = Touched \cup {current'}
    BY <1>0, <1>3, <1>5 DEF PositionOK
  <2>3. QED
    BY <1>1, <1>4, <1>5, <2>1, <2>2, BeginningTouches
<1>6. CASE ~(pc' = "execute" /\ ~cancelled)
  <2>1. Touched' = Touched
    <3>1. pc = "execute" => current \in Touched
      BY <1>0 DEF Touched, PositionOK
    <3>2. QED
      BY <1>2, <1>3, <1>6, <3>1
  <2>2. UNCHANGED finalStatus \/ pc' # "completed"
    BY <1>4
  <2>3. QED
    BY <1>1, <1>4, <2>1, <2>2, Stutters
<1>7. QED
  BY <1>5, <1>6

\* The workflow completes with a result that fits the consent and the tasks.
LEMMA EndingRefines ==
  ASSUME TypeInv, ApprovalInv, LoopInv, ConsentInv,
         EscalateReturned \/ FinalizeReturned
  PROVE  AbstractStep
<1> USE DEF Start, outside, lost, signals, database, loop, planned, Returned
<1>1. CASE EscalateReturned
  <2>1. Touched' = Touched
    BY <1>1 DEF EscalateReturned, Touched
  <2>2. QED
    BY <1>1, <2>1, Stutters DEF EscalateReturned
<1>2. CASE FinalizeReturned
  <2>1. /\ pc = "finalize" /\ pc' = "completed" /\ finalStatus \in FinalStatus
        /\ UNCHANGED <<requiresApproval, approvalId, approvalStatus, cancelled,
                        finalStatus>>
    BY <1>2 DEF FinalizeReturned, TypeInv, FinalKnown, TypeOK, PositionOK
  <2>2. /\ Touched' = Touched /\ Consent' = Consent
        /\ Conclusion = "none" /\ Conclusion' = finalStatus
    BY <1>2, <2>1 DEF FinalizeReturned, Touched, Consent, Conclusion
  <2>3. ConsentOnRecord /\ Resolved /\ Conclusive /\ Deserved
    BY ConsentIsOnRecord DEF ConsentInv, LoopInv
  <2>4. resolution # "none" =>
          approvalId # 0 /\ approvalStatus[approvalId] = resolution
    BY <2>1, <2>3 DEF Resolved
  <2>5. finalStatus = "COMPLETED" => (requiresApproval => Consent = "granted")
    BY <2>3, <2>4 DEF ConsentOnRecord, Conclusive, Refusal
  <2>6. Consent = "refused" => finalStatus = "ESCALATED"
    BY <2>1, <2>3 DEF ConsentOnRecord, Resolved, Conclusive, Refusal, FinalStatus
  <2>7. finalStatus = "PARTIALLY_COMPLETED" => Touched # {}
    BY <2>3 DEF Deserved, Touched, TypeInv, TypeOK, RecordOK
  <2>8. finalStatus = "CANCELLED" => cancelled
    BY <2>3 DEF Deserved
  <2>9. Lifecycle!Close(finalStatus)
    BY <2>1, <2>2, <2>5, <2>6, <2>7, <2>8 DEF Lifecycle!Close, Lifecycle!Open
  <2>10. finalStatus \in Lifecycle!Outcome
    BY <2>1 DEF FinalStatus, Lifecycle!Outcome
  <2>11. QED
    BY <2>9, <2>10 DEF AbstractStep, Lifecycle!Next
<1>3. QED
  BY <1>1, <1>2

\* A write to an approval row is the answer, or nothing new.
LEMMA WriteRefines ==
  ASSUME TypeInv, TypeInv', ApprovalInv, ConsentInv, ConsentInv',
         ActivityWrite \/ \E c \in stray : StrayWrite(c)
  PROVE  AbstractStep
<1>1. /\ UNCHANGED <<pc, attempt, approvalId, resolution, requiresApproval,
                      finalStatus, cancelled>>
      /\ Touched' = Touched
  BY DEF ActivityWrite, StrayWrite, outside, workflow, planned, loop, signals, lost,
     Touched
<1>2. /\ 0 \notin ApprovalId /\ approvalId \in {0} \cup ApprovalId
      /\ approvalStatus \in [ApprovalId -> ApprovalStatus]
      /\ ApprovalPhases /\ StrayApprovals /\ Resolved
  BY DEF TypeInv, TypeOK, RecordOK, DatabaseOK, ApprovalId, ApprovalInv, ConsentInv
<1>3. approvalId # 0 => approvalStatus'[approvalId] \in
                          {approvalStatus[approvalId], resolution}
  <2>1. CASE ActivityWrite
    <3>1. \/ approvalStatus' = approvalStatus
          \/ pc = "createApproval"
          \/ approvalStatus' = [approvalStatus EXCEPT ![approvalId] = resolution]
      BY <2>1, EffectApprovals DEF ActivityWrite, Here
    <3>2. QED
      BY <1>2, <3>1 DEF ApprovalPhases, Asking
  <2>2. ASSUME NEW c \in stray, StrayWrite(c) PROVE <1>3!:
    <3>1. \/ approvalStatus' = approvalStatus
          \/ /\ c.attempt # approvalId
             /\ approvalStatus' = [approvalStatus EXCEPT ![c.attempt] = "PENDING"]
          \/ approvalStatus' = [approvalStatus EXCEPT ![approvalId] = resolution]
      BY <1>2, <2>2, EffectApprovals DEF StrayWrite, StrayApprovals
    <3>2. QED
      BY <1>2, <3>1
  <2>3. QED
    BY <2>1, <2>2
<1>4. Conclusion' = Conclusion
  BY <1>1 DEF Conclusion
<1>5. ConsentOnRecord /\ ConsentOnRecord'
  BY ConsentIsOnRecord, PTL
<1>6. CASE \/ approvalId = 0
           \/ approvalStatus'[approvalId] = approvalStatus[approvalId]
  <2>1. Consent' = Consent
    BY <1>1, <1>6 DEF Consent
  <2>2. QED
    BY <1>1, <1>4, <2>1 DEF AbstractStep, Lifecycle!vars
<1>7. CASE /\ approvalId # 0
           /\ approvalStatus'[approvalId] # approvalStatus[approvalId]
  <2>1. approvalStatus'[approvalId] = resolution /\ resolution # "none"
    BY <1>1, <1>3, <1>7 DEF ConsentInv, Resolved
  <2>2. /\ approvalStatus[approvalId] = "PENDING"
        /\ approvalStatus'[approvalId] # "PENDING"
        /\ pc \in {"resolve", "failed"}
    BY <1>2, <1>7, <2>1 DEF Resolved
  <2>3. Consent = "asked" /\ Consent' \in {"granted", "refused"}
    BY <1>1, <1>5, <1>7, <2>2 DEF ConsentOnRecord, Refusal
  <2>4. Conclusion \in {"none", "FAULT"}
    BY <2>2 DEF Conclusion
  <2>5. Lifecycle!Answer
    BY <1>1, <1>4, <2>3, <2>4 DEF Lifecycle!Answer, Lifecycle!Open
  <2>6. QED
    BY <2>5 DEF AbstractStep, Lifecycle!Next
<1>8. QED
  BY <1>6, <1>7

\* A lost attempt is behind the lifecycle, or the last one allowed.
LEMMA LostRefines ==
  ASSUME TypeInv, ConsentInv,
         ActivityLost \/ InitializeConflict \/ BrowserAttemptLost
  PROVE  AbstractStep
<1>1. /\ pc \in OrchestrationActivity \cup BrowserActivity
      /\ pc' \in {pc, "failed"}
      /\ UNCHANGED <<requiresApproval, approvalId, approvalStatus, cancelled,
                      finalStatus, result, pms, current>>
      /\ adrift' = IF pc = "execute" THEN adrift \cup {current} ELSE adrift
  BY DEF ActivityLost, InitializeConflict, BrowserAttemptLost, NextAttempt,
     OrchestrationActivity, BrowserActivity, database, signals, planned, loop, lost
<1>2. Touched' = Touched
  BY <1>1 DEF Touched
<1>3. pc \notin {"completed", "failed"}
  BY <1>1 DEF OrchestrationActivity, BrowserActivity
<1>4. CASE pc' = pc
  BY <1>1, <1>2, <1>4, Stutters
<1>5. CASE pc' = "failed"
  <2>1. Consent' = Consent
    BY <1>1 DEF Consent
  <2>2. Conclusion = "none" /\ Conclusion' = "FAULT"
    BY <1>3, <1>5 DEF Conclusion
  <2>3. Lifecycle!Close("FAULT") /\ "FAULT" \in Lifecycle!Outcome
    BY <1>1, <1>2, <2>1, <2>2 DEF Lifecycle!Close, Lifecycle!Open, Lifecycle!Outcome
  <2>4. QED
    BY <2>3 DEF AbstractStep, Lifecycle!Next
<1>6. QED
  BY <1>1, <1>4, <1>5

\* Of what the API does the lifecycle sees the cancel signal.
LEMMA HandlerRefines ==
  ASSUME TypeInv, Handlers
  PROVE  AbstractStep
<1>1. /\ UNCHANGED <<approvalStatus, workflow, pms, lost>>
      /\ \/ UNCHANGED cancelled
         \/ Running /\ cancelled' = TRUE
  BY DEF Handlers, CancelRequestRead, CancelRequestSignal, CancelRequestWrite,
     CancelWorkflow, ResolveCheck, ResolveSignal, RequeueSignal, RequeueWrite,
     RetryRequest, ResolveFailure, database, signals
<1>2. /\ Touched' = Touched /\ Consent' = Consent /\ Conclusion' = Conclusion
      /\ requiresApproval' = requiresApproval
  BY <1>1 DEF Touched, Consent, Conclusion, workflow, planned, loop, lost
<1>3. CASE UNCHANGED cancelled
  BY <1>2, <1>3 DEF AbstractStep, Lifecycle!vars
<1>4. CASE Running /\ cancelled' = TRUE
  <2>1. Conclusion = "none"
    BY <1>4 DEF Running, Closed, Conclusion
  <2>2. Lifecycle!Withdraw
    BY <1>2, <1>4, <2>1 DEF Lifecycle!Withdraw, Lifecycle!Open
  <2>3. QED
    BY <2>2 DEF AbstractStep, Lifecycle!Next
<1>5. QED
  BY <1>1, <1>3, <1>4

\* Every step of the workflow is a step of the lifecycle or a stutter.
LEMMA NextRefines ==
  /\ TypeInv /\ ApprovalInv /\ LoopInv /\ ConsentInv /\ TypeInv' /\ ConsentInv'
  /\ [Next]_vars
  => AbstractStep
<1>1. SUFFICES ASSUME TypeInv, ApprovalInv, LoopInv, ConsentInv, TypeInv',
                      ConsentInv', [Next]_vars
               PROVE  AbstractStep
  OBVIOUS
<1>2. CASE StartWorkflow \/ WorkflowSteps
  BY <1>1, <1>2, PreparingRefines, AskingRefines, LoopRefines, EndingRefines,
     LostRefines DEF WorkflowSteps
<1>3. CASE ActivityWrite
  BY <1>1, <1>3, WriteRefines
<1>4. CASE Faults
  <2>1. ASSUME NEW t \in Task, StrayEffect(t) PROVE AbstractStep
    <3>1. /\ UNCHANGED <<database, workflow, signals>> /\ Touched' = Touched
      BY <2>1 DEF StrayEffect, Touched, workflow, loop
    <3>2. QED
      BY <3>1, Stutters DEF database, workflow, planned, signals
  <2>2. QED
    BY <1>1, <1>4, <2>1, LostRefines, WriteRefines DEF Faults
<1>5. CASE Handlers
  BY <1>1, <1>5, HandlerRefines
<1>6. CASE UNCHANGED vars
  <2>1. Touched' = Touched
    BY <1>6 DEF vars, loop, lost, Touched
  <2>2. QED
    BY <1>6, <2>1, Stutters DEF vars, database, signals, planned
<1>7. QED
  BY <1>1, <1>2, <1>3, <1>4, <1>5, <1>6 DEF Next

\* HotelGuestRequestWorkflow with its retries, lost attempts, signals and database
\* is a lifecycle as RequestLifecycle promises it: consent before the first task,
\* nothing new after a cancellation, and a final outcome that fits.
THEOREM LifecycleImplemented == Spec => ImplementsLifecycle
<1>1. /\ TypeInv /\ ApprovalInv /\ LoopInv /\ ConsentInv /\ TypeInv' /\ ConsentInv'
      /\ [Next]_vars
      => [Lifecycle!Next]_Lifecycle!vars
  BY NextRefines DEF AbstractStep
<1>2. QED
  BY <1>1, InitRefines, TypeInvariant, ApprovalInvariant, LoopInvariant,
     ConsentInvariant, PTL DEF Spec, ImplementsLifecycle, Lifecycle!Spec
=============================================================================
