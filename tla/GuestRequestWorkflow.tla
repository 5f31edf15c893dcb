------------------------ MODULE GuestRequestWorkflow ------------------------
(***************************************************************************)
(* One guest request on its way through HotelGuestRequestWorkflow: the     *)
(* Temporal workflow, the orchestration and browser activities it calls,   *)
(* the rows of the control database they and the control API share, and    *)
(* the API handlers that signal the workflow.                              *)
(*                                                                         *)
(* Granularity.  Workflow code between two awaits is one step: Temporal    *)
(* runs it on one worker at a time and replays it after a worker crash.    *)
(* Every database write of an activity that touches a row some other part  *)
(* reads is a step of its own (`written' counts those of the current       *)
(* attempt), because an activity has no transaction: an attempt may fail   *)
(* between two of them, or after the last, and the next attempt starts     *)
(* from the first.  Rows nothing reads back (agent runs, workflow steps,   *)
(* audit events) are left out; a failure while writing one is a failure of *)
(* the attempt at that point.  API handlers interleave at their awaits.    *)
(***************************************************************************)
EXTENDS Naturals, FiniteSets

CONSTANTS
  Task,                   \* positions of the tasks in the planner's list
  Order,                  \* executionOrder the planner gives each of them
  TaskRetries,            \* PlannedTask.maxRetries
  OrchestrationAttempts,  \* maximumAttempts of orchestration activities (3)
  BrowserAttempts,        \* maximumAttempts of browser activities (2)
  Cancellers,             \* calls of the two cancel endpoints
  Operators,              \* calls of approve or reject
  Requeuers,              \* calls of the failure queue endpoints
  MaxFaults               \* bound: activity attempts that are lost

ASSUME TaskAssumption ==
  /\ Task \subseteq Nat /\ Task # {}
  /\ Order \in [Task -> Nat]
ASSUME RetryAssumption ==
  /\ TaskRetries \in Nat
  /\ OrchestrationAttempts \in Nat \ {0}
  /\ BrowserAttempts \in Nat \ {0}
  /\ MaxFaults \in Nat

VARIABLES
  \* control database
  requestStatus,    \* guest_requests.status
  executionStatus,  \* workflow_executions.status, "none" before the row exists
  approvalStatus,   \* human_approvals.status, by the attempt that created it
  failureStatus,    \* failure_queue_items.status, by what created it
  \* workflow
  pc,               \* the activity the workflow waits for, or where it stands
  attempt,          \* Temporal's attempt of that activity
  written,          \* writes the attempt has done
  cancelled, decision, manualRetryPayload,           \* set by signal handlers
  multiAction,      \* classification.requestType = MULTI_ACTION
  tasks,            \* the plan's tasks, less those the policy blocks
  requiresApproval, \* some task of the plan, or the policy, asks for a human
  approvalId, resolution, finalStatus,
  current, tries, result, verified,                  \* the execution loop
  stray,            \* lost activity attempts that may still be writing
  overtaken,        \* history: such an attempt has changed the request status
  \* the hotel's PMS
  pms,              \* tasks whose effect is in the PMS
  adrift,           \* tasks a lost browser attempt may still be performing
  \* control API
  cancelling, operatorState, operatorApproval, operatorVerdict, requeueing,
  faults

database    == <<requestStatus, executionStatus, approvalStatus, failureStatus>>
signals     == <<cancelled, decision, manualRetryPayload>>
planned     == <<multiAction, tasks, requiresApproval>>
loop        == <<current, tries, result, verified>>
lost        == <<stray, overtaken, adrift, faults>>
operatorVars == <<operatorState, operatorApproval, operatorVerdict>>
api         == <<cancelling, operatorVars, requeueing>>
vars == <<database, pc, attempt, written, signals, planned, approvalId,
          resolution, finalStatus, loop, pms, lost, api>>

\* What the workflow's own steps leave alone, and what only they change.
outside  == <<signals, pms, lost, api>>
workflow == <<pc, attempt, written, planned, approvalId, resolution,
              finalStatus, loop>>
-----------------------------------------------------------------------------
RequestStatus == {"RECEIVED", "CLASSIFYING", "PLANNING", "POLICY_REVIEW",
                  "WAITING_APPROVAL", "COMPLETED", "PARTIALLY_COMPLETED",
                  "ESCALATED", "CANCELLED"}
ExecutionStatus == {"none", "RUNNING", "COMPLETED", "FAILED"}
ApprovalStatus  == {"none", "PENDING", "APPROVED", "REJECTED", "TIMED_OUT"}
FailureStatus   == {"none", "OPEN", "REQUEUED", "RESOLVED"}
FinalStatus     == {"COMPLETED", "PARTIALLY_COMPLETED", "ESCALATED", "CANCELLED"}

\* Every attempt that gets as far as the insert creates a row with a fresh id.
ApprovalId == 1 .. OrchestrationAttempts
FailureKind == {"TASK_EXECUTION", "TASK_VERIFICATION"}
FailureItem == Task \X FailureKind \X (1 .. OrchestrationAttempts)

Decision   == [id : ApprovalId, approved : BOOLEAN]
NoDecision == [id |-> 0, approved |-> FALSE]

OrchestrationActivity == {"initialize", "classify", "plan", "policy",
  "createApproval", "resolve", "enqueueExecution", "enqueueVerification",
  "escalate", "finalize"}
BrowserActivity == {"execute", "verify"}
Place == OrchestrationActivity \cup BrowserActivity
         \cup {"notStarted", "await", "completed", "failed"}

\* The writes of each activity that the model keeps.
Writes(activity) ==
  IF activity \in {"initialize", "createApproval", "finalize"} THEN 2 ELSE 1
Call == [activity : OrchestrationActivity, attempt : 1 .. OrchestrationAttempts,
         written : 0 .. 1, task : Task]

Closed  == pc \in {"completed", "failed"}
Running == pc # "notStarted" /\ ~Closed

Init ==
  /\ requestStatus = "RECEIVED" /\ executionStatus = "none"
  /\ approvalStatus = [a \in ApprovalId |-> "none"]
  /\ failureStatus = [i \in FailureItem |-> "none"]
  /\ pc = "notStarted" /\ attempt = 1 /\ written = 0
  /\ cancelled = FALSE /\ decision = NoDecision
  /\ manualRetryPayload = "undefined"
  /\ multiAction = FALSE /\ tasks = {} /\ requiresApproval = FALSE
  /\ approvalId = 0 /\ resolution = "none" /\ finalStatus = "none"
  /\ current = CHOOSE t \in Task : TRUE
  /\ tries = 1
  /\ result = [t \in Task |-> "none"] /\ verified = [t \in Task |-> "none"]
  /\ stray = {} /\ overtaken = FALSE /\ pms = {} /\ adrift = {}
  /\ cancelling = [c \in Cancellers |-> "idle"]
  /\ operatorState = [o \in Operators |-> "idle"]
  /\ operatorApproval = [o \in Operators |-> 0]
  /\ operatorVerdict = [o \in Operators |-> FALSE]
  /\ requeueing = [r \in Requeuers |-> {}]
  /\ faults = 0
-----------------------------------------------------------------------------
(***************************************************************************)
(* Activities.  A call is one attempt of an orchestration activity with    *)
(* the number of its next write; the arguments the model tells apart are   *)
(* variables of the workflow that no longer change, and the task.          *)
(***************************************************************************)
Here == [activity |-> pc, attempt |-> attempt, written |-> written,
         task |-> current]

SetRequestStatus(status) ==
  /\ requestStatus' = status
  /\ UNCHANGED <<executionStatus, approvalStatus, failureStatus>>

SetExecutionStatus(status) ==
  /\ executionStatus' = status
  /\ UNCHANGED <<requestStatus, approvalStatus, failureStatus>>

SetApprovalStatus(id, status) ==
  /\ approvalStatus' = [approvalStatus EXCEPT ![id] = status]
  /\ UNCHANGED <<requestStatus, executionStatus, failureStatus>>

\* temporalWorkflowId is unique: the insert succeeds once.
InitializeWorkflowExecution(c) ==
  /\ c.activity = "initialize"
  /\ \/ /\ c.written = 0 /\ executionStatus = "none"
        /\ SetExecutionStatus("RUNNING")
     \/ c.written = 1 /\ SetRequestStatus("RECEIVED")

ClassifyGuestRequest(c) ==
  c.activity = "classify" /\ c.written = 0 /\ SetRequestStatus("CLASSIFYING")

PlanGuestRequest(c) ==
  c.activity = "plan" /\ c.written = 0 /\ SetRequestStatus("PLANNING")

EvaluateGuestRequestPolicy(c) ==
  c.activity = "policy" /\ c.written = 0 /\ SetRequestStatus("POLICY_REVIEW")

CreateHumanApproval(c) ==
  /\ c.activity = "createApproval"
  /\ \/ c.written = 0 /\ SetApprovalStatus(c.attempt, "PENDING")
     \/ c.written = 1 /\ SetRequestStatus("WAITING_APPROVAL")

ResolveHumanApproval(c) ==
  /\ c.activity = "resolve" /\ c.written = 0
  /\ SetApprovalStatus(approvalId, resolution)

EnqueueFailureItem(c) ==
  \E kind \in FailureKind :
    /\ c.activity = (IF kind = "TASK_EXECUTION" THEN "enqueueExecution"
                                                ELSE "enqueueVerification")
    /\ c.written = 0
    /\ failureStatus' =
         [failureStatus EXCEPT ![<<c.task, kind, c.attempt>>] = "OPEN"]
    /\ UNCHANGED <<requestStatus, executionStatus, approvalStatus>>

EscalateGuestRequest(c) ==
  c.activity = "escalate" /\ c.written = 0 /\ SetRequestStatus("ESCALATED")

ExecutionStatusOf(status) ==
  IF status \in {"COMPLETED", "PARTIALLY_COMPLETED"} THEN "COMPLETED" ELSE "FAILED"

FinalizeGuestRequest(c) ==
  /\ c.activity = "finalize"
  /\ \/ c.written = 0 /\ SetRequestStatus(finalStatus)
     \/ c.written = 1 /\ SetExecutionStatus(ExecutionStatusOf(finalStatus))

Effect(c) ==
  \/ InitializeWorkflowExecution(c) \/ ClassifyGuestRequest(c)
  \/ PlanGuestRequest(c) \/ EvaluateGuestRequestPolicy(c)
  \/ CreateHumanApproval(c) \/ ResolveHumanApproval(c)
  \/ EnqueueFailureItem(c) \/ EscalateGuestRequest(c) \/ FinalizeGuestRequest(c)

ActivityWrite ==
  /\ pc \in OrchestrationActivity
  /\ Effect(Here)
  /\ written' = written + 1
  /\ UNCHANGED <<pc, attempt, planned, approvalId, resolution, finalStatus,
                 loop, outside>>

\* The attempt's result reaches the workflow.
Returned(activity) == pc = activity /\ written = Writes(activity)

\* The attempt fails; the next one starts over, and after the last the error
\* reaches the workflow, which does not catch it.
NextAttempt(limit) ==
  /\ written' = 0
  /\ IF attempt < limit THEN attempt' = attempt + 1 /\ UNCHANGED pc
                        ELSE pc' = "failed" /\ UNCHANGED attempt
  /\ UNCHANGED <<database, signals, planned, approvalId, resolution,
                 finalStatus, loop, api>>

\* A worker crash, a timeout, a lost connection, an AI provider's error.  If it
\* is Temporal that gave up on the attempt, the attempt may still be running.
ActivityLost ==
  /\ pc \in OrchestrationActivity
  /\ faults < MaxFaults /\ faults' = faults + 1
  /\ NextAttempt(OrchestrationAttempts)
  /\ stray' = IF written < Writes(pc) THEN stray \cup {Here} ELSE stray
  /\ UNCHANGED <<overtaken, adrift, pms>>

\* The insert of a repeated initialization violates the unique key.
InitializeConflict ==
  /\ pc = "initialize" /\ written = 0 /\ executionStatus # "none"
  /\ NextAttempt(OrchestrationAttempts)
  /\ UNCHANGED <<lost, pms>>

StrayWrite(c) ==
  /\ c \in stray
  /\ Effect(c)
  /\ stray' = (stray \ {c}) \cup
       (IF c.written + 1 < Writes(c.activity)
        THEN {[c EXCEPT !.written = @ + 1]} ELSE {})
  /\ overtaken' = (overtaken \/ requestStatus' # requestStatus)
  /\ UNCHANGED <<workflow, signals, pms, adrift, faults, api>>
-----------------------------------------------------------------------------
(***************************************************************************)
(* Workflow code: what runs from one await to the next.                    *)
(***************************************************************************)
Start(activity) == pc' = activity /\ attempt' = 1 /\ written' = 0

Finalize(status) == Start("finalize") /\ finalStatus' = status

Escalate(status) == Start("escalate") /\ finalStatus' = status

\* sortTasksByOrder is stable: equal orders keep the planner's sequence.
Precedes(s, t) == Order[s] < Order[t] \/ (Order[s] = Order[t] /\ s < t)

First(t, S) == t \in S /\ \A u \in S \ {t} : Precedes(t, u)

\* Faulty: verification results do not count.
DeriveUnverified(chosen, res, ver) ==
  LET succeeded == {t \in chosen : res[t] = "ok"}
  IN  IF cancelled THEN "CANCELLED"
      ELSE IF succeeded = {} /\ chosen # {} THEN "FAILED"
      ELSE IF succeeded # chosen THEN "PARTIALLY_COMPLETED"
      ELSE "COMPLETED"

DeriveExecutionStatus(chosen, res, ver) ==
  LET succeeded == {t \in chosen : res[t] = "ok"}
  IN  IF cancelled THEN "CANCELLED"
      ELSE IF succeeded = {} /\ chosen # {} THEN "FAILED"
      ELSE IF succeeded # chosen \/ \E t \in chosen : ver[t] = "no"
           THEN "PARTIALLY_COMPLETED"
      ELSE "COMPLETED"

\* Faulty: FAILED is finalized as it is.
FinishFailed(chosen, res, ver) ==
  LET status == DeriveExecutionStatus(chosen, res, ver)
  IN  IF status \in {"FAILED", "PARTIALLY_COMPLETED"} THEN Escalate(status)
                                                      ELSE Finalize(status)

Finish(chosen, res, ver) ==
  LET status == DeriveExecutionStatus(chosen, res, ver)
  IN  \/ status = "FAILED" /\ Escalate("ESCALATED")
      \/ status = "PARTIALLY_COMPLETED" /\ Escalate(status)
      \/ status \in {"COMPLETED", "CANCELLED"} /\ Finalize(status)

VerifyNext(chosen, res, ver) ==
  LET todo == {t \in chosen : res[t] = "ok" /\ ver[t] = "none"}
  IN  \/ /\ todo # {}
         /\ Start("verify")
         /\ \E t \in Task : First(t, todo) /\ current' = t
         /\ UNCHANGED <<tries, finalStatus>>
      \/ /\ todo = {}
         /\ Finish(chosen, res, ver)
         /\ UNCHANGED <<current, tries>>

\* Faulty: the loop does not look at cancelled.
ExecuteAnyway(chosen, res) ==
  LET todo == {t \in chosen : res[t] = "none"}
  IN  \/ /\ todo # {}
         /\ Start("execute")
         /\ \E t \in Task : First(t, todo) /\ current' = t
         /\ tries' = 1
         /\ UNCHANGED finalStatus
      \/ /\ todo = {}
         /\ VerifyNext(chosen, res, verified)

ExecuteNext(chosen, res) ==
  LET todo == {t \in chosen : res[t] = "none"}
  IN  \/ /\ ~cancelled /\ todo # {}
         /\ Start("execute")
         /\ \E t \in Task : First(t, todo) /\ current' = t
         /\ tries' = 1
         /\ UNCHANGED finalStatus
      \/ /\ cancelled \/ todo = {}
         /\ VerifyNext(chosen, res, verified)

BeginExecution(chosen) ==
  IF cancelled THEN Finalize("CANCELLED") /\ UNCHANGED <<current, tries>>
               ELSE ExecuteNext(chosen, result)

\* client.workflow.start succeeded; the worker runs the first activity.
StartWorkflow ==
  /\ pc = "notStarted"
  /\ Start("initialize")
  /\ UNCHANGED <<database, planned, approvalId, resolution, finalStatus, loop,
                 outside>>

InitializeReturned ==
  /\ Returned("initialize")
  /\ IF cancelled THEN Finalize("CANCELLED")
                  ELSE Start("classify") /\ UNCHANGED finalStatus
  /\ UNCHANGED <<database, planned, approvalId, resolution, loop, outside>>

ClassifyReturned ==
  /\ Returned("classify")
  /\ \/ Escalate("ESCALATED") /\ UNCHANGED multiAction          \* UNSUPPORTED
     \/ Start("plan") /\ multiAction' \in BOOLEAN /\ UNCHANGED finalStatus
  /\ UNCHANGED <<database, tasks, requiresApproval, approvalId, resolution,
                 loop, outside>>

PlanReturned ==
  /\ Returned("plan")
  /\ Start("policy")
  /\ tasks' \in SUBSET Task
  /\ requiresApproval' \in (IF tasks' = {} THEN {FALSE} ELSE BOOLEAN)
  /\ UNCHANGED <<database, multiAction, approvalId, resolution, finalStatus,
                 loop, outside>>

PolicyReturned ==
  /\ Returned("policy")
  /\ \E approved, required \in BOOLEAN :
       /\ tasks' \in SUBSET tasks
       /\ requiresApproval' = (required \/ requiresApproval)
       /\ \/ /\ ~approved /\ ~required
             /\ Escalate("ESCALATED")
             /\ UNCHANGED <<current, tries>>
          \/ /\ approved \/ required
             /\ requiresApproval' /\ ~cancelled
             /\ Start("createApproval")
             /\ UNCHANGED <<finalStatus, current, tries>>
          \/ /\ approved \/ required
             /\ ~requiresApproval' \/ cancelled
             /\ BeginExecution(tasks')
  /\ UNCHANGED <<database, multiAction, approvalId, resolution, result,
                 verified, outside>>

CreateApprovalReturned ==
  /\ Returned("createApproval")
  /\ approvalId' = attempt
  /\ pc' = "await" /\ UNCHANGED <<attempt, written>>
  /\ UNCHANGED <<database, planned, resolution, finalStatus, loop, outside>>

Resolve(status) == Start("resolve") /\ resolution' = status /\ UNCHANGED finalStatus

\* Faulty: the decision is taken whatever approval it is for.
ConditionMetByAny ==
  /\ pc = "await"
  /\ \/ cancelled /\ Finalize("CANCELLED") /\ UNCHANGED resolution
     \/ /\ ~cancelled /\ decision # NoDecision
        /\ Resolve(IF decision.approved THEN "APPROVED" ELSE "REJECTED")
  /\ UNCHANGED <<database, planned, approvalId, loop, outside>>

\* condition(() => cancelled || approvalDecision !== null) holds.
ConditionMet ==
  /\ pc = "await"
  /\ \/ cancelled /\ Finalize("CANCELLED") /\ UNCHANGED resolution
     \/ /\ ~cancelled /\ decision # NoDecision
        /\ \/ /\ decision.id # approvalId
              /\ Escalate("ESCALATED") /\ UNCHANGED resolution
           \/ /\ decision.id = approvalId
              /\ Resolve(IF decision.approved THEN "APPROVED" ELSE "REJECTED")
  /\ UNCHANGED <<database, planned, approvalId, loop, outside>>

\* Faulty: silence is consent.
ApprovalTimeoutExecutes ==
  /\ pc = "await"
  /\ ~cancelled /\ decision = NoDecision
  /\ BeginExecution(tasks)
  /\ UNCHANGED <<database, planned, approvalId, resolution, result, verified,
                 outside>>

\* Faulty: condition() is called without a timeout.
ApprovalTimeoutNever == FALSE /\ UNCHANGED vars

\* Faulty: the timer escalates and leaves the row as it is.
ApprovalTimeoutUnresolved ==
  /\ pc = "await"
  /\ ~cancelled /\ decision = NoDecision
  /\ Escalate("ESCALATED")
  /\ UNCHANGED <<database, planned, approvalId, resolution, loop, outside>>

\* The approval timer fires first.
ApprovalTimeout ==
  /\ pc = "await"
  /\ ~cancelled /\ decision = NoDecision
  /\ Resolve("TIMED_OUT")
  /\ UNCHANGED <<database, planned, approvalId, loop, outside>>

\* Faulty: a refusal does not return from the workflow.
ResolveReturnedGoesOn ==
  /\ Returned("resolve")
  /\ BeginExecution(tasks)
  /\ UNCHANGED <<database, planned, approvalId, resolution, result, verified,
                 outside>>

ResolveReturned ==
  /\ Returned("resolve")
  /\ IF resolution = "APPROVED"
     THEN BeginExecution(tasks)
     ELSE Escalate("ESCALATED") /\ UNCHANGED <<current, tries>>
  /\ UNCHANGED <<database, planned, approvalId, resolution, result, verified,
                 outside>>

\* Faulty: an escalated request is not finalized.
EscalateEnds ==
  /\ Returned("escalate")
  /\ pc' = "completed" /\ UNCHANGED <<attempt, written>>
  /\ UNCHANGED <<database, planned, approvalId, resolution, finalStatus, loop,
                 outside>>

EscalateReturned ==
  /\ Returned("escalate")
  /\ Start("finalize")
  /\ UNCHANGED <<database, planned, approvalId, resolution, finalStatus, loop,
                 outside>>

FinalizeReturned ==
  /\ Returned("finalize")
  /\ pc' = "completed" /\ UNCHANGED <<attempt, written>>
  /\ UNCHANGED <<database, planned, approvalId, resolution, finalStatus, loop,
                 outside>>
-----------------------------------------------------------------------------
(***************************************************************************)
(* Execution and verification.  executeBrowserTask and verifyBrowserTask   *)
(* catch every error and answer success or verified = FALSE; only a lost   *)
(* attempt (worker crash, start-to-close timeout) is retried by Temporal.  *)
(* How the worker and the PMS keep a repeated attempt from acting twice is *)
(* not modelled here: `pms' says that a task's effect is there.            *)
(***************************************************************************)
\* A success has seen the PMS's confirmation or its receipt; a failure may have
\* come after the effect.
ExecuteReturned ==
  /\ pc = "execute"
  /\ pms' \in {pms, pms \cup {current}}
  /\ \/ /\ current \in pms'
        /\ result' = [result EXCEPT ![current] = "ok"]
        /\ ExecuteNext(tasks, result')
     \/ /\ tries <= TaskRetries
        /\ Start("execute")
        /\ tries' = tries + 1
        /\ UNCHANGED <<current, result, finalStatus>>
     \/ /\ tries > TaskRetries
        /\ result' = [result EXCEPT ![current] = "failed"]
        /\ Start("enqueueExecution")
        /\ UNCHANGED <<current, tries, finalStatus>>
  /\ UNCHANGED <<database, signals, planned, approvalId, resolution, verified,
                 lost, api>>

\* Faulty: every request goes on after a failed task.
EnqueueExecutionGoesOn ==
  /\ Returned("enqueueExecution")
  /\ ExecuteNext(tasks, result)
  /\ UNCHANGED <<database, planned, approvalId, resolution, result, verified,
                 outside>>

\* A request that is not MULTI_ACTION stops at its first failure.
EnqueueExecutionReturned ==
  /\ Returned("enqueueExecution")
  /\ IF multiAction THEN ExecuteNext(tasks, result)
                    ELSE VerifyNext(tasks, result, verified)
  /\ UNCHANGED <<database, planned, approvalId, resolution, result, verified,
                 outside>>

\* Faulty: a failed verification is not queued.
VerifyUnqueued ==
  /\ pc = "verify"
  /\ \E outcome \in {"yes", "no"} :
       /\ verified' = [verified EXCEPT ![current] = outcome]
       /\ VerifyNext(tasks, result, verified')
  /\ UNCHANGED <<database, planned, approvalId, resolution, result, outside>>

VerifyReturned ==
  /\ pc = "verify"
  /\ \/ /\ verified' = [verified EXCEPT ![current] = "yes"]
        /\ VerifyNext(tasks, result, verified')
     \/ /\ verified' = [verified EXCEPT ![current] = "no"]
        /\ Start("enqueueVerification")
        /\ UNCHANGED <<current, tries, finalStatus>>
  /\ UNCHANGED <<database, planned, approvalId, resolution, result, outside>>

EnqueueVerificationReturned ==
  /\ Returned("enqueueVerification")
  /\ VerifyNext(tasks, result, verified)
  /\ UNCHANGED <<database, planned, approvalId, resolution, result, verified,
                 outside>>

\* The lost attempt of an execution may go on unseen.
BrowserAttemptLost ==
  /\ pc \in BrowserActivity
  /\ faults < MaxFaults /\ faults' = faults + 1
  /\ NextAttempt(BrowserAttempts)
  /\ adrift' = IF pc = "execute" THEN adrift \cup {current} ELSE adrift
  /\ UNCHANGED <<stray, overtaken, pms>>

StrayEffect(t) ==
  /\ t \in adrift
  /\ pms' = pms \cup {t}
  /\ adrift' = adrift \ {t}
  /\ UNCHANGED <<database, workflow, signals, stray, overtaken, faults, api>>
-----------------------------------------------------------------------------
(***************************************************************************)
(* Control API handlers, one step per await whose outcome matters.  A      *)
(* signal to a closed workflow throws.                                     *)
(***************************************************************************)
\* cancelRequest looks for the execution row ...
CancelRequestRead(c) ==
  /\ cancelling[c] = "idle"
  /\ cancelling' = [cancelling EXCEPT ![c] =
                      IF executionStatus = "none" THEN "write" ELSE "signal"]
  /\ UNCHANGED <<database, workflow, signals, pms, lost, operatorVars, requeueing>>

\* ... signals the workflow when there is one ...
CancelRequestSignal(c) ==
  /\ cancelling[c] = "signal"
  /\ \/ /\ Running
        /\ cancelled' = TRUE
        /\ cancelling' = [cancelling EXCEPT ![c] = "write"]
     \/ /\ Closed
        /\ cancelling' = [cancelling EXCEPT ![c] = "error"]
        /\ UNCHANGED cancelled
  /\ UNCHANGED <<database, workflow, decision, manualRetryPayload, pms, lost,
                 operatorVars, requeueing>>

\* ... and writes CANCELLED over whatever status the row has by then.
CancelRequestWrite(c) ==
  /\ cancelling[c] = "write"
  /\ requestStatus' = "CANCELLED"
  /\ cancelling' = [cancelling EXCEPT ![c] = "done"]
  /\ UNCHANGED <<executionStatus, approvalStatus, failureStatus, workflow,
                 signals, pms, lost, operatorVars, requeueing>>

\* The workflow endpoint only signals.
CancelWorkflow(c) ==
  /\ cancelling[c] = "idle"
  /\ executionStatus # "none" /\ Running
  /\ cancelled' = TRUE
  /\ cancelling' = [cancelling EXCEPT ![c] = "signalled"]
  /\ UNCHANGED <<database, workflow, decision, manualRetryPayload, pms, lost,
                 operatorVars, requeueing>>

\* approve and reject check the row before they signal ...
ResolveCheck(o, id, approved) ==
  /\ operatorState[o] = "idle"
  /\ approvalStatus[id] = "PENDING"
  /\ operatorState' = [operatorState EXCEPT ![o] = "checked"]
  /\ operatorApproval' = [operatorApproval EXCEPT ![o] = id]
  /\ operatorVerdict' = [operatorVerdict EXCEPT ![o] = approved]
  /\ UNCHANGED <<database, workflow, signals, pms, lost, cancelling, requeueing>>

\* ... which overwrites an earlier decision and leaves the row alone.
ResolveSignal(o) ==
  /\ operatorState[o] = "checked"
  /\ \/ /\ Running
        /\ decision' = [id |-> operatorApproval[o],
                        approved |-> operatorVerdict[o]]
        /\ operatorState' = [operatorState EXCEPT ![o] = "answered"]
     \/ /\ Closed
        /\ operatorState' = [operatorState EXCEPT ![o] = "error"]
        /\ UNCHANGED decision
  /\ UNCHANGED <<database, workflow, cancelled, manualRetryPayload, pms, lost,
                 cancelling, operatorApproval, operatorVerdict, requeueing>>

\* Both senders of manualRetry send {}: without taskIds shouldRetryTask is
\* FALSE, so no step of the workflow reads or clears the payload.
SignalManualRetry == Running /\ manualRetryPayload' = "empty"

RetryRequest ==
  /\ Requeuers # {}
  /\ executionStatus # "none"
  /\ SignalManualRetry
  /\ UNCHANGED <<database, workflow, cancelled, decision, pms, lost, api>>

RequeueSignal(r, i) ==
  /\ requeueing[r] = {} /\ failureStatus[i] # "none"
  /\ SignalManualRetry
  /\ requeueing' = [requeueing EXCEPT ![r] = {i}]
  /\ UNCHANGED <<database, workflow, cancelled, decision, pms, lost, cancelling,
                 operatorVars>>

RequeueWrite(r, i) ==
  /\ i \in requeueing[r]
  /\ failureStatus' = [failureStatus EXCEPT ![i] = "REQUEUED"]
  /\ requeueing' = [requeueing EXCEPT ![r] = {}]
  /\ UNCHANGED <<requestStatus, executionStatus, approvalStatus, workflow,
                 signals, pms, lost, cancelling, operatorVars>>

ResolveFailure(i) ==
  /\ Requeuers # {}
  /\ failureStatus[i] # "none"
  /\ failureStatus' = [failureStatus EXCEPT ![i] = "RESOLVED"]
  /\ UNCHANGED <<requestStatus, executionStatus, approvalStatus, workflow,
                 signals, pms, lost, api>>
-----------------------------------------------------------------------------
WorkflowSteps ==
  \/ InitializeConflict \/ InitializeReturned \/ ClassifyReturned
  \/ PlanReturned \/ PolicyReturned \/ CreateApprovalReturned \/ ConditionMet
  \/ ApprovalTimeout \/ ResolveReturned \/ ExecuteReturned
  \/ EnqueueExecutionReturned \/ VerifyReturned \/ EnqueueVerificationReturned
  \/ EscalateReturned \/ FinalizeReturned

Faults ==
  \/ ActivityLost \/ BrowserAttemptLost
  \/ \E c \in stray : StrayWrite(c)
  \/ \E t \in Task : StrayEffect(t)

Handlers ==
  \/ \E c \in Cancellers : \/ CancelRequestRead(c) \/ CancelRequestSignal(c)
                           \/ CancelRequestWrite(c) \/ CancelWorkflow(c)
  \/ \E o \in Operators : \/ \E id \in ApprovalId, approved \in BOOLEAN :
                                ResolveCheck(o, id, approved)
                          \/ ResolveSignal(o)
  \/ \E i \in FailureItem : \/ ResolveFailure(i)
                            \/ \E r \in Requeuers : \/ RequeueSignal(r, i)
                                                    \/ RequeueWrite(r, i)
  \/ RetryRequest

Next == StartWorkflow \/ ActivityWrite \/ WorkflowSteps \/ Faults \/ Handlers

Spec == Init /\ [][Next]_vars

(***************************************************************************)
(* Temporal schedules a running workflow until it closes: activities that  *)
(* neither answer nor fail time out, timers are durable.  Nothing obliges  *)
(* the API to start the workflow, an operator to answer or a lost attempt  *)
(* to have an effect.  A handler that has begun runs on.                   *)
(***************************************************************************)
FairSpec ==
  /\ Spec
  /\ WF_vars(ActivityWrite \/ WorkflowSteps)
  /\ \A c \in Cancellers :
       WF_vars(CancelRequestSignal(c) \/ CancelRequestWrite(c))
  /\ \A o \in Operators : WF_vars(ResolveSignal(o))
-----------------------------------------------------------------------------
DatabaseOK ==
  /\ requestStatus \in RequestStatus
  /\ executionStatus \in ExecutionStatus
  /\ approvalStatus \in [ApprovalId -> ApprovalStatus]
  /\ failureStatus \in [FailureItem -> FailureStatus]

PositionOK ==
  /\ pc \in Place
  /\ attempt \in 1 .. (OrchestrationAttempts + BrowserAttempts)
  /\ pc \in OrchestrationActivity => attempt <= OrchestrationAttempts
  /\ written \in 0 .. 2
  /\ finalStatus \in FinalStatus \cup {"none"}
  /\ current \in Task /\ tries \in 1 .. (TaskRetries + 1)

RecordOK ==
  /\ multiAction \in BOOLEAN /\ tasks \in SUBSET Task
  /\ requiresApproval \in BOOLEAN
  /\ approvalId \in {0} \cup ApprovalId
  /\ resolution \in {"none", "APPROVED", "REJECTED", "TIMED_OUT"}
  /\ result \in [Task -> {"none", "ok", "failed"}]
  /\ verified \in [Task -> {"none", "yes", "no"}]

LostOK ==
  /\ stray \in SUBSET Call /\ overtaken \in BOOLEAN
  /\ pms \in SUBSET Task /\ adrift \in SUBSET Task
  /\ faults \in 0 .. MaxFaults

SignalsOK ==
  /\ cancelled \in BOOLEAN
  /\ decision \in Decision \cup {NoDecision}
  /\ manualRetryPayload \in {"undefined", "empty"}

ApiOK ==
  /\ cancelling \in [Cancellers -> {"idle", "signal", "write", "done", "error",
                                    "signalled"}]
  /\ operatorState \in [Operators -> {"idle", "checked", "answered", "error"}]
  /\ operatorApproval \in [Operators -> {0} \cup ApprovalId]
  /\ \A o \in Operators : operatorState[o] # "idle" => operatorApproval[o] # 0
  /\ operatorVerdict \in [Operators -> BOOLEAN]
  /\ requeueing \in [Requeuers -> SUBSET FailureItem]

\* Every variable keeps its type: no step writes a status the schema's enums do
\* not have, and no attempt runs beyond its retry policy.
TypeOK == DatabaseOK /\ PositionOK /\ RecordOK /\ LostOK /\ SignalsOK /\ ApiOK

\* A task is touched once the workflow has handed it to the browser worker.
Touched == {t \in Task : result[t] # "none"} \cup pms \cup adrift
           \cup (IF pc = "execute" THEN {current} ELSE {})

ApprovedBySomeone(id) ==
  \E o \in Operators : /\ operatorState[o] = "answered"
                       /\ operatorApproval[o] = id /\ operatorVerdict[o]

\* A request whose plan or policy asks for a human never reaches the PMS,
\* whatever is retried, cancelled or answered twice, unless the approval the
\* workflow waited for is recorded APPROVED and an operator approved that one.
ApprovalGate ==
  Touched # {} /\ requiresApproval =>
    /\ approvalId # 0
    /\ approvalStatus[approvalId] = "APPROVED"
    /\ ApprovedBySomeone(approvalId)

\* Once an approval of the request is recorded REJECTED or TIMED_OUT no task of
\* it is, or ever was, handed to the browser worker.
RefusalHolds ==
  \A id \in ApprovalId :
    approvalStatus[id] \in {"REJECTED", "TIMED_OUT"} => Touched = {}

\* COMPLETED in the database is earned: every task left by the policy was
\* executed and verified, and its effect is in the PMS.
CompletedIsEarned ==
  requestStatus = "COMPLETED" =>
    \A t \in tasks : result[t] = "ok" /\ verified[t] = "yes" /\ t \in pms

\* When the workflow has completed, both rows agree with its result, unless a
\* cancel call has written CANCELLED over the request or an attempt Temporal had
\* given up on has written a status late.
FinalStatusAgrees ==
  pc = "completed" =>
    /\ executionStatus = ExecutionStatusOf(finalStatus)
    /\ \/ requestStatus = finalStatus
       \/ requestStatus = "CANCELLED" /\ \E c \in Cancellers : cancelling[c] = "done"
       \/ overtaken

\* A completed workflow leaves a queue item for every task that failed and for
\* every one whose effect could not be verified.
FailuresAreQueued ==
  pc = "completed" =>
    \A t \in Task :
      /\ result[t] = "failed" =>
           \E n \in ApprovalId : failureStatus[<<t, "TASK_EXECUTION", n>>] # "none"
      /\ verified[t] = "no" =>
           \E n \in ApprovalId : failureStatus[<<t, "TASK_VERIFICATION", n>>] # "none"

\* Tasks are taken in execution order, and a request that is not MULTI_ACTION
\* touches nothing after a task that failed for good.
OrderedExecution ==
  \A t, u \in tasks :
    Precedes(t, u) /\ u \in Touched =>
      result[t] = "ok" \/ (multiAction /\ result[t] = "failed")

\* From the moment the cancel signal is in, no further task is started (the one
\* in flight may be retried).
NoNewTaskAfterCancel == [][cancelled => Touched' \subseteq Touched]_vars

\* A running workflow closes, whatever is lost, answered late or never answered.
Terminates == pc = "initialize" ~> Closed

\* An approval the workflow waits for is settled: by the operator's answer, or,
\* when nobody ever answers, by the timer.  The row stays PENDING only when the
\* request is cancelled meanwhile, when an answer has arrived that is for the row
\* of another createHumanApproval attempt, or when every attempt of an activity
\* was lost.
ApprovalIsSettled ==
  pc = "await" ~> \/ approvalId # 0 /\ approvalStatus[approvalId] # "PENDING"
                  \/ cancelled
                  \/ decision # NoDecision /\ decision.id # approvalId
                  \/ pc = "failed"

\* workflows.md: the cancel signal's purpose is "Cancel in-flight workflow".
\* After a cancel call has answered, no further task is started.
CancelStops ==
  [][(\E c \in Cancellers : cancelling[c] = "done") => Touched' \subseteq Touched]_vars

\* workflows.md: manualRetry is "Retry after failure resolution".  A failed task
\* whose queue item was requeued while the workflow ran is executed again.
RequeueIsRetried ==
  \A t \in Task :
    (\E n \in ApprovalId : Running /\ failureStatus[<<t, "TASK_EXECUTION", n>>] = "REQUEUED")
      ~> (pc = "execute" /\ current = t)

\* The workflow, with everything that may be lost or repeated, is a lifecycle
\* as RequestLifecycle promises it.
Consent ==
  IF approvalId = 0 THEN "none"
  ELSE [PENDING   |-> "asked",   APPROVED  |-> "granted",
        REJECTED  |-> "refused", TIMED_OUT |-> "refused"][approvalStatus[approvalId]]

Conclusion ==
  CASE pc = "completed" -> finalStatus
    [] pc = "failed"    -> "FAULT"
    [] OTHER            -> "none"

Lifecycle == INSTANCE RequestLifecycle WITH
  needed <- requiresApproval, approval <- Consent, withdrawn <- cancelled,
  touched <- Touched, outcome <- Conclusion

ImplementsLifecycle == Lifecycle!Spec
=============================================================================
