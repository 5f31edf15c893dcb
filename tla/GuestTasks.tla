----------------------------- MODULE GuestTasks -----------------------------
(***************************************************************************)
(* From a guest's message to the PMS: the agents of the mock provider      *)
(* (RequestAgents) read and plan it, the workflow puts it before a human   *)
(* where one is needed, and the browser worker carries the plan out and    *)
(* verifies it at the desk of the PMS (PmsDesk), where the other requests  *)
(* of the hotels and the hotels' staff are at work too.                    *)
(*                                                                         *)
(* GuestRequestWorkflow has the activities, signals and rows of one        *)
(* request, BrowserReceipts the attempts of one task.  Here the workflow   *)
(* is reduced to where a request stands, and an attempt to the three       *)
(* moments others can come between: the page is open, the form is          *)
(* submitted, the worker has recorded what it did.                         *)
(***************************************************************************)
EXTENDS PmsDesk, FiniteSets

CONSTANTS
  Request,
  Cases,      \* who writes what, and to which hotel: records message, home
  CheckedIn,  \* the hotels whose reservation is CHECKED_IN, not CONFIRMED
  Staff,      \* people at the desk of some hotel
  MaxTries,   \* bound: PlannedTask.maxRetries + 1
  MaxFaults,  \* bound: failures of the worker or the PMS
  MaxActs     \* bound: things the staff does

ASSUME CasesAssumption ==
  /\ Cases \subseteq [message : [Request -> Message], home : [Request -> Hotel]]
  /\ CheckedIn \subseteq Hotel
ASSUME BoundsAssumption == MaxTries \in Nat \ {0} /\ MaxFaults \in Nat /\ MaxActs \in Nat

VARIABLES
  message, home,    \* what the guest wrote, and the hotel of his tenant: for good
  stage,            \* where the request stands
  requestType, plan,
  human,            \* "none", "asked", "granted", "refused"
  current, tries, result, verified,   \* the execution loop
  session,          \* the hotel of the browser's PMS session
  page,             \* the reservation's status on the page the worker has open
  status, summary,  \* the outcome and what the operator reads of it
  writes,           \* history: what the bot's submissions have written
  staffPage,        \* the reservation page a member of the staff has open
  faults, acts

understanding == <<message, home, requestType, plan>>
loop    == <<current, tries, result, verified>>
browser == <<session, page>>
outcome == <<status, summary>>
bounds  == <<faults, acts>>
vars == <<desk, understanding, stage, human, loop, browser, outcome, writes,
          staffPage, bounds>>

Stage == {"received", "classified", "planned", "waiting", "refused", "execute",
          "form", "submitted", "verify", "finish", "done"}
FinalStatus == {"COMPLETED", "PARTIALLY_COMPLETED", "ESCALATED"}
NoSummary == SummarizeEscalation({})
Closed == [hotel |-> None, status |-> None, notes |-> ""]

Init ==
  /\ rows = {} /\ receipts = {}
  /\ reservation = [h \in Hotel |->
       [status |-> IF h \in CheckedIn THEN "CHECKED_IN" ELSE "CONFIRMED", notes |-> ""]]
  /\ \E case \in Cases : message = case.message /\ home = case.home
  /\ stage = [r \in Request |-> "received"]
  /\ requestType = [r \in Request |-> None] /\ plan = [r \in Request |-> <<>>]
  /\ human = [r \in Request |-> "none"]
  /\ current = [r \in Request |-> 1] /\ tries = [r \in Request |-> 1]
  /\ result = [r \in Request |-> <<>>] /\ verified = [r \in Request |-> <<>>]
  /\ session = [r \in Request |-> None] /\ page = [r \in Request |-> None]
  /\ status = [r \in Request |-> None] /\ summary = [r \in Request |-> NoSummary]
  /\ writes = {} /\ staffPage = [s \in Staff |-> Closed]
  /\ faults = 0 /\ acts = 0

Goes(r, from, to) == stage[r] = from /\ stage' = [stage EXCEPT ![r] = to]
-----------------------------------------------------------------------------
(***************************************************************************)
(* The agents and the gate.                                                *)
(***************************************************************************)
\* escalateGuestRequest and finalizeGuestRequest.
Close(r, final, completed) ==
  /\ status' = [status EXCEPT ![r] = final]
  /\ summary' = [summary EXCEPT ![r] = IF final = "COMPLETED" THEN NoSummary
                                       ELSE SummarizeEscalation(completed)]

\* An unsupported request is escalated before anything is planned.
ClassifyGuestRequest(r) ==
  LET type == ClassifyRequest(message[r]).requestType IN
  /\ requestType' = [requestType EXCEPT ![r] = type]
  /\ IF type = "UNSUPPORTED"
     THEN Goes(r, "received", "done") /\ Close(r, "ESCALATED", {})
     ELSE Goes(r, "received", "classified") /\ UNCHANGED outcome
  /\ UNCHANGED <<desk, message, home, plan, human, loop, browser, writes, staffPage, bounds>>

PlanGuestRequest(r) ==
  /\ Goes(r, "classified", "planned")
  /\ LET tasks == CreatePlan(ClassifyRequest(message[r]), message[r]) IN
     /\ plan' = [plan EXCEPT ![r] = tasks]
     /\ result' = [result EXCEPT ![r] = [i \in DOMAIN tasks |-> "none"]]
     /\ verified' = [verified EXCEPT ![r] = [i \in DOMAIN tasks |-> "none"]]
  /\ UNCHANGED <<desk, message, home, requestType, human, current, tries, browser,
                 outcome, writes, staffPage, bounds>>

NeedsHuman(r) ==
  \/ EvaluatePolicy(requestType[r], plan[r]).requiresApproval
  \/ \E i \in DOMAIN plan[r] : plan[r][i].requiresApproval

\* A human is asked when the policy or a task wants one.  EvaluatePolicy neither
\* rejects nor blocks what got this far.
EvaluateGuestRequestPolicy(r) ==
  /\ \/ /\ NeedsHuman(r)
        /\ Goes(r, "planned", "waiting")
        /\ human' = [human EXCEPT ![r] = "asked"]
     \/ /\ ~NeedsHuman(r)
        /\ Goes(r, "planned", "execute")
        /\ UNCHANGED human
  /\ UNCHANGED <<desk, understanding, loop, browser, outcome, writes, staffPage, bounds>>

Approve(r) ==
  /\ Goes(r, "waiting", "execute")
  /\ human' = [human EXCEPT ![r] = "granted"]
  /\ UNCHANGED <<desk, understanding, loop, browser, outcome, writes, staffPage, bounds>>

\* Faulty: silence is consent.
RefuseExecutes(r) ==
  /\ Goes(r, "waiting", "execute")
  /\ human' = [human EXCEPT ![r] = "refused"]
  /\ UNCHANGED <<desk, understanding, loop, browser, outcome, writes, staffPage, bounds>>

\* A rejection, or the approval timer ...
Refuse(r) ==
  /\ Goes(r, "waiting", "refused")
  /\ human' = [human EXCEPT ![r] = "refused"]
  /\ UNCHANGED <<desk, understanding, loop, browser, outcome, writes, staffPage, bounds>>

\* ... after which the request is escalated.
EscalateRefused(r) ==
  /\ Goes(r, "refused", "done")
  /\ Close(r, "ESCALATED", {})
  /\ UNCHANGED <<desk, understanding, human, loop, browser, writes, staffPage, bounds>>
-----------------------------------------------------------------------------
(***************************************************************************)
(* executeBrowserTask                                                      *)
(***************************************************************************)
TaskOf(r) == plan[r][current[r]]
Receipt(r) == <<r, current[r]>>

Unverified(r, res, ver) == {i \in DOMAIN res : res[i] = "ok" /\ ver[i] = "none"}

\* The loops: the next task to execute, else the next to verify, else the end.
Advance(r, res, ver) ==
  LET todo == {i \in DOMAIN res : res[i] = "none"}
      stop == requestType[r] # "MULTI_ACTION" /\ \E i \in DOMAIN res : res[i] = "failed"
      next == IF stop THEN {} ELSE todo
      check == Unverified(r, res, ver)
      least(S) == CHOOSE i \in S : \A j \in S : i <= j
  IN  /\ stage' = [stage EXCEPT ![r] = IF next # {} THEN "execute"
                                       ELSE IF check # {} THEN "verify" ELSE "finish"]
      /\ current' = [current EXCEPT ![r] = IF next # {} THEN least(next)
                                           ELSE IF check # {} THEN least(check) ELSE @]
      /\ tries' = [tries EXCEPT ![r] = 1]

EndSession(r) ==
  /\ session' = [session EXCEPT ![r] = None]
  /\ page' = [page EXCEPT ![r] = None]

Succeeds(r) ==
  /\ result' = [result EXCEPT ![r][current[r]] = "ok"]
  /\ Advance(r, result'[r], verified[r])
  /\ EndSession(r)
  /\ UNCHANGED verified

\* Faulty: one attempt too many.
TryFailsLate(r) ==
  /\ \/ /\ tries[r] <= MaxTries
        /\ tries' = [tries EXCEPT ![r] = @ + 1]
        /\ stage' = [stage EXCEPT ![r] = "execute"]
        /\ UNCHANGED <<current, result>>
     \/ /\ tries[r] > MaxTries
        /\ result' = [result EXCEPT ![r][current[r]] = "failed"]
        /\ Advance(r, result'[r], verified[r])
  /\ EndSession(r)
  /\ UNCHANGED verified

\* Another attempt, or the task has failed.
TryFails(r) ==
  /\ \/ /\ tries[r] < MaxTries
        /\ tries' = [tries EXCEPT ![r] = @ + 1]
        /\ stage' = [stage EXCEPT ![r] = "execute"]
        /\ UNCHANGED <<current, result>>
     \/ /\ tries[r] = MaxTries
        /\ result' = [result EXCEPT ![r][current[r]] = "failed"]
        /\ Advance(r, result'[r], verified[r])
  /\ EndSession(r)
  /\ UNCHANGED verified

\* An action already on record in the guest's own hotel is a success.
FindExistingReceipt(r) ==
  /\ stage[r] = "execute"
  /\ <<home[r], Receipt(r)>> \in receipts
  /\ Succeeds(r)
  /\ UNCHANGED <<desk, understanding, human, outcome, writes, staffPage, bounds>>

\* resolveReservationId: the guest gave no reservation, or none of this hotel.
ReservationMissing(r) ==
  /\ stage[r] = "execute"
  /\ <<home[r], Receipt(r)>> \notin receipts
  /\ ~IsCreate(TaskOf(r).taskType) /\ ~TaskOf(r).reservation
  /\ TryFails(r)
  /\ UNCHANGED <<desk, understanding, human, outcome, writes, staffPage, bounds>>

\* Faulty: a reservation is looked up by its id alone.
ShowsAny(hotel, r) == hotel \in Hotel

\* The page of a reservation of another hotel is not found.
Shows(hotel, r) == IsCreate(TaskOf(r).taskType) \/ hotel = home[r]

\* The login looks its user up by name alone, and every hotel has one named
\* "staff": the session is of whichever hotel's row comes first.
OpenPage(r) ==
  /\ stage[r] = "execute"
  /\ <<home[r], Receipt(r)>> \notin receipts
  /\ IsCreate(TaskOf(r).taskType) \/ TaskOf(r).reservation
  /\ \E hotel \in Hotel :
       \/ /\ Shows(hotel, r)
          /\ stage' = [stage EXCEPT ![r] = "form"]
          /\ session' = [session EXCEPT ![r] = hotel]
          /\ page' = [page EXCEPT ![r] = reservation[hotel].status]
          /\ UNCHANGED loop
       \/ /\ ~Shows(hotel, r)
          /\ TryFails(r)
  /\ UNCHANGED <<desk, understanding, human, outcome, writes, staffPage, bounds>>

\* What the page sends for a task, and what the PMS answers.
Submission(r, answer) ==
  LET task == TaskOf(r) hotel == session[r] IN
  \/ /\ IsCreate(task.taskType)
     /\ Post(hotel, task.taskType, task.room, task.text, Receipt(r), answer)
  \/ /\ task.taskType = "MODIFY_RESERVATION"
     /\ Patch(hotel, page[r], "Modified per guest request")
     /\ answer = "ok"
  \/ /\ task.taskType = "CANCEL_RESERVATION"
     /\ Delete(hotel)
     /\ answer = "ok"

\* A write of a task: where, and on a reservation of which status.
Written(r) == [request |-> r, task |-> current[r], hotel |-> session[r],
               status |-> reservation[session[r]].status]

\* The form is submitted; the success banner shows, or the wait for it ends.
Submit(r) ==
  /\ stage[r] = "form"
  /\ \E answer \in {"ok", "error"} :
       /\ Submission(r, answer)
       /\ \/ /\ answer = "ok"
             /\ writes' = writes \cup {Written(r)}
             /\ stage' = [stage EXCEPT ![r] = "submitted"]
             /\ UNCHANGED <<loop, browser>>
          \/ /\ answer = "error"
             /\ TryFails(r)
             /\ UNCHANGED writes
  /\ UNCHANGED <<understanding, human, outcome, staffPage, bounds>>

\* The worker looks for its row in the guest's hotel and records the receipt; a
\* row it does not find there is a success all the same.
RecordReceipt(r) ==
  /\ stage[r] = "submitted"
  /\ IF ~IsCreate(TaskOf(r).taskType) \/ Stored(home[r], TaskOf(r).taskType, Receipt(r))
     THEN RecordBrowserReceipt(home[r], Receipt(r))
     ELSE UNCHANGED receipts
  /\ Succeeds(r)
  /\ UNCHANGED <<rows, reservation, understanding, human, outcome, writes, staffPage, bounds>>
-----------------------------------------------------------------------------
(***************************************************************************)
(* verifyBrowserTask, in a session of its own, and the outcome.            *)
(***************************************************************************)
\* Faulty: a modification is verified by the page being there.
ObservesAnyStatus(r, hotel) ==
  CASE IsCreate(TaskOf(r).taskType) -> RowVisible(hotel, TaskOf(r))
    [] TaskOf(r).taskType = "MODIFY_RESERVATION" -> hotel = home[r]
    [] OTHER -> hotel = home[r] /\ reservation[hotel].status = "CANCELLED"

\* verifyTaskAction
Observes(r, hotel) ==
  CASE IsCreate(TaskOf(r).taskType) -> RowVisible(hotel, TaskOf(r))
    [] TaskOf(r).taskType = "MODIFY_RESERVATION" ->
         hotel = home[r] /\ reservation[hotel].status = "CONFIRMED"
    [] OTHER -> hotel = home[r] /\ reservation[hotel].status = "CANCELLED"

Verdict(r, seen) ==
  /\ verified' = [verified EXCEPT ![r][current[r]] = IF seen THEN "yes" ELSE "no"]
  /\ Advance(r, result[r], verified'[r])
  /\ UNCHANGED <<desk, understanding, human, result, browser, outcome, writes, staffPage>>

VerifyBrowserTask(r) ==
  /\ stage[r] = "verify"
  /\ \E hotel \in Hotel : Verdict(r, Observes(r, hotel))
  /\ UNCHANGED bounds

\* Faulty: only what was verified counts, not what was never executed.
DeriveFromVerified(res, ver) ==
  LET ok == {i \in DOMAIN res : res[i] = "ok"}
  IN  IF ok = {} THEN "ESCALATED"
      ELSE IF \E i \in ok : ver[i] = "no" THEN "PARTIALLY_COMPLETED" ELSE "COMPLETED"

\* deriveExecutionStatus; FAILED is escalated.
DeriveExecutionStatus(res, ver) ==
  LET ok == {i \in DOMAIN res : res[i] = "ok"}
  IN  IF ok = {} THEN "ESCALATED"
      ELSE IF ok # DOMAIN res \/ \E i \in ok : ver[i] = "no"
           THEN "PARTIALLY_COMPLETED" ELSE "COMPLETED"

Finish(r) ==
  /\ Goes(r, "finish", "done")
  /\ Close(r, DeriveExecutionStatus(result[r], verified[r]),
           {i \in DOMAIN plan[r] : result[r][i] = "ok"})
  /\ UNCHANGED <<desk, understanding, human, loop, browser, writes, staffPage, bounds>>
-----------------------------------------------------------------------------
(***************************************************************************)
(* Failures, and the staff at the desk.                                    *)
(***************************************************************************)
Fault == faults < MaxFaults /\ faults' = faults + 1

\* An injected failure, an open circuit breaker, a lost browser or PMS, a
\* screenshot that cannot be stored: the attempt ends where it is.
AttemptFails(r) ==
  /\ Fault
  /\ stage[r] \in {"execute", "form", "submitted"}
  /\ TryFails(r)
  /\ UNCHANGED <<desk, understanding, human, outcome, writes, staffPage, acts>>

\* The PMS has written the row and not its receipt when it fails.
ReceiptLost(r) ==
  /\ Fault
  /\ stage[r] = "form"
  /\ IsCreate(TaskOf(r).taskType)
  /\ Inserts(session[r], TaskOf(r).taskType, Receipt(r))
  /\ Insert(session[r], TaskOf(r).taskType, TaskOf(r).room, TaskOf(r).text, Receipt(r))
  /\ writes' = writes \cup {Written(r)}
  /\ TryFails(r)
  /\ UNCHANGED <<receipts, reservation, understanding, human, outcome, staffPage, acts>>

\* An injected mismatch, or any error of the verification.
VerificationFails(r) ==
  /\ Fault
  /\ stage[r] = "verify"
  /\ Verdict(r, FALSE)
  /\ UNCHANGED acts

Act == acts < MaxActs /\ acts' = acts + 1

Untouched == UNCHANGED <<understanding, stage, human, loop, browser, outcome, writes, faults>>

\* Staff submits one of the two forms that work, with an empty receipt field.
StaffPosts ==
  /\ Act
  /\ \E hotel \in Hotel, taskType \in {"CREATE_MAINTENANCE_TICKET", "CREATE_WAKE_UP_CALL"},
        answer \in {"ok", "error"} :
       Post(hotel, taskType, "407", "06:30", NoReceipt, answer)
  /\ UNCHANGED staffPage /\ Untouched

StaffOpensReservation(s) ==
  /\ Act
  /\ staffPage[s] = Closed
  /\ \E hotel \in Hotel :
       staffPage' = [staffPage EXCEPT ![s] =
                       [hotel |-> hotel, status |-> reservation[hotel].status,
                        notes |-> reservation[hotel].notes]]
  /\ UNCHANGED desk /\ Untouched

\* The whole text field is sent: what it showed, or what was typed over it.
StaffSaves(s) ==
  /\ Act
  /\ staffPage[s] # Closed
  /\ \E notes \in {staffPage[s].notes, "staff"} :
       Patch(staffPage[s].hotel, staffPage[s].status, notes)
  /\ staffPage' = [staffPage EXCEPT ![s] = Closed]
  /\ Untouched

StaffCancels(s) ==
  /\ Act
  /\ staffPage[s] # Closed
  /\ Delete(staffPage[s].hotel)
  /\ staffPage' = [staffPage EXCEPT ![s] = Closed]
  /\ Untouched
-----------------------------------------------------------------------------
Agents(r) ==
  \/ ClassifyGuestRequest(r) \/ PlanGuestRequest(r) \/ EvaluateGuestRequestPolicy(r)
  \/ EscalateRefused(r)

Worker(r) ==
  \/ FindExistingReceipt(r) \/ ReservationMissing(r) \/ OpenPage(r)
  \/ Submit(r) \/ RecordReceipt(r) \/ VerifyBrowserTask(r)

Failures(r) == AttemptFails(r) \/ ReceiptLost(r) \/ VerificationFails(r)

StaffActs == StaffPosts \/ \E s \in Staff :
  StaffOpensReservation(s) \/ StaffSaves(s) \/ StaffCancels(s)

Next ==
  \/ \E r \in Request : Agents(r) \/ Approve(r) \/ Refuse(r) \/ Worker(r)
                        \/ Finish(r) \/ Failures(r)
  \/ StaffActs

Spec == Init /\ [][Next]_vars
-----------------------------------------------------------------------------
\* Every variable keeps its type: a browser session is some hotel's, a loop
\* points at a task of its plan, and a request is open or finally closed.
TypeOK ==
  /\ \A row \in rows : row.hotel \in Hotel /\ IsCreate(row.taskType) /\ row.room \in Room
  /\ \A receipt \in receipts : receipt[1] \in Hotel
  /\ reservation \in [Hotel -> [status : ReservationStatus, notes : Notes]]
  /\ [message |-> message, home |-> home] \in Cases
  /\ stage \in [Request -> Stage]
  /\ human \in [Request -> {"none", "asked", "granted", "refused"}]
  /\ tries \in [Request -> 1 .. MaxTries]
  /\ session \in [Request -> Hotel \cup {None}]
  /\ status \in [Request -> FinalStatus \cup {None}]
  /\ \A r \in Request :
       /\ requestType[r] \in RequestType \cup {None}
       /\ \A i \in DOMAIN plan[r] : plan[r][i] \in Task
       /\ stage[r] \in {"execute", "form", "submitted", "verify"} =>
            current[r] \in DOMAIN plan[r]
       /\ stage[r] = "done" <=> status[r] # None
  /\ faults \in 0 .. MaxFaults /\ acts \in 0 .. MaxActs

WritesOf(r, i) == {w \in writes : w.request = r /\ w.task = i}

\* What is reported is true, whatever attempts were lost and whoever else has rows
\* that look the same: a COMPLETED request has written to a PMS for each task of
\* its plan, and so has each task an operator is told is completed.
ReportsAreTrue ==
  \A r \in Request :
    \A i \in IF status[r] = "COMPLETED" THEN DOMAIN plan[r]
                                       ELSE summary[r].completedActions :
      WritesOf(r, i) # {}

\* A modification that reached a reservation already cancelled, by another guest's
\* request or by the staff, is never verified, and its request not COMPLETED.  An
\* operator reads of it all the same: the summary of a PARTIALLY_COMPLETED request
\* lists what was executed, verified or not.
NotDoneOnCancelled ==
  \A w \in writes :
    plan[w.request][w.task].taskType = "MODIFY_RESERVATION" /\ w.status = "CANCELLED" =>
      /\ verified[w.request][w.task] # "yes"
      /\ status[w.request] # "COMPLETED"

\* The bot's session may be of any hotel, and each attempt has another.  Still it
\* writes to no reservation but the guest's own hotel's, and cancels that one only
\* when a human has granted the very request.
ReservationsProtected ==
  \A w \in writes :
    LET type == plan[w.request][w.task].taskType IN
    /\ IsCreate(type) \/ w.hotel = home[w.request]
    /\ type = "CANCEL_RESERVATION" => human[w.request] = "granted"

StaysCancelled ==
  \A h \in Hotel : reservation[h].status = "CANCELLED" => reservation'[h].status = "CANCELLED"

\* A page that was opened before a cancellation and saved after it, by the bot or
\* by the staff, does not bring the reservation back.
CancelledForGood == [][StaysCancelled]_vars

\* architecture.md: "Each tenant maps 1:1 to a hotel in the PMS schema."  What is
\* reported as done for a guest is done in the guest's hotel.
DoneInOwnHotel ==
  \A w \in writes : status[w.request] = "COMPLETED" => w.hotel = home[w.request]
-----------------------------------------------------------------------------
\* The tasks of a request that were handed to the browser worker.
Touched(r) ==
  {i \in DOMAIN plan[r] :
     \/ result[r][i] # "none"
     \/ /\ current[r] = i
        /\ \/ stage[r] \in {"form", "submitted"}
           \/ stage[r] = "execute" /\ tries[r] > 1}

Lifecycle(r) == INSTANCE RequestLifecycle WITH
  Task      <- {1, 2},
  needed    <- plan[r] # <<>> /\ NeedsHuman(r),
  approval  <- human[r],
  withdrawn <- FALSE,
  touched   <- Touched(r),
  outcome   <- IF status[r] = None THEN "none" ELSE status[r]

\* Among the others and the staff, every request is still the RequestLifecycle a
\* guest is promised.
ImplementsLifecycle ==
  /\ \A r \in Request : Lifecycle(r)!Init
  /\ [][\A r \in Request : Lifecycle(r)!Next \/ UNCHANGED Lifecycle(r)!vars]_vars
=============================================================================
