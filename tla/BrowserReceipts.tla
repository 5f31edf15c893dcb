-------------------------- MODULE BrowserReceipts --------------------------
(***************************************************************************)
(* One task of a plan, executed by repeated attempts of executeBrowserTask *)
(* against the PMS.  All attempts of a task carry the same receipt id      *)
(* (buildDeterministicReceiptId).  The worker looks the receipt up before  *)
(* it acts and records it afterwards; for the four CREATE actions the PMS  *)
(* route does the same around its insert.  MODIFY and CANCEL_RESERVATION   *)
(* send no receipt to their route.                                         *)
(*                                                                         *)
(* Rows and receipts are unique by hotel and receipt id.  The worker looks *)
(* and records under the hotel of the task's tenant, the route under the   *)
(* hotel of its session, which is that of whichever user of the bot's name *)
(* the login finds first: the two need not be the same hotel.              *)
(*                                                                         *)
(* An attempt Temporal has given up on, and a route handler whose page is  *)
(* gone, run on.  Each await of the worker and of the handler is a step.   *)
(***************************************************************************)
EXTENDS Naturals, FiniteSets

CONSTANTS
  Attempts,   \* attempts of executeBrowserTask: Temporal's and the workflow's
  Hotel,      \* the hotels that have a user of the bot's name
  Home,       \* the hotel of the task's tenant
  MaxFaults   \* bound: errors, timeouts and crashes

None == "none"

ASSUME AttemptsAssumption == Attempts \subseteq Nat \ {0}
ASSUME HotelAssumption == Home \in Hotel /\ None \notin Hotel
ASSUME FaultsAssumption == MaxFaults \in Nat

VARIABLES
  creates,   \* the task is one of the four CREATE actions, for good
  worker,    \* where each attempt is
  session,   \* the hotel of its PMS session, once it has logged in
  handler,   \* where the route handler of its submission is
  overdue,   \* attempts Temporal has given up on
  writes,    \* attempts whose submission wrote to the PMS: created the row,
             \* whose id is the attempt, or changed the reservation
  receipt,   \* browser_action_receipts: in each hotel no row, or one resourceId
  faults

vars == <<creates, worker, session, handler, overdue, writes, receipt, faults>>

Reservation == 0

Init ==
  /\ creates \in BOOLEAN
  /\ worker = [a \in Attempts |-> "idle"]
  /\ session = [a \in Attempts |-> None]
  /\ handler = [a \in Attempts |-> "none"]
  /\ receipt = [h \in Hotel |-> {}]
  /\ overdue = {} /\ writes = {} /\ faults = 0

\* The rows a CREATE action has left in a hotel.
Rows(h) == {a \in writes : session[a] = h}

Works(a, from, to) == worker[a] = from /\ worker' = [worker EXCEPT ![a] = to]
Handles(a, from, to) == handler[a] = from /\ handler' = [handler EXCEPT ![a] = to]

Over(a) == worker[a] \in {"failure", "crashed"} \/ a \in overdue
-----------------------------------------------------------------------------
\* The next attempt begins when those before it have failed or are given up.
Begin(a) ==
  /\ \A b \in Attempts : b < a => Over(b)
  /\ Works(a, "idle", "lookup")
  /\ UNCHANGED <<creates, session, handler, overdue, writes, receipt, faults>>

\* Faulty: the worker does not look for a receipt.
ActAnyway(a) ==
  /\ Works(a, "lookup", "submit")
  /\ UNCHANGED <<creates, session, handler, overdue, writes, receipt, faults>>

\* findExistingReceipt: an action recorded in the tenant's hotel is a success.
FindExistingReceipt(a) ==
  /\ Works(a, "lookup", IF receipt[Home] # {} THEN "success" ELSE "submit")
  /\ UNCHANGED <<creates, session, handler, overdue, writes, receipt, faults>>

\* The login; then the page object fills the form and clicks.  The page of a
\* reservation is there in a session of its own hotel only.
Submit(a) ==
  /\ Works(a, "submit", "waiting")
  /\ \E h \in Hotel : /\ creates \/ h = Home
                      /\ session' = [session EXCEPT ![a] = h]
  /\ handler' = [handler EXCEPT ![a] = IF creates THEN "check" ELSE "write"]
  /\ UNCHANGED <<creates, overdue, writes, receipt, faults>>

ReservationNotFound(a) ==
  /\ ~creates
  /\ Works(a, "submit", "failure")
  /\ \E h \in Hotel \ {Home} : session' = [session EXCEPT ![a] = h]
  /\ UNCHANGED <<creates, handler, overdue, writes, receipt, faults>>

\* findReceiptResource of the route: the receipt and the row it names, both in
\* the hotel of the session.
FindReceiptResource(a) ==
  /\ LET h == session[a] IN
       Handles(a, "check", IF receipt[h] # {} /\ receipt[h] \subseteq Rows(h)
                           THEN "ok" ELSE "write")
  /\ UNCHANGED <<creates, worker, session, overdue, writes, receipt, faults>>

\* Faulty: the table has no unique index.
WriteAlways(a) ==
  /\ Handles(a, "write", IF creates THEN "record" ELSE "ok")
  /\ writes' = writes \cup {a}
  /\ UNCHANGED <<creates, worker, session, overdue, receipt, faults>>

\* create violates the unique index when the row is there; update does not.
Write(a) ==
  /\ \/ /\ creates => Rows(session[a]) = {}
        /\ Handles(a, "write", IF creates THEN "record" ELSE "ok")
        /\ writes' = writes \cup {a}
     \/ /\ creates /\ Rows(session[a]) # {}
        /\ Handles(a, "write", "error")
        /\ UNCHANGED writes
  /\ UNCHANGED <<creates, worker, session, overdue, receipt, faults>>

\* recordBrowserReceipt of the route.
RecordBrowserReceipt(a) ==
  /\ Handles(a, "record", "ok")
  /\ receipt' = [receipt EXCEPT ![session[a]] = {a}]
  /\ UNCHANGED <<creates, worker, session, overdue, writes, faults>>

\* Faulty: the banner is awaited without looking at the reply.
ReplyTaken(a) ==
  /\ handler[a] \in {"ok", "error"}
  /\ Works(a, "waiting", "find")
  /\ UNCHANGED <<creates, session, handler, overdue, writes, receipt, faults>>

\* The success banner shows, or never does and the wait for it times out.
Reply(a) ==
  /\ \/ handler[a] = "ok" /\ Works(a, "waiting", "find")
     \/ handler[a] = "error" /\ Works(a, "waiting", "failure")
  /\ UNCHANGED <<creates, session, handler, overdue, writes, receipt, faults>>

\* What the worker takes for the action's resource: the row of this receipt id in
\* the tenant's hotel, if there is one.
Resource == IF creates THEN Rows(Home) ELSE {Reservation}

\* The upsert under the tenant's hotel.
Upsert == \E r \in Resource : receipt' = [receipt EXCEPT ![Home] = {r}]

\* The worker looks for the created row; without one resourceId is undefined and
\* nothing will be recorded.  For a reservation it records the receipt.
ExecuteTaskAction(a) ==
  /\ Works(a, "find", IF Resource = {} THEN "answer" ELSE "record")
  /\ IF creates THEN UNCHANGED receipt ELSE Upsert
  /\ UNCHANGED <<creates, session, handler, overdue, writes, faults>>

\* Faulty: the receipt is recorded with an id of the attempt's own.
RecordOwn(a) ==
  /\ Works(a, "record", "success")
  /\ receipt' = [receipt EXCEPT ![Home] = {a}]
  /\ UNCHANGED <<creates, session, handler, overdue, writes, faults>>

\* The receipt is recorded and the attempt answers.
RecordAndAnswer(a) ==
  /\ Works(a, "record", "success")
  /\ Upsert
  /\ UNCHANGED <<creates, session, handler, overdue, writes, faults>>

\* Without a resource the attempt answers success all the same.
AnswerUnrecorded(a) ==
  /\ Works(a, "answer", "success")
  /\ UNCHANGED <<creates, session, handler, overdue, writes, receipt, faults>>
-----------------------------------------------------------------------------
Fault == faults < MaxFaults /\ faults' = faults + 1

\* Any error in the worker: injected before or after the action, an open circuit
\* breaker, the login, a screenshot, the database.
WorkerFails(a) ==
  /\ Fault
  /\ worker[a] \in {"lookup", "submit", "find", "record", "answer"}
  /\ worker' = [worker EXCEPT ![a] = "failure"]
  /\ UNCHANGED <<creates, session, handler, overdue, writes, receipt>>

\* waitForSuccessMessage gives up on a slow PMS.
BannerTimeout(a) ==
  /\ Fault
  /\ handler[a] \in {"check", "write", "record"}
  /\ Works(a, "waiting", "failure")
  /\ UNCHANGED <<creates, session, handler, overdue, writes, receipt>>

\* The handler ends without its next step: maintenance mode or another injected
\* failure, a database error, a restart of the PMS.
RouteFails(a) ==
  /\ Fault
  /\ handler[a] \in {"check", "write", "record"}
  /\ handler' = [handler EXCEPT ![a] = "error"]
  /\ UNCHANGED <<creates, worker, session, overdue, writes, receipt>>

Active(a) == worker[a] \in {"lookup", "submit", "waiting", "find", "record", "answer"}

\* The browser worker dies; its page goes with it.
WorkerCrash(a) ==
  /\ Fault
  /\ Active(a)
  /\ worker' = [worker EXCEPT ![a] = "crashed"]
  /\ UNCHANGED <<creates, session, handler, overdue, writes, receipt>>

\* Faulty: the attempt after the one that is late is given up.
StartToCloseTimeoutNext(a) ==
  /\ Fault
  /\ Active(a) /\ a \notin overdue
  /\ overdue' = overdue \cup {a + 1}
  /\ UNCHANGED <<creates, worker, session, handler, writes, receipt>>

\* startToCloseTimeout: nothing stops the attempt itself.
StartToCloseTimeout(a) ==
  /\ Fault
  /\ Active(a) /\ a \notin overdue
  /\ overdue' = overdue \cup {a}
  /\ UNCHANGED <<creates, worker, session, handler, writes, receipt>>

Steps(a) ==
  \/ FindExistingReceipt(a) \/ Submit(a) \/ ReservationNotFound(a) \/ Reply(a)
  \/ ExecuteTaskAction(a) \/ RecordAndAnswer(a) \/ AnswerUnrecorded(a)
  \/ FindReceiptResource(a) \/ Write(a) \/ RecordBrowserReceipt(a)

Failures(a) ==
  \/ WorkerFails(a) \/ BannerTimeout(a) \/ RouteFails(a) \/ WorkerCrash(a)
  \/ StartToCloseTimeout(a)

Next == \E a \in Attempts : Begin(a) \/ Steps(a) \/ Failures(a)

Spec == Init /\ [][Next]_vars
-----------------------------------------------------------------------------
\* Every variable keeps its type: what is answered, recorded or overdue belongs
\* to attempts of this task, a session to a hotel.
TypeOK ==
  /\ creates \in BOOLEAN
  /\ worker \in [Attempts -> {"idle", "lookup", "submit", "waiting", "find",
                              "record", "answer", "success", "failure", "crashed"}]
  /\ session \in [Attempts -> Hotel \cup {None}]
  /\ handler \in [Attempts -> {"none", "check", "write", "record", "ok", "error"}]
  /\ overdue \in SUBSET Attempts /\ writes \in SUBSET Attempts
  /\ receipt \in [Hotel -> SUBSET (Attempts \cup {Reservation})]
  /\ faults \in 0 .. MaxFaults

\* However attempts and handlers overlap, a CREATE action inserts one row in a
\* hotel.  Attempts whose sessions are of two hotels may leave one in each.
CreatedOnce == creates => \A h \in Hotel : \A a, b \in Rows(h) : a = b

\* The resources of the task in a hotel: the rows created there, the reservation.
Written(h) ==
  IF creates THEN Rows(h)
  ELSE IF h = Home /\ writes # {} THEN {Reservation} ELSE {}

\* Where an attempt has worked: at the desk of its session, or, when it answered
\* from the receipt, in the tenant's hotel.
Desk(a) == IF session[a] = None THEN Home ELSE session[a]

\* A success stands for a write at the desk the attempt worked at, and a receipt
\* in that hotel answers whoever submits there again.  Only when the desk is that
\* of the tenant's hotel does it keep the attempts after it from submitting.
SuccessIsRecorded ==
  \A a \in Attempts : worker[a] = "success" =>
    Written(Desk(a)) # {} /\ receipt[Desk(a)] # {}

\* In whichever hotel a receipt is, it names the resource the PMS wrote there: an
\* attempt or a handler that trusts it answers for a row or a change that exists.
ReceiptIsReal == \A h \in Hotel : receipt[h] \subseteq Written(h)

KeepsReceipt ==
  /\ \A h \in Hotel : receipt[h] # {} =>
       receipt'[h] = receipt[h] /\ (creates => Rows(h)' = Rows(h))
  /\ receipt[Home] # {} =>
       \A a \in Attempts : worker[a] = "lookup" => worker'[a] # "submit"

\* Once an action is on record in a hotel it stays there, for the same resource,
\* and no further row is inserted in that hotel.  A task on record in the tenant's
\* hotel, and in no other, is not submitted by an attempt that looks it up there.
ReceiptIsFinal == [][KeepsReceipt]_vars
=============================================================================
