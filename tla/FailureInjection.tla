-------------------------- MODULE FailureInjection --------------------------
(***************************************************************************)
(* Failure injection of the mock PMS, for one hotel.  The hotel's settings *)
(* are a row of the database; every API route calls applyFailureInjection  *)
(* before it does anything else, the routes that read and save the         *)
(* settings as well.  That a request has been failed by "fail next" is     *)
(* kept twice: in the row, and in a map of the process (spent).            *)
(*                                                                         *)
(* A handler reads the row, waits out the injected latency, decides,       *)
(* writes the row back if it is the one to fail, and only then does its    *)
(* work.  Others run at each of these points.  The settings page loads the *)
(* settings once and saves all of them.                                    *)
(***************************************************************************)
EXTENDS Naturals

CONSTANTS
  Request,     \* handlers of the process at work at the same time
  Admin,       \* who has the settings page open
  MaxStarted   \* bound: requests and restarts altogether

ASSUME StartedAssumption == MaxStarted \in Nat

\* errors stands for pmsErrorRate > 0.
Config == [maintenance : BOOLEAN, failNext : BOOLEAN, errors : BOOLEAN]
Default == [maintenance |-> FALSE, failNext |-> FALSE, errors |-> FALSE]

VARIABLES
  row,       \* failure_configurations
  spent,     \* failNextByHotel holds false for the hotel
  page,      \* what the settings page of each administrator shows
  at,        \* where each handler is
  kind,      \* what it is for: "work", or loading or saving the page of `admin'
  admin,
  seen,      \* the configuration it has read
  body,      \* the settings it is to save
  victims,   \* history: failed by "fail next" since the map was last cleared
  earlier,   \* history: at work when maintenance was switched on
  started

handlers == <<at, kind, admin, seen, body>>
history  == <<victims, earlier, started>>
vars == <<row, spent, page, handlers, history>>

Init ==
  /\ row = Default /\ spent = FALSE
  /\ page = [a \in Admin |-> Default]
  /\ at = [q \in Request |-> "idle"] /\ kind = [q \in Request |-> "work"]
  /\ admin \in [Request -> Admin]
  /\ seen = [q \in Request |-> Default] /\ body = [q \in Request |-> Default]
  /\ victims = 0 /\ earlier = {} /\ started = 0

Busy == {q \in Request : at[q] # "idle"}
-----------------------------------------------------------------------------
(***************************************************************************)
(* Requests arrive.  getFailureConfig is the first thing each does.        *)
(***************************************************************************)
Arrives(q, what, a) ==
  /\ at[q] = "idle" /\ started < MaxStarted
  /\ started' = started + 1
  /\ at' = [at EXCEPT ![q] = "read"]
  /\ kind' = [kind EXCEPT ![q] = what]
  /\ admin' = [admin EXCEPT ![q] = a]
  /\ seen' = [seen EXCEPT ![q] = row]
  /\ UNCHANGED <<row, spent, victims, earlier>>

\* A request of the bot or of the staff.
WorkArrives(q) == Arrives(q, "work", admin[q]) /\ UNCHANGED <<page, body>>

Loading(a) == \E q \in Request : at[q] # "idle" /\ kind[q] = "load" /\ admin[q] = a

\* The settings page is opened; until it is loaded it shows the defaults.
LoadArrives(q, a) ==
  /\ ~Loading(a)
  /\ Arrives(q, "load", a)
  /\ page' = [page EXCEPT ![a] = Default]
  /\ UNCHANGED body

\* It is submitted, with one setting changed or none.
SaveArrives(q, a) ==
  /\ Arrives(q, "save", a)
  /\ \E field \in DOMAIN Default, value \in BOOLEAN :
       page' = [page EXCEPT ![a][field] = value]
  /\ body' = [body EXCEPT ![q] = page'[a]]

\* The handler has answered, and what it held is gone.
Ends(q, beginsMaintenance) ==
  /\ at' = [at EXCEPT ![q] = "idle"] /\ kind' = [kind EXCEPT ![q] = "work"]
  /\ seen' = [seen EXCEPT ![q] = Default] /\ body' = [body EXCEPT ![q] = Default]
  /\ earlier' = (IF beginsMaintenance THEN Busy ELSE earlier) \ {q}
  /\ UNCHANGED admin

\* A page whose load or save failed goes on showing what it shows.
Fails(q) == Ends(q, FALSE) /\ UNCHANGED page

Goes(q, to) ==
  /\ at' = [at EXCEPT ![q] = to]
  /\ UNCHANGED <<kind, admin, seen, body, page, earlier>>
-----------------------------------------------------------------------------
(***************************************************************************)
(* applyFailureInjection                                                   *)
(***************************************************************************)
MaintenanceThrows(q) ==
  /\ at[q] = "read" /\ seen[q].maintenance
  /\ Fails(q)
  /\ UNCHANGED <<row, spent, victims, started>>

\* Faulty: the map is not set; the row will be disarmed soon enough.
FailNextChecks(q) ==
  /\ at[q] = "read" /\ ~seen[q].maintenance
  /\ seen[q].failNext /\ ~spent
  /\ victims' = victims + 1
  /\ Goes(q, "writing")
  /\ UNCHANGED <<row, spent, started>>

\* Nobody was failed yet: this one is.  The map is set before the write begins.
FailNextTakes(q) ==
  /\ at[q] = "read" /\ ~seen[q].maintenance
  /\ seen[q].failNext /\ ~spent
  /\ spent' = TRUE
  /\ victims' = victims + 1
  /\ Goes(q, "writing")
  /\ UNCHANGED <<row, started>>

\* The row is written back as it was read, disarmed.
WritesBack(q) ==
  /\ at[q] = "writing"
  /\ row' = [seen[q] EXCEPT !.failNext = FALSE]
  /\ Fails(q)
  /\ UNCHANGED <<spent, victims, started>>

Clears == IF spent THEN spent' = FALSE /\ victims' = 0 ELSE UNCHANGED <<spent, victims>>

\* Somebody was failed already, or the row it has read is not armed.
Passes(q) ==
  /\ at[q] = "read" /\ ~seen[q].maintenance
  /\ seen[q].failNext => spent
  /\ IF seen[q].failNext THEN UNCHANGED <<spent, victims>> ELSE Clears
  /\ Goes(q, "passed")
  /\ UNCHANGED <<row, started>>

RandomlyFails(q) ==
  /\ at[q] = "passed" /\ seen[q].errors
  /\ Fails(q)
  /\ UNCHANGED <<row, spent, victims, started>>
-----------------------------------------------------------------------------
(***************************************************************************)
(* The work of the routes.                                                 *)
(***************************************************************************)
WorkDone(q) ==
  /\ at[q] = "passed" /\ kind[q] = "work"
  /\ Ends(q, FALSE)
  /\ UNCHANGED <<row, spent, page, victims, started>>

\* GET reads the row again.
LoadDone(q) ==
  /\ at[q] = "passed" /\ kind[q] = "load"
  /\ page' = [page EXCEPT ![admin[q]] = row]
  /\ Ends(q, FALSE)
  /\ UNCHANGED <<row, spent, victims, started>>

\* Faulty: the settings can be saved whatever is injected.
SaveAnyway(q) ==
  /\ at[q] \in {"read", "passed"} /\ kind[q] = "save"
  /\ row' = body[q]
  /\ Ends(q, body[q].maintenance /\ ~row.maintenance)
  /\ UNCHANGED <<page, spent, victims, started>>

\* PUT upserts the whole of it.
SaveDone(q) ==
  /\ at[q] = "passed" /\ kind[q] = "save"
  /\ row' = body[q]
  /\ Ends(q, body[q].maintenance /\ ~row.maintenance)
  /\ UNCHANGED <<page, spent, victims, started>>

\* The map is lost, and so is every handler; the pages stay open.
Restart ==
  /\ started < MaxStarted /\ started' = started + 1
  /\ at' = [q \in Request |-> "idle"] /\ kind' = [q \in Request |-> "work"]
  /\ seen' = [q \in Request |-> Default] /\ body' = [q \in Request |-> Default]
  /\ spent' = FALSE /\ victims' = 0 /\ earlier' = {}
  /\ UNCHANGED <<row, page, admin>>

Next ==
  \/ \E q \in Request :
       \/ WorkArrives(q)
       \/ \E a \in Admin : LoadArrives(q, a) \/ SaveArrives(q, a)
       \/ MaintenanceThrows(q) \/ FailNextTakes(q) \/ WritesBack(q)
       \/ Passes(q) \/ RandomlyFails(q)
       \/ WorkDone(q) \/ LoadDone(q) \/ SaveDone(q)
  \/ Restart

Spec == Init /\ [][Next]_vars
-----------------------------------------------------------------------------
\* "Fail next" fails one request: however many have read the armed row, no second
\* one is failed before some request has found the row disarmed.
FailsOnce == victims <= 1

\* Once the PMS is in maintenance, no request that comes in afterwards ends it, not
\* even one that saves the settings: the page that switched it on cannot switch it
\* off.  Only what was already at work then may still write an older row back.
MaintenanceHolds ==
  [][row.maintenance /\ ~row'.maintenance =>
       \E q \in earlier : at[q] # "idle" /\ at'[q] = "idle"]_vars
=============================================================================
