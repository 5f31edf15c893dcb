----------------------- MODULE FailureInjectionProofs -----------------------
(***************************************************************************)
(* FailsOnce and MaintenanceHolds, for any number of handlers, pages,      *)
(* requests and restarts.  The one rests on what the process's map says of *)
(* the victims, the other on what a handler that goes on has seen: no      *)
(* maintenance, so if there is one it is older than it.                    *)
(***************************************************************************)
EXTENDS FailureInjection, TLAPS

Place == {"idle", "read", "writing", "passed"}

TypeInv ==
  /\ row \in Config
  /\ page \in [Admin -> Config]
  /\ at \in [Request -> Place]
  /\ kind \in [Request -> {"work", "load", "save"}]
  /\ admin \in [Request -> Admin]
  /\ seen \in [Request -> Config]
  /\ body \in [Request -> Config]
  /\ earlier \subseteq Request

\* The map is set from the first victim on until it is cleared, with the victims.
MapCounts == victims \in {0, 1} /\ spent \in BOOLEAN /\ (~spent => victims = 0)

\* Only a handler that has not seen maintenance goes on, and while there is
\* maintenance whoever has not seen it was there before.
SawNone ==
  \A q \in Request :
    /\ at[q] \in {"writing", "passed"} => ~seen[q].maintenance
    /\ row.maintenance /\ at[q] # "idle" /\ ~seen[q].maintenance => q \in earlier

IInv == TypeInv /\ MapCounts /\ SawNone

\* The initial state satisfies the invariant.
LEMMA InitIInv == Init => IInv
  <1> SUFFICES ASSUME Init PROVE IInv
    OBVIOUS
  <1>1. Default \in Config /\ ~Default.maintenance
    BY DEF Default, Config
  <1>2. TypeInv
    BY <1>1 DEF Init, TypeInv, Place
  <1> QED BY <1>1, <1>2 DEF Init, IInv, MapCounts, SawNone

\* A handler that ends without saving leaves the others where they are.
LEMMA EndsType ==
  ASSUME TypeInv, NEW q \in Request, NEW begins \in BOOLEAN, Ends(q, begins),
         row' \in Config, page' \in [Admin -> Config]
  PROVE  TypeInv'
  <1>1. Default \in Config
    BY DEF Default, Config
  <1> QED BY <1>1 DEF TypeInv, Ends, Place, Busy

\* The same for what the others have seen, where the row is not in a maintenance
\* that was not there before, or all at work are earlier than it.
LEMMA EndsSaw ==
  ASSUME TypeInv, SawNone, NEW q \in Request, NEW begins \in BOOLEAN, Ends(q, begins),
         row'.maintenance => row.maintenance \/ begins
  PROVE  SawNone'
  <1> SUFFICES ASSUME NEW r \in Request
               PROVE  /\ at'[r] \in {"writing", "passed"} => ~seen'[r].maintenance
                      /\ row'.maintenance /\ at'[r] # "idle" /\ ~seen'[r].maintenance
                           => r \in earlier'
    BY DEF SawNone
  <1>1. CASE r = q
    BY <1>1 DEF Ends, TypeInv
  <1>2. CASE r # q
    <2>1. at'[r] = at[r] /\ seen'[r] = seen[r]
      BY <1>2 DEF Ends, TypeInv
    <2>2. earlier' = (IF begins THEN Busy ELSE earlier) \ {q}
      BY DEF Ends
    <2>3. at[r] # "idle" => r \in Busy
      BY DEF Busy
    <2> QED BY <1>2, <2>1, <2>2, <2>3 DEF SawNone
  <1> QED BY <1>1, <1>2

\* A handler that goes on has not seen maintenance.
LEMMA GoesKeeps ==
  ASSUME TypeInv, SawNone, NEW q \in Request, NEW to \in {"writing", "passed"},
         Goes(q, to), at[q] = "read", ~seen[q].maintenance, row' = row
  PROVE  TypeInv' /\ SawNone'
  <1>1. TypeInv'
    BY DEF TypeInv, Goes, Place
  <1>2. SawNone'
    BY DEF TypeInv, SawNone, Goes
  <1> QED BY <1>1, <1>2

\* A handler that arrives has read the row as it is.
LEMMA ArrivesKeeps ==
  ASSUME TypeInv, SawNone, NEW q \in Request, NEW what \in {"work", "load", "save"},
         NEW a \in Admin, Arrives(q, what, a),
         page' \in [Admin -> Config], body' \in [Request -> Config]
  PROVE  TypeInv' /\ SawNone'
  <1>1. TypeInv'
    BY DEF TypeInv, Arrives, Place
  <1>2. SawNone'
    BY DEF TypeInv, SawNone, Arrives
  <1> QED BY <1>1, <1>2

\* Every step keeps the invariant.
LEMMA NextIInv == IInv /\ [Next]_vars => IInv'
  <1> SUFFICES ASSUME IInv, [Next]_vars PROVE IInv'
    OBVIOUS
  <1>0. TypeInv /\ MapCounts /\ SawNone /\ Default \in Config
    BY DEF IInv, Default, Config
  <1>1. ASSUME NEW q \in Request, WorkArrives(q) PROVE IInv'
    <2>1. admin[q] \in Admin /\ Arrives(q, "work", admin[q])
      BY <1>0, <1>1 DEF WorkArrives, TypeInv
    <2>2. TypeInv' /\ SawNone'
      BY <1>0, <1>1, <2>1, ArrivesKeeps DEF WorkArrives, TypeInv
    <2> QED BY <1>0, <2>1, <2>2 DEF IInv, MapCounts, Arrives
  <1>2. ASSUME NEW q \in Request, NEW a \in Admin, LoadArrives(q, a) PROVE IInv'
    <2>1. TypeInv' /\ SawNone'
      BY <1>0, <1>2, ArrivesKeeps DEF LoadArrives, TypeInv
    <2> QED BY <1>0, <1>2, <2>1 DEF IInv, MapCounts, LoadArrives, Arrives
  <1>3. ASSUME NEW q \in Request, NEW a \in Admin, SaveArrives(q, a) PROVE IInv'
    <2>1. PICK field \in DOMAIN Default, value \in BOOLEAN :
            page' = [page EXCEPT ![a][field] = value]
      BY <1>3 DEF SaveArrives
    <2>2. page[a] \in Config /\ field \in {"maintenance", "failNext", "errors"}
      BY <1>0, <2>1 DEF TypeInv, Default
    <2>3. [page[a] EXCEPT ![field] = value] \in Config
      BY <2>2 DEF Config
    <2>4. page' \in [Admin -> Config]
      BY <1>0, <2>1, <2>3 DEF TypeInv
    <2>5. TypeInv' /\ SawNone'
      BY <1>0, <1>3, <2>4, ArrivesKeeps DEF SaveArrives, TypeInv
    <2> QED BY <1>0, <1>3, <2>5 DEF IInv, MapCounts, SaveArrives, Arrives
  <1>4. ASSUME NEW q \in Request, MaintenanceThrows(q) \/ RandomlyFails(q) PROVE IInv'
    <2>1. Ends(q, FALSE) /\ UNCHANGED <<page, row, spent, victims>>
      BY <1>4 DEF MaintenanceThrows, RandomlyFails, Fails
    <2>2. TypeInv'
      BY <1>0, <2>1, EndsType DEF TypeInv
    <2>3. SawNone'
      BY <1>0, <2>1, EndsSaw
    <2> QED BY <1>0, <2>1, <2>2, <2>3 DEF IInv, MapCounts
  <1>5. ASSUME NEW q \in Request, FailNextTakes(q) PROVE IInv'
    <2>1. TypeInv' /\ SawNone'
      BY <1>0, <1>5, GoesKeeps DEF FailNextTakes
    <2>2. MapCounts'
      BY <1>0, <1>5 DEF FailNextTakes, MapCounts
    <2> QED BY <2>1, <2>2 DEF IInv
  <1>6. ASSUME NEW q \in Request, WritesBack(q) PROVE IInv'
    <2>1. Ends(q, FALSE) /\ UNCHANGED <<page, spent, victims>>
      BY <1>6 DEF WritesBack, Fails
    <2>2. row' \in Config /\ ~row'.maintenance
      BY <1>0, <1>6 DEF WritesBack, TypeInv, SawNone, Config
    <2>3. TypeInv'
      BY <1>0, <2>1, <2>2, EndsType DEF TypeInv
    <2>4. SawNone'
      BY <1>0, <2>1, <2>2, EndsSaw
    <2> QED BY <1>0, <2>1, <2>3, <2>4 DEF IInv, MapCounts
  <1>7. ASSUME NEW q \in Request, Passes(q) PROVE IInv'
    <2>1. TypeInv' /\ SawNone'
      BY <1>0, <1>7, GoesKeeps DEF Passes
    <2>2. MapCounts'
      BY <1>0, <1>7 DEF Passes, Clears, MapCounts
    <2> QED BY <2>1, <2>2 DEF IInv
  <1>8. ASSUME NEW q \in Request, WorkDone(q) \/ LoadDone(q) PROVE IInv'
    <2>1. Ends(q, FALSE) /\ UNCHANGED <<row, spent, victims>>
      BY <1>8 DEF WorkDone, LoadDone
    <2>2. page' \in [Admin -> Config]
      BY <1>0, <1>8 DEF WorkDone, LoadDone, TypeInv
    <2>3. TypeInv'
      BY <1>0, <2>1, <2>2, EndsType DEF TypeInv
    <2>4. SawNone'
      BY <1>0, <2>1, EndsSaw
    <2> QED BY <1>0, <2>1, <2>3, <2>4 DEF IInv, MapCounts
  <1>9. ASSUME NEW q \in Request, SaveDone(q) PROVE IInv'
    <2> DEFINE begins == body[q].maintenance /\ ~row.maintenance
    <2>1. begins \in BOOLEAN /\ Ends(q, begins) /\ UNCHANGED <<page, spent, victims>>
      BY <1>0, <1>9 DEF SaveDone, TypeInv, Config
    <2>2. row' = body[q] /\ row' \in Config /\ row'.maintenance \in BOOLEAN
      BY <1>0, <1>9 DEF SaveDone, TypeInv, Config
    <2>3. row'.maintenance => row.maintenance \/ begins
      BY <2>2
    <2>4. TypeInv'
      BY <1>0, <2>1, <2>2, EndsType DEF TypeInv
    <2> HIDE DEF begins
    <2>5. SawNone'
      BY <1>0, <2>1, <2>3, EndsSaw
    <2> QED BY <1>0, <2>1, <2>4, <2>5 DEF IInv, MapCounts
  <1>10. CASE Restart
    <2>1. TypeInv'
      BY <1>0, <1>10 DEF TypeInv, Restart, Place
    <2>2. \A q \in Request : at'[q] = "idle"
      BY <1>10 DEF Restart
    <2>3. SawNone'
      BY <2>2 DEF SawNone
    <2>4. MapCounts'
      BY <1>10 DEF MapCounts, Restart
    <2> QED BY <2>1, <2>3, <2>4 DEF IInv
  <1>11. CASE UNCHANGED vars
    BY <1>11 DEF vars, handlers, history, IInv, TypeInv, MapCounts, SawNone
  <1> QED BY <1>1, <1>2, <1>3, <1>4, <1>5, <1>6, <1>7, <1>8, <1>9, <1>10, <1>11 DEF Next
-----------------------------------------------------------------------------
\* However many requests have read the armed row, "fail next" fails one of them
\* before another finds the row disarmed.
THEOREM FailsOnceHolds == Spec => []FailsOnce
  <1>1. IInv => FailsOnce
    BY DEF IInv, MapCounts, FailsOnce
  <1> QED BY <1>1, InitIInv, NextIInv, PTL DEF Spec

\* Whatever writes the row without maintenance was at work before the maintenance.
LEMMA StepMaintenance ==
  ASSUME IInv, [Next]_vars, row.maintenance, ~row'.maintenance
  PROVE  \E q \in earlier : at[q] # "idle" /\ at'[q] = "idle"
  <1>0. TypeInv /\ SawNone
    BY DEF IInv
  <1>1. row' # row
    OBVIOUS
  <1>2. PICK q \in Request : WritesBack(q) \/ SaveDone(q)
    BY <1>1 DEF Next, vars, WorkArrives, LoadArrives, SaveArrives, Arrives,
       MaintenanceThrows, FailNextTakes, Passes, RandomlyFails, WorkDone, LoadDone, Restart
  <1>3. at[q] \in {"writing", "passed"} /\ \E begins \in BOOLEAN : Ends(q, begins)
    <2>1. CASE WritesBack(q)
      BY <2>1 DEF WritesBack, Fails
    <2>2. CASE SaveDone(q)
      <3>1. (body[q].maintenance /\ ~row.maintenance) \in BOOLEAN
        OBVIOUS
      <3> QED BY <2>2, <3>1 DEF SaveDone
    <2> QED BY <1>2, <2>1, <2>2
  <1>4. q \in earlier
    BY <1>0, <1>3 DEF SawNone
  <1>5. at[q] # "idle" /\ at'[q] = "idle"
    BY <1>0, <1>3 DEF TypeInv, Ends
  <1> QED BY <1>4, <1>5

\* No request that comes in during maintenance ends it, for any number of pages and
\* handlers: only one that was already at work may still write an older row back.
THEOREM MaintenanceTheorem == Spec => MaintenanceHolds
  <1>1. IInv /\ [Next]_vars =>
          [row.maintenance /\ ~row'.maintenance =>
             \E q \in earlier : at[q] # "idle" /\ at'[q] = "idle"]_vars
    BY StepMaintenance
  <1> QED BY <1>1, InitIInv, NextIInv, PTL DEF Spec, MaintenanceHolds
=============================================================================
