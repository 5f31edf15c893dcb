----------------------- MODULE BrowserReceiptsProofs -----------------------
(***************************************************************************)
(* What the receipts guarantee for any number of attempts, hotels and      *)
(* faults.  DeskKnows carries it: a page is told "ok" only when the PMS    *)
(* of its session has the write and, for a row, the receipt; an insert     *)
(* that is about to be recorded is the one row of its hotel; and a worker  *)
(* that finds no row of its own has had its session in another hotel.      *)
(***************************************************************************)
EXTENDS BrowserReceipts, TLAPS

USE AttemptsAssumption, HotelAssumption, FaultsAssumption

\* Where an attempt is in the worker tells what its route handler has done.
DeskKnows ==
  \A a \in Attempts :
    /\ handler[a] = "none" => session[a] = None \/ worker[a] = "failure"
    /\ handler[a] # "none" => session[a] \in Hotel /\ (creates \/ session[a] = Home)
    /\ a \in writes => handler[a] # "none"
    /\ handler[a] = "check" => creates
    /\ handler[a] = "record" => creates /\ a \in writes
    /\ handler[a] = "ok" => /\ Written(session[a]) # {}
                            /\ creates => receipt[session[a]] # {}
    /\ worker[a] \in {"idle", "lookup", "submit"} =>
         session[a] = None /\ handler[a] = "none"
    /\ worker[a] \in {"find", "record", "answer"} => handler[a] = "ok"
    /\ worker[a] = "record" => Resource # {}
    /\ worker[a] = "answer" => creates /\ session[a] # Home

IInv == TypeOK /\ CreatedOnce /\ SuccessIsRecorded /\ ReceiptIsReal /\ DeskKnows

\* Nothing is written before the first attempt.
LEMMA InitIInv == Init => IInv
<1>1. SUFFICES ASSUME Init PROVE IInv
  OBVIOUS
<1>2. TypeOK
  BY <1>1 DEF Init, TypeOK
<1>3. QED
  BY <1>1, <1>2 DEF Init, IInv, CreatedOnce, SuccessIsRecorded, ReceiptIsReal,
                    DeskKnows, Rows, Written, Resource

\* The worker upserts the resource the PMS has in the tenant's hotel, and the one
\* on record there if there is one.
LEMMA UpsertReal ==
  ASSUME IInv, creates \/ writes # {}, Upsert
  PROVE  /\ receipt' \in [Hotel -> SUBSET (Attempts \cup {Reservation})]
         /\ receipt'[Home] # {} /\ receipt'[Home] \subseteq Written(Home)
         /\ \A h \in Hotel : h # Home => receipt'[h] = receipt[h]
         /\ receipt[Home] # {} => receipt'[Home] = receipt[Home]
<1>1. PICK r \in Resource : receipt' = [receipt EXCEPT ![Home] = {r}]
  BY DEF Upsert
<1>2. Resource = Written(Home) /\ Resource \subseteq Attempts \cup {Reservation}
  BY DEF IInv, TypeOK, Resource, Written, Rows
<1>3. \A p, q \in Resource : p = q
  BY DEF IInv, CreatedOnce, Resource
<1>4. receipt[Home] # {} => receipt[Home] = {r}
  BY <1>1, <1>2, <1>3 DEF IInv, ReceiptIsReal
<1>5. receipt'[Home] = {r} /\ \A h \in Hotel : h # Home => receipt'[h] = receipt[h]
  BY <1>1 DEF IInv, TypeOK
<1>6. QED
  BY <1>1, <1>2, <1>4, <1>5 DEF IInv, TypeOK

\* A step that neither logs in nor writes leaves what is written as it is.
LEMMA WrittenKept ==
  ASSUME UNCHANGED <<creates, session, writes>>
  PROVE  /\ \A h \in Hotel : Rows(h)' = Rows(h) /\ Written(h)' = Written(h)
         /\ Resource' = Resource
  BY DEF Rows, Written, Resource

\* So does a login: nothing has been written in it.
LEMMA WrittenKeptByLogin ==
  ASSUME IInv, NEW a \in Attempts, handler[a] = "none", NEW h \in Hotel,
         session' = [session EXCEPT ![a] = h], UNCHANGED <<creates, writes>>
  PROVE  /\ \A g \in Hotel : Rows(g)' = Rows(g) /\ Written(g)' = Written(g)
         /\ Resource' = Resource
<1>1. a \notin writes
  BY DEF IInv, DeskKnows
<1>2. \A g \in Hotel : Rows(g)' = Rows(g)
  BY <1>1 DEF Rows, IInv, TypeOK
<1>3. QED
  BY <1>2 DEF Written, Resource

\* Every step of a worker, a route handler and Temporal keeps the invariant.
LEMMA NextIInv == IInv /\ [Next]_vars => IInv'
<1>1. SUFFICES ASSUME IInv, [Next]_vars PROVE IInv'
  OBVIOUS
<1> USE <1>1 DEF Works, Handles
<1> DEFINE SameRows ==
      /\ \A h \in Hotel : Rows(h)' = Rows(h) /\ Written(h)' = Written(h)
      /\ Resource' = Resource
<1>2. ASSUME NEW a \in Attempts, Begin(a) PROVE IInv'
  <2>1. SameRows
    BY <1>2, WrittenKept DEF Begin
  <2>2. QED
    BY <1>2, <2>1 DEF Begin, IInv, TypeOK, CreatedOnce, SuccessIsRecorded,
                      ReceiptIsReal, DeskKnows, Desk
<1>3. ASSUME NEW a \in Attempts, FindExistingReceipt(a) PROVE IInv'
  <2>1. SameRows
    BY <1>3, WrittenKept DEF FindExistingReceipt
  <2>2. worker'[a] = "success" => receipt[Home] # {} /\ Written(Home) # {} /\ Desk(a) = Home
    BY <1>3 DEF FindExistingReceipt, IInv, TypeOK, DeskKnows, ReceiptIsReal, Desk
  <2>3. QED
    BY <1>3, <2>1, <2>2 DEF FindExistingReceipt, IInv, TypeOK, CreatedOnce,
                            SuccessIsRecorded, ReceiptIsReal, DeskKnows, Desk
<1>4. ASSUME NEW a \in Attempts, Submit(a) PROVE IInv'
  <2>1. PICK h \in Hotel : /\ creates \/ h = Home
                           /\ session' = [session EXCEPT ![a] = h]
    BY <1>4 DEF Submit
  <2>2. handler[a] = "none" /\ a \notin writes
    BY <1>4 DEF Submit, IInv, DeskKnows
  <2>3. SameRows
    BY <1>4, <2>1, <2>2, WrittenKeptByLogin DEF Submit
  <2>4. TypeOK'
    BY <1>4, <2>1 DEF Submit, IInv, TypeOK
  <2>5. DeskKnows'
    BY <1>4, <2>1, <2>2, <2>3 DEF Submit, IInv, TypeOK, DeskKnows
  <2>6. QED
    BY <1>4, <2>1, <2>2, <2>3, <2>4, <2>5
       DEF Submit, IInv, TypeOK, CreatedOnce, SuccessIsRecorded, ReceiptIsReal, Desk
<1>5. ASSUME NEW a \in Attempts, ReservationNotFound(a) PROVE IInv'
  <2>1. PICK h \in Hotel \ {Home} : session' = [session EXCEPT ![a] = h]
    BY <1>5 DEF ReservationNotFound
  <2>2. handler[a] = "none" /\ a \notin writes
    BY <1>5 DEF ReservationNotFound, IInv, DeskKnows
  <2>3. SameRows
    BY <1>5, <2>1, <2>2, WrittenKeptByLogin DEF ReservationNotFound
  <2>4. TypeOK'
    BY <1>5, <2>1 DEF ReservationNotFound, IInv, TypeOK
  <2>5. DeskKnows'
    BY <1>5, <2>1, <2>2, <2>3 DEF ReservationNotFound, IInv, TypeOK, DeskKnows
  <2>6. QED
    BY <1>5, <2>1, <2>2, <2>3, <2>4, <2>5
       DEF ReservationNotFound, IInv, TypeOK, CreatedOnce, SuccessIsRecorded,
           ReceiptIsReal, Desk
<1>6. ASSUME NEW a \in Attempts, FindReceiptResource(a) PROVE IInv'
  <2>1. SameRows
    BY <1>6, WrittenKept DEF FindReceiptResource
  <2>2. session[a] \in Hotel /\ creates
    BY <1>6 DEF FindReceiptResource, IInv, DeskKnows
  <2>3. handler'[a] = "ok" => receipt[session[a]] # {} /\ Written(session[a]) # {}
    BY <1>6, <2>2 DEF FindReceiptResource, IInv, TypeOK, Written
  <2>4. QED
    BY <1>6, <2>1, <2>2, <2>3
       DEF FindReceiptResource, IInv, TypeOK, CreatedOnce, SuccessIsRecorded,
           ReceiptIsReal, DeskKnows, Desk
<1>7. ASSUME NEW a \in Attempts, Write(a) PROVE IInv'
  <2>1. session[a] \in Hotel /\ (creates \/ session[a] = Home)
    BY <1>7 DEF Write, IInv, DeskKnows
  <2>2. CASE /\ creates => Rows(session[a]) = {}
             /\ Handles(a, "write", IF creates THEN "record" ELSE "ok")
             /\ writes' = writes \cup {a}
    <3>1. UNCHANGED <<creates, worker, session, overdue, receipt, faults>>
      BY <1>7 DEF Write
    <3>2. \A h \in Hotel : Rows(h)' = IF h = session[a] THEN Rows(h) \cup {a} ELSE Rows(h)
      BY <2>1, <2>2, <3>1 DEF Rows, IInv, TypeOK
    <3>3. \A h \in Hotel : Written(h) \subseteq Written(h)'
      BY <2>2, <3>1, <3>2 DEF Written
    <3>4. Written(session[a])' # {}
      BY <2>1, <2>2, <3>1, <3>2 DEF Written
    <3>5. Resource \subseteq Resource'
      BY <3>1, <3>2 DEF Resource
    <3>6. CreatedOnce'
      BY <2>1, <2>2, <3>1, <3>2 DEF CreatedOnce, IInv
    <3>7. TypeOK' /\ ReceiptIsReal'
      BY <2>2, <3>1, <3>3 DEF IInv, TypeOK, ReceiptIsReal
    <3>8. SuccessIsRecorded'
      <4>1. \A b \in Attempts : worker[b] = "success" => Desk(b) \in Hotel
        BY DEF IInv, TypeOK, Desk
      <4>2. QED
        BY <3>1, <3>3, <4>1 DEF IInv, SuccessIsRecorded, Desk
    <3>9. DeskKnows'
      BY <2>1, <2>2, <3>1, <3>3, <3>4, <3>5 DEF IInv, TypeOK, DeskKnows
    <3>10. QED
      BY <3>6, <3>7, <3>8, <3>9 DEF IInv
  <2>3. CASE creates /\ Handles(a, "write", "error") /\ UNCHANGED writes
    <3>1. SameRows
      BY <1>7, <2>3, WrittenKept DEF Write
    <3>2. QED
      BY <1>7, <2>3, <3>1
         DEF Write, IInv, TypeOK, CreatedOnce, SuccessIsRecorded, ReceiptIsReal,
             DeskKnows, Desk
  <2>4. QED
    BY <1>7, <2>2, <2>3 DEF Write
<1>8. ASSUME NEW a \in Attempts, RecordBrowserReceipt(a) PROVE IInv'
  <2>1. SameRows
    BY <1>8, WrittenKept DEF RecordBrowserReceipt
  <2>2. session[a] \in Hotel /\ creates /\ a \in writes
    BY <1>8 DEF RecordBrowserReceipt, IInv, DeskKnows
  <2>3. {a} \subseteq Written(session[a])
    BY <2>2 DEF Written, Rows
  <2>4. receipt'[session[a]] = {a} /\ \A h \in Hotel : h # session[a] => receipt'[h] = receipt[h]
    BY <1>8, <2>2 DEF RecordBrowserReceipt, IInv, TypeOK
  <2>5. TypeOK' /\ ReceiptIsReal'
    BY <1>8, <2>1, <2>2, <2>3, <2>4 DEF RecordBrowserReceipt, IInv, TypeOK, ReceiptIsReal
  <2>6. SuccessIsRecorded'
    BY <1>8, <2>1, <2>2, <2>4 DEF RecordBrowserReceipt, IInv, TypeOK, SuccessIsRecorded, Desk
  <2>7. DeskKnows'
    BY <1>8, <2>1, <2>2, <2>3, <2>4 DEF RecordBrowserReceipt, IInv, TypeOK, DeskKnows
  <2>8. QED
    BY <1>8, <2>1, <2>5, <2>6, <2>7 DEF RecordBrowserReceipt, IInv, CreatedOnce
<1>9. ASSUME NEW a \in Attempts, Reply(a) PROVE IInv'
  <2>1. SameRows
    BY <1>9, WrittenKept DEF Reply
  <2>2. QED
    BY <1>9, <2>1 DEF Reply, IInv, TypeOK, CreatedOnce, SuccessIsRecorded,
                      ReceiptIsReal, DeskKnows, Desk
<1>10. ASSUME NEW a \in Attempts, ExecuteTaskAction(a) PROVE IInv'
  <2>1. SameRows
    BY <1>10, WrittenKept DEF ExecuteTaskAction
  <2>2. handler[a] = "ok" /\ Written(session[a]) # {} /\ session[a] \in Hotel
    BY <1>10 DEF ExecuteTaskAction, IInv, DeskKnows
  <2>3. Resource = {} => creates /\ session[a] # Home
    BY <2>2 DEF Resource, Written
  <2>4. CASE creates
    BY <1>10, <2>1, <2>2, <2>3, <2>4
       DEF ExecuteTaskAction, IInv, TypeOK, CreatedOnce, SuccessIsRecorded,
           ReceiptIsReal, DeskKnows, Desk
  <2>5. CASE ~creates
    <3>1. writes # {} /\ Upsert
      BY <1>10, <2>2, <2>5 DEF ExecuteTaskAction, Written
    <3>2. QED
      BY <1>10, <2>1, <2>2, <2>3, <2>5, <3>1, UpsertReal
         DEF ExecuteTaskAction, IInv, TypeOK, CreatedOnce, SuccessIsRecorded,
             ReceiptIsReal, DeskKnows, Desk
  <2>6. QED
    BY <2>4, <2>5
<1>11. ASSUME NEW a \in Attempts, RecordAndAnswer(a) PROVE IInv'
  <2>1. SameRows
    BY <1>11, WrittenKept DEF RecordAndAnswer
  <2>2. handler[a] = "ok" /\ Written(session[a]) # {} /\ session[a] \in Hotel
    BY <1>11 DEF RecordAndAnswer, IInv, DeskKnows
  <2>3. creates \/ writes # {}
    BY <2>2 DEF Written
  <2>4. creates \/ session[a] = Home
    BY <2>2 DEF IInv, DeskKnows
  <2>5. Desk(a)' = session[a] /\ \A b \in Attempts : Desk(b)' = Desk(b)
    BY <1>11, <2>2, HotelAssumption DEF RecordAndAnswer, Desk
  <2>6. receipt'[session[a]] # {}
    BY <1>11, <2>2, <2>3, <2>4, UpsertReal DEF RecordAndAnswer, IInv, DeskKnows
  <2>7. \A h \in Hotel : receipt[h] # {} => receipt'[h] # {}
    BY <1>11, <2>3, UpsertReal DEF RecordAndAnswer
  <2>8. \A b \in Attempts : Desk(b) \in Hotel
    BY DEF IInv, TypeOK, Desk
  <2>9. SuccessIsRecorded'
    BY <1>11, <2>1, <2>2, <2>5, <2>6, <2>7, <2>8
       DEF RecordAndAnswer, IInv, TypeOK, SuccessIsRecorded
  <2>10. DeskKnows'
    BY <1>11, <2>1, <2>7 DEF RecordAndAnswer, IInv, TypeOK, DeskKnows
  <2>11. TypeOK' /\ ReceiptIsReal'
    BY <1>11, <2>1, <2>3, UpsertReal DEF RecordAndAnswer, IInv, TypeOK, ReceiptIsReal
  <2>12. QED
    BY <1>11, <2>1, <2>9, <2>10, <2>11 DEF RecordAndAnswer, IInv, CreatedOnce
<1>12. ASSUME NEW a \in Attempts, AnswerUnrecorded(a) PROVE IInv'
  <2>1. SameRows
    BY <1>12, WrittenKept DEF AnswerUnrecorded
  <2>2. handler[a] = "ok" /\ creates /\ session[a] \in Hotel
    BY <1>12 DEF AnswerUnrecorded, IInv, DeskKnows
  <2>3. Written(session[a]) # {} /\ receipt[session[a]] # {} /\ Desk(a) = session[a]
    BY <2>2, HotelAssumption DEF IInv, DeskKnows, Desk
  <2>4. QED
    BY <1>12, <2>1, <2>2, <2>3
       DEF AnswerUnrecorded, IInv, TypeOK, CreatedOnce, SuccessIsRecorded,
           ReceiptIsReal, DeskKnows, Desk
<1>13. ASSUME NEW a \in Attempts, Failures(a) PROVE IInv'
  <2>1. SameRows
    BY <1>13, WrittenKept DEF Failures, WorkerFails, BannerTimeout, RouteFails,
                              WorkerCrash, StartToCloseTimeout
  <2> USE <2>1 DEF Fault, IInv, TypeOK, CreatedOnce, SuccessIsRecorded,
                   ReceiptIsReal, DeskKnows, Desk
  <2>2. CASE WorkerFails(a)
    BY <2>2 DEF WorkerFails
  <2>3. CASE BannerTimeout(a)
    BY <2>3 DEF BannerTimeout
  <2>4. CASE RouteFails(a)
    BY <2>4 DEF RouteFails
  <2>5. CASE WorkerCrash(a)
    BY <2>5 DEF WorkerCrash, Active
  <2>6. CASE StartToCloseTimeout(a)
    BY <2>6 DEF StartToCloseTimeout, Active
  <2>7. QED
    BY <1>13, <2>2, <2>3, <2>4, <2>5, <2>6 DEF Failures
<1>14. CASE UNCHANGED vars
  <2>1. SameRows
    BY <1>14, WrittenKept DEF vars
  <2>2. QED
    BY <1>14, <2>1 DEF vars, IInv, TypeOK, CreatedOnce, SuccessIsRecorded,
                       ReceiptIsReal, DeskKnows, Desk
<1>15. QED
  BY <1>2, <1>3, <1>4, <1>5, <1>6, <1>7, <1>8, <1>9, <1>10, <1>11, <1>12, <1>13,
     <1>14 DEF Next, Steps

\* The invariant, at every moment.
LEMMA Invariant == Spec => []IInv
  BY InitIInv, NextIInv, PTL DEF Spec

\* The unique index on (hotel_id, receipt_id) and the receipts together: whatever
\* overlaps, a CREATE action inserts one row in a hotel.
THEOREM CreatedOnceHolds == Spec => []CreatedOnce
<1>1. IInv => CreatedOnce
  BY DEF IInv
<1>2. QED
  BY <1>1, Invariant, PTL

\* executeBrowserTask answers success only for an action performed at the desk of
\* its session, where a receipt is left: in the tenant's hotel or in another.
THEOREM SuccessTheorem == Spec => []SuccessIsRecorded
<1>1. IInv => SuccessIsRecorded
  BY DEF IInv
<1>2. QED
  BY <1>1, Invariant, PTL

\* recordBrowserReceipt and the worker's upsert name a row that exists in the
\* hotel they record it for.
THEOREM ReceiptTheorem == Spec => []ReceiptIsReal
<1>1. IInv => ReceiptIsReal
  BY DEF IInv
<1>2. QED
  BY <1>1, Invariant, PTL

\* A receipt in a hotel says that hotel's row is there, so the unique index lets
\* nobody insert.
LEMMA NoFurtherRow ==
  ASSUME IInv, NEW a \in Attempts, Write(a), creates, NEW h \in Hotel, receipt[h] # {}
  PROVE  Rows(h)' = Rows(h)
<1>1. Rows(h) # {}
  BY DEF IInv, ReceiptIsReal, Written
<1>2. QED
  BY <1>1 DEF Write, Handles, Rows, IInv, TypeOK

\* The two writers of a receipt never disagree, no row follows it in its hotel, and
\* findExistingReceipt answers for what the tenant's hotel has on record.
THEOREM ReceiptIsFinalTheorem == Spec => ReceiptIsFinal
<1>1. ASSUME IInv, Next PROVE KeepsReceipt
  <2>1. PICK a \in Attempts : Begin(a) \/ Steps(a) \/ Failures(a)
    BY <1>1 DEF Next
  <2> USE <1>1 DEF Works, Handles, KeepsReceipt
  <2>2. CASE FindExistingReceipt(a)
    BY <2>2, WrittenKept DEF FindExistingReceipt, IInv, TypeOK
  <2>3. CASE RecordBrowserReceipt(a)
    <3>1. session[a] \in Hotel /\ creates /\ a \in Rows(session[a])
      BY <2>3 DEF RecordBrowserReceipt, IInv, DeskKnows, Rows
    <3>2. receipt[session[a]] \subseteq {a}
      BY <3>1 DEF IInv, CreatedOnce, ReceiptIsReal, Written
    <3>3. QED
      BY <2>3, <3>1, <3>2, WrittenKept DEF RecordBrowserReceipt, IInv, TypeOK
  <2>4. CASE ExecuteTaskAction(a)
    <3>1. CASE creates
      BY <2>4, <3>1, WrittenKept DEF ExecuteTaskAction, IInv, TypeOK
    <3>2. CASE ~creates
      <4>1. writes # {} /\ Upsert
        BY <2>4, <3>2 DEF ExecuteTaskAction, IInv, DeskKnows, Written
      <4>2. QED
        BY <2>4, <3>2, <4>1, UpsertReal DEF ExecuteTaskAction, IInv, TypeOK
    <3>3. QED
      BY <3>1, <3>2
  <2>5. CASE RecordAndAnswer(a)
    <3>1. creates \/ writes # {}
      BY <2>5 DEF RecordAndAnswer, IInv, DeskKnows, Written
    <3>2. \A h \in Hotel : receipt[h] # {} => receipt'[h] = receipt[h]
      BY <2>5, <3>1, UpsertReal DEF RecordAndAnswer
    <3>3. QED
      BY <2>5, <3>2, WrittenKept DEF RecordAndAnswer, IInv, TypeOK
  <2>6. CASE Write(a)
    BY <2>6, NoFurtherRow DEF Write, IInv, TypeOK
  <2>7. CASE Submit(a) \/ ReservationNotFound(a)
    <3>1. handler[a] = "none" /\ \E h \in Hotel : session' = [session EXCEPT ![a] = h]
      BY <2>7 DEF Submit, ReservationNotFound, IInv, DeskKnows
    <3>2. UNCHANGED <<creates, writes, receipt>>
      BY <2>7 DEF Submit, ReservationNotFound
    <3>3. QED
      BY <2>7, <3>1, <3>2, WrittenKeptByLogin DEF Submit, ReservationNotFound, IInv, TypeOK
  <2>8. CASE Begin(a) \/ Reply(a) \/ FindReceiptResource(a) \/ AnswerUnrecorded(a)
    BY <2>8, WrittenKept
       DEF Begin, Reply, FindReceiptResource, AnswerUnrecorded, IInv, TypeOK
  <2>9. CASE Failures(a)
    BY <2>9, WrittenKept
       DEF Failures, WorkerFails, BannerTimeout, RouteFails, WorkerCrash,
           StartToCloseTimeout, IInv, TypeOK
  <2>10. QED
    BY <2>1, <2>2, <2>3, <2>4, <2>5, <2>6, <2>7, <2>8, <2>9 DEF Steps
<1>2. IInv /\ [Next]_vars => [KeepsReceipt]_vars
  BY <1>1
<1>3. QED
  BY <1>2, Invariant, PTL DEF Spec, ReceiptIsFinal

\* Workers, sessions, handlers, rows and receipts keep their types for any attempts,
\* hotels and faults; the invariants above are stated over them.
THEOREM TypeTheorem == Spec => []TypeOK
<1>1. IInv => TypeOK
  BY DEF IInv
<1>2. QED
  BY <1>1, Invariant, PTL
=============================================================================
