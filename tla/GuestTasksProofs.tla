------------------------- MODULE GuestTasksProofs -------------------------
(***************************************************************************)
(* The invariants of GuestTasks and its refinement of RequestLifecycle,    *)
(* for every set of requests, hotels, staff and messages and every bound   *)
(* on tries, failures and acts of the staff.                               *)
(*                                                                         *)
(* TypeInv and then one layer per question.  Understood(r) ties the plan   *)
(* of a request to its type, Consented(r) its stage to the human,          *)
(* Progress(r) the results and verifications to the stage, and Recorded    *)
(* what the bot has written to results, receipts and the reservations.     *)
(* With Consented and Progress each step is, for each request, a step of   *)
(* its lifecycle or a stutter.                                             *)
(***************************************************************************)
EXTENDS GuestTasks, TLAPS

USE CasesAssumption, BoundsAssumption

\* The two loops over a plan keep a mark for each of its tasks.
Result == {"none", "ok", "failed"}
Verdicts == {"none", "yes", "no"}
Marks(S) == [{} -> S] \cup [{1} -> S] \cup [{1, 2} -> S]

DeskOK ==
  /\ \A row \in rows : row.hotel \in Hotel /\ IsCreate(row.taskType) /\ row.room \in Room
  /\ \A receipt \in receipts : receipt[1] \in Hotel
  /\ reservation \in [Hotel -> [status : ReservationStatus, notes : Notes]]
  /\ staffPage \in [Staff -> {Closed} \cup [hotel : Hotel, status : ReservationStatus,
                                            notes : Notes]]

WordsOK ==
  /\ [message |-> message, home |-> home] \in Cases
  /\ message \in [Request -> Message] /\ home \in [Request -> Hotel]
  /\ requestType \in [Request -> RequestType \cup {None}]
  /\ plan \in [Request -> Seq(Task)]
  /\ human \in [Request -> {"none", "asked", "granted", "refused"}]

LoopOK ==
  /\ stage \in [Request -> Stage]
  /\ current \in [Request -> {1, 2}]
  /\ tries \in [Request -> 1 .. MaxTries]
  /\ result \in [Request -> Marks(Result)]
  /\ verified \in [Request -> Marks(Verdicts)]
  /\ session \in [Request -> Hotel \cup {None}]

OutcomeOK ==
  /\ status \in [Request -> FinalStatus \cup {None}]
  /\ summary \in [Request -> [completedActions : SUBSET {1, 2}, failedActions : {{}}]]

WritesOK == writes \subseteq [request : Request, task : {1, 2}, hotel : Hotel,
                              status : ReservationStatus]

BoundsOK == faults \in 0 .. MaxFaults /\ acts \in 0 .. MaxActs

TypeInv == DeskOK /\ WordsOK /\ LoopOK /\ OutcomeOK /\ WritesOK /\ BoundsOK
-----------------------------------------------------------------------------
Early   == {"received", "classified", "planned", "waiting", "refused"}
Acting  == {"execute", "form", "submitted"}
Working == Acting \cup {"verify", "finish"}

\* A human has to agree to a cancellation, and to nothing else.
Gated(task) == task.requiresApproval <=> task.taskType = "CANCEL_RESERVATION"

\* A request has the plan of its type, each task of which is gated.
Understood(r) ==
  /\ stage[r] \in {"received", "classified"} => plan[r] = <<>>
  /\ stage[r] = "classified" =>
       /\ requestType[r] = ClassifyByPattern(message[r].words)
       /\ requestType[r] # "UNSUPPORTED"
  /\ plan[r] = <<>> \/ DOMAIN plan[r] \in {{1}, {1, 2}}
  /\ stage[r] \notin {"received", "classified", "done"} => plan[r] # <<>>
  /\ \A i \in DOMAIN plan[r] : Gated(plan[r][i])

\* No task is handed to the worker without the consent it needs.
Consented(r) ==
  /\ stage[r] \in {"received", "classified", "planned"} => human[r] = "none"
  /\ stage[r] = "waiting" => human[r] = "asked" /\ NeedsHuman(r)
  /\ stage[r] = "refused" => human[r] = "refused"
  /\ stage[r] \in Working =>
       human[r] = "granted" \/ (human[r] = "none" /\ ~NeedsHuman(r))

\* The loop over the tasks is over for good.
Ended(type, res) ==
  \/ \A i \in DOMAIN res : res[i] # "none"
  \/ type # "MULTI_ACTION" /\ \E i \in DOMAIN res : res[i] = "failed"

\* Nothing is verified before everything is executed.
Progress(r) ==
  /\ DOMAIN result[r] = DOMAIN plan[r] /\ DOMAIN verified[r] = DOMAIN plan[r]
  /\ stage[r] \in Acting \cup {"verify"} => current[r] \in DOMAIN plan[r]
  /\ stage[r] = "done" <=> status[r] # None
  /\ stage[r] \in Early =>
       /\ current[r] = 1 /\ tries[r] = 1
       /\ \A i \in DOMAIN plan[r] : result[r][i] = "none" /\ verified[r][i] = "none"
  /\ stage[r] \in Acting =>
       /\ result[r][current[r]] = "none"
       /\ \A i \in DOMAIN plan[r] : verified[r][i] = "none"
  /\ stage[r] \in {"form", "submitted"} =>
       session[r] \in IF IsCreate(TaskOf(r).taskType) THEN Hotel ELSE {home[r]}
  /\ stage[r] = "verify" =>
       result[r][current[r]] = "ok" /\ verified[r][current[r]] = "none"
  /\ stage[r] \in {"verify", "finish"} => Ended(requestType[r], result[r])
  /\ stage[r] = "finish" =>
       \A i \in DOMAIN plan[r] : result[r][i] = "ok" => verified[r][i] # "none"
  /\ status[r] = "COMPLETED" =>
       \A i \in DOMAIN plan[r] : result[r][i] = "ok" /\ verified[r][i] = "yes"
  /\ \A i \in summary[r].completedActions : i \in DOMAIN plan[r] /\ result[r][i] = "ok"

\* What has succeeded, is about to or has a receipt was written to a PMS; a write
\* to a reservation is to the guest's own, a cancellation was granted by a human,
\* and what finds a reservation cancelled leaves it so, in which case no
\* verification of a modification is passed.
Sound(w) ==
  LET type == plan[w.request][w.task].taskType IN
  /\ w.task \in DOMAIN plan[w.request]
  /\ IsCreate(type) \/ w.hotel = home[w.request]
  /\ type = "CANCEL_RESERVATION" => human[w.request] = "granted"
  /\ w.status = "CANCELLED" => reservation[w.hotel].status = "CANCELLED"
  /\ type = "MODIFY_RESERVATION" /\ w.status = "CANCELLED" =>
       verified[w.request][w.task] # "yes"

Backed(r, i) ==
  \/ i \in DOMAIN plan[r] /\ result[r][i] = "ok"
  \/ stage[r] = "submitted" /\ current[r] = i
  \/ \E hotel \in Hotel : <<hotel, <<r, i>>>> \in receipts

Recorded ==
  /\ \A r \in Request : \A i \in {1, 2} : Backed(r, i) => WritesOf(r, i) # {}
  /\ \A w \in writes : Sound(w)

Standing(r) == Understood(r) /\ Consented(r) /\ Progress(r)

Inv ==
  /\ Recorded
  /\ \A r \in Request : Standing(r)

-----------------------------------------------------------------------------
\* The empty sequence is a loop with nothing to mark.
LEMMA NothingMarked == <<>> \in Seq(Task) /\ DOMAIN <<>> = {} /\ \A S : <<>> \in Marks(S)
<1>1. <<>> \in Seq(Task) /\ DOMAIN <<>> = {}
  OBVIOUS
<1>2. ASSUME NEW S PROVE <<>> \in Marks(S)
  <2>1. <<>> \in Seq(S) /\ Len(<<>>) = 0
    OBVIOUS
  <2>2. <<>> = [i \in {} |-> 0]
    BY <1>1, <2>1
  <2>3. QED
    BY <1>1, <2>1, <2>2 DEF Marks
<1>3. QED
  BY <1>1, <1>2

\* The first try is one of those allowed.
LEMMA OneTry == MaxTries \in Nat /\ 1 \in 1 .. MaxTries
  BY BoundsAssumption

\* Requests that have just been received satisfy the invariant.
LEMMA InitInv == Init => TypeInv /\ Inv
<1>1. SUFFICES ASSUME Init PROVE TypeInv /\ Inv
  OBVIOUS
<1>2. PICK case \in Cases : message = case.message /\ home = case.home
  BY <1>1 DEF Init
<1>3. /\ message \in [Request -> Message] /\ home \in [Request -> Hotel]
      /\ [message |-> message, home |-> home] \in Cases
  BY <1>2
<1>4. ASSUME NEW r \in Request
      PROVE  /\ stage[r] = "received" /\ human[r] = "none"
             /\ requestType[r] = "none" /\ status[r] = "none"
             /\ plan[r] = <<>> /\ result[r] = <<>> /\ verified[r] = <<>>
             /\ current[r] = 1 /\ tries[r] = 1
             /\ summary[r].completedActions = {}
  BY <1>1, <1>4 DEF Init, None, NoSummary, SummarizeEscalation
<1>5. DeskOK
  <2>1. reservation \in [Hotel -> [status : ReservationStatus, notes : Notes]]
    BY <1>1 DEF Init, ReservationStatus, Notes
  <2>2. rows = {} /\ receipts = {} /\ staffPage = [s \in Staff |-> Closed]
    BY <1>1 DEF Init
  <2>3. QED
    BY <2>1, <2>2 DEF DeskOK
<1>6. WordsOK
  <2>1. /\ requestType \in [Request -> RequestType \cup {None}]
        /\ human \in [Request -> {"none", "asked", "granted", "refused"}]
    BY <1>1 DEF Init
  <2>2. plan \in [Request -> Seq(Task)]
    BY <1>1, NothingMarked DEF Init
  <2>3. QED
    BY <1>3, <2>1, <2>2 DEF WordsOK
<1>7. LoopOK
  <2>1. /\ stage \in [Request -> Stage] /\ current \in [Request -> {1, 2}]
        /\ session \in [Request -> Hotel \cup {None}]
    BY <1>1 DEF Init, Stage
  <2>2. tries \in [Request -> 1 .. MaxTries]
    BY <1>1, OneTry DEF Init
  <2>3. /\ result \in [Request -> Marks(Result)]
        /\ verified \in [Request -> Marks(Verdicts)]
    BY <1>1, NothingMarked DEF Init
  <2>4. QED
    BY <2>1, <2>2, <2>3 DEF LoopOK
<1>8. OutcomeOK /\ WritesOK
  <2>1. writes = {} /\ status \in [Request -> FinalStatus \cup {None}]
    BY <1>1 DEF Init
  <2>2. summary \in [Request -> [completedActions : SUBSET {1, 2},
                                 failedActions : {{}}]]
    BY <1>1 DEF Init, NoSummary, SummarizeEscalation
  <2>3. QED
    BY <2>1, <2>2 DEF OutcomeOK, WritesOK
<1>9. BoundsOK
  <2>1. faults = 0 /\ acts = 0
    BY <1>1 DEF Init
  <2>2. QED
    BY <2>1, BoundsAssumption DEF BoundsOK
<1>10. Recorded
  <2>1. receipts = {} /\ writes = {}
    BY <1>1 DEF Init
  <2>2. \A r \in Request : DOMAIN plan[r] = {}
    BY <1>4, NothingMarked
  <2>3. QED
    BY <1>4, <2>1, <2>2 DEF Recorded, Backed
<1>11. ASSUME NEW r \in Request PROVE Understood(r) /\ Consented(r) /\ Progress(r)
  <2>1. DOMAIN plan[r] = {} /\ DOMAIN result[r] = {} /\ DOMAIN verified[r] = {}
    BY <1>4, NothingMarked
  <2>2. QED
    BY <1>4, <2>1 DEF Understood, Consented, Progress, Early, Acting, Working, None
<1>12. QED
  BY <1>5, <1>6, <1>7, <1>8, <1>9, <1>10, <1>11 DEF TypeInv, Inv, Standing

\* A request that has just been received is a new one of the lifecycle.
LEMMA InitRefines == ASSUME NEW r \in Request PROVE Init => Lifecycle(r)!Init
<1>1. SUFFICES ASSUME Init PROVE Lifecycle(r)!Init
  OBVIOUS
<1>2. plan[r] = <<>> /\ human[r] = "none" /\ status[r] = None
  BY <1>1 DEF Init
<1>3. Touched(r) = {}
  BY <1>2, NothingMarked DEF Touched
<1>4. QED
  BY <1>2, <1>3 DEF Lifecycle!Init

-----------------------------------------------------------------------------
(* What the agents make of a message.                                      *)

\* The rule that decides applies, and none of the rules before it does.
LEMMA SomeRuleDecides ==
  ASSUME NEW words
  PROVE  \E i \in 1 .. 9 : /\ ClassifyByPattern(words) = Rules(words)[i].is
                           /\ Rules(words)[i].when
                           /\ \A j \in 1 .. i - 1 : ~Rules(words)[j].when
<1> DEFINE rules == Rules(words)
           Decides(i) == rules[i].when /\ \A j \in 1 .. i - 1 : ~rules[j].when
<1>1. DOMAIN rules = 1 .. 9 /\ rules[9].when
  BY DEF Rules
<1>2. \E i \in 1 .. 9 : Decides(i)
  <2> HIDE DEF rules
  <2>1. CASE rules[1].when
    BY <2>1
  <2>2. CASE ~rules[1].when /\ (rules[2].when \/ rules[3].when)
    BY <2>2, 2 \in 1 .. 9, 3 \in 1 .. 9
  <2>3. CASE /\ ~rules[1].when /\ ~rules[2].when /\ ~rules[3].when
             /\ rules[4].when \/ rules[5].when \/ rules[6].when
    BY <2>3, 4 \in 1 .. 9, 5 \in 1 .. 9, 6 \in 1 .. 9
  <2>4. CASE /\ ~rules[1].when /\ ~rules[2].when /\ ~rules[3].when
             /\ ~rules[4].when /\ ~rules[5].when /\ ~rules[6].when
    BY <1>1, <2>4, 7 \in 1 .. 9, 8 \in 1 .. 9, 9 \in 1 .. 9
  <2>5. QED
    BY <2>1, <2>2, <2>3, <2>4
<1>3. ClassifyByPattern(words) = rules[CHOOSE i \in DOMAIN rules : Decides(i)].is
  BY DEF ClassifyByPattern
<1>4. QED
  <2> HIDE DEF rules
  <2> DEFINE i == CHOOSE i \in 1 .. 9 : Decides(i)
  <2>1. i \in 1 .. 9 /\ Decides(i)
    BY <1>2
  <2>2. ClassifyByPattern(words) = rules[i].is
    BY <1>1, <1>3
  <2>3. QED
    BY <2>1, <2>2 DEF rules

\* Whatever the words are, they make one of the types.
LEMMA TypeOfWords == \A words : ClassifyByPattern(words) \in RequestType
<1>1. SUFFICES ASSUME NEW words PROVE ClassifyByPattern(words) \in RequestType
  OBVIOUS
<1>2. PICK i \in 1 .. 9 : ClassifyByPattern(words) = Rules(words)[i].is
  BY SomeRuleDecides
<1>3. i \in {1, 2, 3, 4, 5, 6, 7, 8, 9}
  BY <1>2
<1>4. Rules(words)[i].is \in RequestType
  BY <1>3 DEF Rules, RequestType
<1>5. QED
  BY <1>2, <1>4

\* A task as planned is gated.
LEMMA PlannedIsTask ==
  ASSUME NEW taskType \in TaskType, NEW room \in Room, NEW text \in RowText,
         NEW named \in BOOLEAN
  PROVE  /\ Planned(taskType, room, text, named) \in Task
         /\ Gated(Planned(taskType, room, text, named))
  BY DEF Planned, Task, Gated

\* A plan has one task or two, each of which is gated.
LEMMA PlanIsGated ==
  ASSUME NEW mes \in Message, NEW c, c = ClassifyRequest(mes),
         NEW made, made = CreatePlan(c, mes)
  PROVE  /\ made \in Seq(Task) /\ DOMAIN made \in {{1}, {1, 2}}
         /\ \A i \in DOMAIN made : Gated(made[i])
<1> DEFINE type == c.requestType
           room == PlanRoom(c, mes)
           Of(taskType, text) == Planned(taskType, room, text, mes.reservation)
<1>1. /\ type = ClassifyByPattern(mes.words) /\ c.time \in RowText
      /\ room \in Room /\ mes.reservation \in BOOLEAN
  <2>1. /\ mes.room \in Room \cup {None} /\ mes.guestRoom \in Room \cup {None}
        /\ mes.time \in Time \cup {None} /\ mes.reservation \in BOOLEAN
    BY DEF Message
  <2>2. /\ type = ClassifyByPattern(mes.words) /\ c.room = ExtractRoomNumber(mes)
        /\ c.time = ExtractWakeUpTime(mes)
    BY DEF ClassifyRequest
  <2>3. room \in Room
    BY <2>1, <2>2 DEF PlanRoom, ExtractRoomNumber, Room
  <2>4. c.time \in RowText
    BY <2>1, <2>2 DEF ExtractWakeUpTime, RowText, Time
  <2>5. QED
    BY <2>1, <2>2, <2>3, <2>4
<1>2. type \in RequestType
  BY <1>1, TypeOfWords
<1>3. \A taskType \in TaskType, text \in RowText :
        Of(taskType, text) \in Task /\ Gated(Of(taskType, text))
  <2> HIDE DEF room
  <2>1. QED
    BY <1>1, PlannedIsTask
<1>4. /\ TaskType = {"CREATE_HOUSEKEEPING_REQUEST", "CREATE_MAINTENANCE_TICKET",
                     "CREATE_WAKE_UP_CALL", "CREATE_RESTAURANT_BOOKING",
                     "MODIFY_RESERVATION", "CANCEL_RESERVATION"}
      /\ {"towels", "issue", "guest", "notes", "reason", "assistance", c.time} \subseteq RowText
  BY <1>1 DEF TaskType, RowText
<1>5. CASE type = "MULTI_ACTION"
  <2> DEFINE towels == Of("CREATE_HOUSEKEEPING_REQUEST", "towels")
             call   == Of("CREATE_WAKE_UP_CALL", c.time)
  <2>1. made = <<towels, call>>
    BY <1>5 DEF CreatePlan
  <2> HIDE DEF Of
  <2>2. towels \in Task /\ Gated(towels) /\ call \in Task /\ Gated(call)
    BY <1>3, <1>4
  <2> HIDE DEF towels, call
  <2>3. /\ <<towels, call>> \in Seq(Task) /\ DOMAIN <<towels, call>> = {1, 2}
        /\ <<towels, call>>[1] = towels /\ <<towels, call>>[2] = call
    BY <2>2
  <2>4. QED
    BY <2>1, <2>2, <2>3
<1>6. CASE type # "MULTI_ACTION"
  <2>1. \E taskType \in TaskType, text \in RowText : made = <<Of(taskType, text)>>
    <3>1. CASE type = "HOUSEKEEPING"
      <4>1. made = <<Of("CREATE_HOUSEKEEPING_REQUEST", "towels")>>
        BY <3>1 DEF CreatePlan
      <4> HIDE DEF Of
      <4>2. QED
        BY <1>4, <4>1
    <3>2. CASE type = "MAINTENANCE"
      <4>1. made = <<Of("CREATE_MAINTENANCE_TICKET", "issue")>>
        BY <3>2 DEF CreatePlan
      <4> HIDE DEF Of
      <4>2. QED
        BY <1>4, <4>1
    <3>3. CASE type = "WAKE_UP_CALL"
      <4>1. made = <<Of("CREATE_WAKE_UP_CALL", c.time)>>
        BY <3>3 DEF CreatePlan
      <4> HIDE DEF Of
      <4>2. QED
        BY <1>4, <4>1
    <3>4. CASE type = "RESTAURANT_BOOKING"
      <4>1. made = <<Of("CREATE_RESTAURANT_BOOKING", "guest")>>
        BY <3>4 DEF CreatePlan
      <4> HIDE DEF Of
      <4>2. QED
        BY <1>4, <4>1
    <3>5. CASE type = "RESERVATION_MODIFICATION"
      <4>1. made = <<Of("MODIFY_RESERVATION", "notes")>>
        BY <3>5 DEF CreatePlan
      <4> HIDE DEF Of
      <4>2. QED
        BY <1>4, <4>1
    <3>6. CASE type = "RESERVATION_CANCELLATION"
      <4>1. made = <<Of("CANCEL_RESERVATION", "reason")>>
        BY <3>6 DEF CreatePlan
      <4> HIDE DEF Of
      <4>2. QED
        BY <1>4, <4>1
    <3>7. CASE type = "UNSUPPORTED"
      <4>1. made = <<Of("CREATE_HOUSEKEEPING_REQUEST", "assistance")>>
        BY <3>7 DEF CreatePlan
      <4> HIDE DEF Of
      <4>2. QED
        BY <1>4, <4>1
    <3>8. QED
      BY <1>2, <1>6, <3>1, <3>2, <3>3, <3>4, <3>5, <3>6, <3>7 DEF RequestType
  <2>2. PICK task \in Task : made = <<task>> /\ Gated(task)
    <3> HIDE DEF Of
    <3>1. QED
      BY <1>3, <2>1
  <2>3. /\ <<task>> \in Seq(Task) /\ DOMAIN <<task>> = {1} /\ <<task>>[1] = task
    OBVIOUS
  <2>4. QED
    BY <2>2, <2>3
<1>7. QED
  BY <1>5, <1>6

-----------------------------------------------------------------------------
(* The loop.                                                               *)

\* The type invariant of the runs is part of this one.
LEMMA TypesOK == TypeInv /\ Inv => TypeOK
  BY DEF TypeInv, DeskOK, WordsOK, LoopOK, OutcomeOK, BoundsOK, Inv, Standing, Progress, TypeOK,
     Acting

\* Where the loop goes from the marks it has made.
Leads(r) ==
  /\ DOMAIN result'[r] = DOMAIN plan[r] /\ DOMAIN verified'[r] = DOMAIN plan[r]
  /\ \/ /\ stage'[r] = "execute" /\ current'[r] \in DOMAIN plan[r]
        /\ result'[r][current'[r]] = "none"
        /\ \A i \in DOMAIN plan[r] : verified'[r][i] = "none"
     \/ /\ stage'[r] = "verify" /\ current'[r] \in DOMAIN plan[r]
        /\ result'[r][current'[r]] = "ok" /\ verified'[r][current'[r]] = "none"
        /\ Ended(requestType[r], result'[r])
     \/ /\ stage'[r] = "finish"
        /\ \A i \in DOMAIN plan[r] : result'[r][i] = "ok" => verified'[r][i] # "none"
        /\ Ended(requestType[r], result'[r])

\* The others' loops stay where they are.
Elsewhere(r) ==
  \A q \in Request \ {r} :
    /\ stage'[q] = stage[q] /\ current'[q] = current[q] /\ tries'[q] = tries[q]
    /\ result'[q] = result[q] /\ verified'[q] = verified[q] /\ session'[q] = session[q]

\* The first of some of the tasks is one of them.
LEMMA LeastOfSome ==
  ASSUME NEW S \in SUBSET {1, 2}, S # {}
  PROVE  (CHOOSE i \in S : \A j \in S : i <= j) \in S
<1>1. \E i \in S : \A j \in S : i <= j
  <2>1. CASE 1 \in S
    <3>1. \A j \in S : 1 <= j
      OBVIOUS
    <3>2. QED
      BY <2>1, <3>1
  <2>2. CASE 1 \notin S
    <3>1. S = {2}
      BY <2>2
    <3>2. QED
      BY <3>1
  <2>3. QED
    BY <2>1, <2>2
<1>2. QED
  BY <1>1

\* A further task is executed or verified, or the loop is over.
LEMMA AdvanceLeads ==
  ASSUME LoopOK, NEW r \in Request, NEW res, NEW ver,
         res = result'[r], ver = verified'[r],
         DOMAIN res = DOMAIN plan[r], DOMAIN ver = DOMAIN plan[r],
         DOMAIN plan[r] \in {{1}, {1, 2}},
         \/ \A i \in DOMAIN ver : ver[i] = "none"
         \/ Ended(requestType[r], res),
         Advance(r, res, ver)
  PROVE  /\ Leads(r) /\ tries'[r] = 1
         /\ stage' \in [Request -> Stage] /\ current' \in [Request -> {1, 2}]
         /\ tries' \in [Request -> 1 .. MaxTries]
         /\ \A q \in Request \ {r} :
              stage'[q] = stage[q] /\ current'[q] = current[q] /\ tries'[q] = tries[q]
<1> DEFINE todo == {i \in DOMAIN res : res[i] = "none"}
           stop == requestType[r] # "MULTI_ACTION" /\ \E i \in DOMAIN res : res[i] = "failed"
           next == IF stop THEN {} ELSE todo
           check == Unverified(r, res, ver)
           least(S) == CHOOSE i \in S : \A j \in S : i <= j
           place == IF next # {} THEN "execute" ELSE IF check # {} THEN "verify" ELSE "finish"
           task == IF next # {} THEN least(next)
                   ELSE IF check # {} THEN least(check) ELSE current[r]
<1>1. /\ stage' = [stage EXCEPT ![r] = place]
      /\ current' = [current EXCEPT ![r] = task]
      /\ tries' = [tries EXCEPT ![r] = 1]
  BY DEF Advance
<1>2. /\ next \in SUBSET {1, 2} /\ check \in SUBSET {1, 2}
      /\ next \subseteq DOMAIN res /\ check \subseteq DOMAIN res
  BY DEF Unverified
<1>3. /\ next # {} => least(next) \in next
      /\ check # {} => least(check) \in check
  <2> HIDE DEF next, check
  <2>1. QED
    BY <1>2, LeastOfSome
<1>4. next = {} <=> Ended(requestType[r], res)
  BY DEF Ended
<1>5. task \in {1, 2} /\ place \in Stage
  <2> HIDE DEF next, check, least
  <2>1. QED
    BY <1>2, <1>3 DEF LoopOK, Stage
<1>6. /\ stage' \in [Request -> Stage] /\ current' \in [Request -> {1, 2}]
      /\ tries' \in [Request -> 1 .. MaxTries]
      /\ stage'[r] = place /\ current'[r] = task /\ tries'[r] = 1
      /\ \A q \in Request \ {r} :
           stage'[q] = stage[q] /\ current'[q] = current[q] /\ tries'[q] = tries[q]
  <2> HIDE DEF place, task
  <2>1. QED
    BY <1>1, <1>5, OneTry DEF LoopOK
<1>7. Leads(r)
  <2> HIDE DEF least
  <2>1. CASE next # {}
    <3>1. /\ least(next) \in DOMAIN res /\ res[least(next)] = "none"
          /\ \A i \in DOMAIN ver : ver[i] = "none"
      BY <1>2, <1>3, <1>4, <2>1
    <3>2. stage'[r] = "execute" /\ current'[r] = least(next)
      BY <1>6, <2>1
    <3>3. QED
      BY <3>1, <3>2 DEF Leads
  <2>2. CASE next = {} /\ check # {}
    <3>1. /\ least(check) \in DOMAIN res
          /\ res[least(check)] = "ok" /\ ver[least(check)] = "none"
      BY <1>2, <1>3, <2>2 DEF Unverified
    <3>2. stage'[r] = "verify" /\ current'[r] = least(check)
      BY <1>6, <2>2
    <3>3. QED
      BY <1>4, <2>2, <3>1, <3>2 DEF Leads
  <2>3. CASE next = {} /\ check = {}
    <3>1. stage'[r] = "finish" /\ \A i \in DOMAIN res : res[i] = "ok" => ver[i] # "none"
      BY <1>6, <2>3 DEF Unverified
    <3>2. QED
      BY <1>4, <2>3, <3>1 DEF Leads
  <2>4. QED
    BY <2>1, <2>2, <2>3
<1>8. QED
  BY <1>6, <1>7

\* The task in execution gets a mark.
Marked(r, mark) ==
  /\ \A i \in DOMAIN plan[r] \ {current[r]} : result'[r][i] = result[r][i]
  /\ result'[r][current[r]] = mark
  /\ verified'[r] = verified[r]
  /\ Leads(r) /\ tries'[r] = 1

\* The worker ends its session.
LEMMA EndSessionTypes ==
  ASSUME LoopOK, NEW r \in Request, EndSession(r)
  PROVE  /\ session' \in [Request -> Hotel \cup {None}]
         /\ \A q \in Request \ {r} : session'[q] = session[q]
  BY DEF LoopOK, EndSession

\* A loop has no other marks.
LEMMA MarkIsOne ==
  ASSUME NEW S, NEW f \in Marks(S), NEW i \in DOMAIN f
  PROVE  f[i] \in S
<1>1. CASE f \in [{} -> S]
  BY <1>1
<1>2. CASE f \in [{1} -> S]
  BY <1>2
<1>3. CASE f \in [{1, 2} -> S]
  BY <1>3
<1>4. QED
  BY <1>1, <1>2, <1>3 DEF Marks

\* The mark of the task in execution, on its loop.
LEMMA MarkTypes ==
  ASSUME LoopOK, NEW r \in Request, NEW mark \in Result,
         current[r] \in DOMAIN plan[r], DOMAIN result[r] = DOMAIN plan[r],
         DOMAIN plan[r] \in {{1}, {1, 2}},
         result' = [result EXCEPT ![r][current[r]] = mark]
  PROVE  /\ result' \in [Request -> Marks(Result)]
         /\ DOMAIN result'[r] = DOMAIN plan[r]
         /\ result'[r][current[r]] = mark
         /\ \A i \in DOMAIN plan[r] \ {current[r]} : result'[r][i] = result[r][i]
         /\ \A q \in Request \ {r} : result'[q] = result[q]
<1> DEFINE loop1 == [result[r] EXCEPT ![current[r]] = mark]
<1>1. result' = [result EXCEPT ![r] = loop1]
  OBVIOUS
<1>2. /\ DOMAIN loop1 = DOMAIN plan[r] /\ loop1[current[r]] = mark
      /\ \A i \in DOMAIN plan[r] \ {current[r]} : loop1[i] = result[r][i]
  OBVIOUS
<1>3. \A i \in DOMAIN plan[r] : result[r][i] \in Result
  BY MarkIsOne DEF LoopOK
<1>4. loop1 \in [DOMAIN plan[r] -> Result]
  BY <1>2, <1>3
<1>5. loop1 \in Marks(Result)
  BY <1>4 DEF Marks
<1>6. /\ result' \in [Request -> Marks(Result)] /\ result'[r] = loop1
      /\ \A q \in Request \ {r} : result'[q] = result[q]
  <2> HIDE DEF loop1
  <2>1. QED
    BY <1>1, <1>5 DEF LoopOK
<1>7. QED
  BY <1>2, <1>6

\* A success is marked and the loop goes on.
LEMMA SucceedsLeads ==
  ASSUME LoopOK, NEW r \in Request, Understood(r), Progress(r), stage[r] \in Acting,
         Succeeds(r)
  PROVE  LoopOK' /\ Marked(r, "ok") /\ Elsewhere(r)
<1>1. /\ result' = [result EXCEPT ![r][current[r]] = "ok"]
      /\ Advance(r, result'[r], verified'[r])
      /\ EndSession(r) /\ verified' = verified
  BY DEF Succeeds
<1>2. /\ current[r] \in DOMAIN plan[r] /\ DOMAIN plan[r] \in {{1}, {1, 2}}
      /\ DOMAIN result[r] = DOMAIN plan[r] /\ DOMAIN verified[r] = DOMAIN plan[r]
      /\ \A i \in DOMAIN plan[r] : verified[r][i] = "none"
  BY NothingMarked DEF Understood, Progress, Acting
<1>3. /\ result' \in [Request -> Marks(Result)]
      /\ DOMAIN result'[r] = DOMAIN plan[r]
      /\ result'[r][current[r]] = "ok"
      /\ \A i \in DOMAIN plan[r] \ {current[r]} : result'[r][i] = result[r][i]
      /\ \A q \in Request \ {r} : result'[q] = result[q]
  BY <1>1, <1>2, MarkTypes DEF Result
<1>4. /\ Leads(r) /\ tries'[r] = 1
      /\ stage' \in [Request -> Stage] /\ current' \in [Request -> {1, 2}]
      /\ tries' \in [Request -> 1 .. MaxTries]
      /\ \A q \in Request \ {r} :
           stage'[q] = stage[q] /\ current'[q] = current[q] /\ tries'[q] = tries[q]
  BY <1>1, <1>2, <1>3, AdvanceLeads
<1>5. LoopOK'
  BY <1>1, <1>3, <1>4, EndSessionTypes DEF LoopOK
<1>6. QED
  BY <1>1, <1>3, <1>4, <1>5, EndSessionTypes DEF Marked, Elsewhere

\* A failed attempt is followed by another one, or a failure is marked.
LEMMA TryFailsLeads ==
  ASSUME LoopOK, NEW r \in Request, Understood(r), Progress(r), stage[r] \in Acting,
         TryFails(r)
  PROVE  /\ LoopOK' /\ Elsewhere(r)
         /\ \/ Marked(r, "failed")
            \/ /\ stage'[r] = "execute" /\ current'[r] = current[r] /\ tries'[r] > 1
               /\ result'[r] = result[r] /\ verified'[r] = verified[r]
<1>1. /\ current[r] \in DOMAIN plan[r] /\ DOMAIN plan[r] \in {{1}, {1, 2}}
      /\ DOMAIN result[r] = DOMAIN plan[r] /\ DOMAIN verified[r] = DOMAIN plan[r]
      /\ \A i \in DOMAIN plan[r] : verified[r][i] = "none"
  BY NothingMarked DEF Understood, Progress, Acting
<1>2. verified' = verified /\ EndSession(r)
  BY DEF TryFails
<1>3. CASE /\ tries[r] < MaxTries
           /\ tries' = [tries EXCEPT ![r] = @ + 1]
           /\ stage' = [stage EXCEPT ![r] = "execute"]
           /\ UNCHANGED <<current, result>>
  <2>1. tries[r] + 1 \in 1 .. MaxTries /\ tries[r] + 1 > 1
    BY <1>3, OneTry DEF LoopOK
  <2>2. tries' \in [Request -> 1 .. MaxTries] /\ tries'[r] > 1
    BY <1>3, <2>1 DEF LoopOK
  <2>3. stage' \in [Request -> Stage] /\ stage'[r] = "execute"
    BY <1>3 DEF LoopOK, Stage
  <2>4. LoopOK'
    BY <1>2, <1>3, <2>2, <2>3, EndSessionTypes DEF LoopOK
  <2>5. Elsewhere(r)
    BY <1>2, <1>3, EndSessionTypes DEF Elsewhere, LoopOK
  <2>6. QED
    BY <1>2, <1>3, <2>2, <2>3, <2>4, <2>5
<1>4. CASE /\ tries[r] = MaxTries
           /\ result' = [result EXCEPT ![r][current[r]] = "failed"]
           /\ Advance(r, result'[r], verified[r])
  <2>1. /\ result' \in [Request -> Marks(Result)]
        /\ DOMAIN result'[r] = DOMAIN plan[r]
        /\ result'[r][current[r]] = "failed"
        /\ \A i \in DOMAIN plan[r] \ {current[r]} : result'[r][i] = result[r][i]
        /\ \A q \in Request \ {r} : result'[q] = result[q]
    BY <1>1, <1>4, MarkTypes DEF Result
  <2>2. /\ Leads(r) /\ tries'[r] = 1
        /\ stage' \in [Request -> Stage] /\ current' \in [Request -> {1, 2}]
        /\ tries' \in [Request -> 1 .. MaxTries]
        /\ \A q \in Request \ {r} :
             stage'[q] = stage[q] /\ current'[q] = current[q] /\ tries'[q] = tries[q]
    BY <1>1, <1>2, <1>4, <2>1, AdvanceLeads
  <2>3. LoopOK'
    BY <1>2, <2>1, <2>2, EndSessionTypes DEF LoopOK
  <2>4. QED
    BY <1>2, <2>1, <2>2, <2>3, EndSessionTypes DEF Marked, Elsewhere
<1>5. QED
  BY <1>3, <1>4 DEF TryFails

\* A verdict is given and the loop goes on.
LEMMA VerdictLeads ==
  ASSUME LoopOK, NEW r \in Request, Understood(r), Progress(r), stage[r] = "verify",
         NEW seen \in BOOLEAN, Verdict(r, seen)
  PROVE  /\ LoopOK' /\ Elsewhere(r) /\ Leads(r) /\ tries'[r] = 1
         /\ result' = result
         /\ \A i \in DOMAIN plan[r] \ {current[r]} : verified'[r][i] = verified[r][i]
         /\ verified'[r][current[r]] = IF seen THEN "yes" ELSE "no"
<1> DEFINE mark == IF seen THEN "yes" ELSE "no"
           loop1 == [verified[r] EXCEPT ![current[r]] = mark]
<1>1. /\ verified' = [verified EXCEPT ![r] = loop1]
      /\ Advance(r, result'[r], verified'[r])
      /\ UNCHANGED <<result, session, requestType, plan>>
  BY DEF Verdict, browser, understanding
<1>2. /\ current[r] \in DOMAIN plan[r] /\ DOMAIN plan[r] \in {{1}, {1, 2}}
      /\ DOMAIN result[r] = DOMAIN plan[r] /\ DOMAIN verified[r] = DOMAIN plan[r]
      /\ Ended(requestType[r], result[r])
  BY NothingMarked DEF Understood, Progress, Acting
<1>3. /\ DOMAIN loop1 = DOMAIN plan[r] /\ loop1[current[r]] = mark
      /\ \A i \in DOMAIN plan[r] \ {current[r]} : loop1[i] = verified[r][i]
  BY <1>2
<1>4. loop1 \in Marks(Verdicts)
  <2>1. \A i \in DOMAIN plan[r] : verified[r][i] \in Verdicts
    BY <1>2, MarkIsOne DEF LoopOK
  <2>2. loop1 \in [DOMAIN plan[r] -> Verdicts]
    BY <1>2, <1>3, <2>1 DEF Verdicts
  <2>3. QED
    BY <1>2, <2>2 DEF Marks
<1>5. /\ verified' \in [Request -> Marks(Verdicts)] /\ verified'[r] = loop1
      /\ \A q \in Request \ {r} : verified'[q] = verified[q]
  <2> HIDE DEF loop1
  <2>1. QED
    BY <1>1, <1>4 DEF LoopOK
<1> HIDE DEF loop1, mark
<1>6. /\ Leads(r) /\ tries'[r] = 1
      /\ stage' \in [Request -> Stage] /\ current' \in [Request -> {1, 2}]
      /\ tries' \in [Request -> 1 .. MaxTries]
      /\ \A q \in Request \ {r} :
           stage'[q] = stage[q] /\ current'[q] = current[q] /\ tries'[q] = tries[q]
  BY <1>1, <1>2, <1>3, <1>5, AdvanceLeads
<1>7. LoopOK'
  BY <1>1, <1>5, <1>6 DEF LoopOK
<1>8. QED
  BY <1>1, <1>3, <1>5, <1>6, <1>7 DEF Elsewhere, mark

-----------------------------------------------------------------------------
(* What a step keeps.                                                      *)

\* A step of one request is no step of the others.
Alone(r) ==
  /\ message' = message /\ home' = home
  /\ Elsewhere(r)
  /\ \A q \in Request \ {r} :
       /\ requestType'[q] = requestType[q] /\ plan'[q] = plan[q]
       /\ human'[q] = human[q]
       /\ status'[q] = status[q] /\ summary'[q] = summary[q]

\* So the others stand where they stood.
LEMMA OthersKept ==
  ASSUME NEW r \in Request, Alone(r), NEW q \in Request \ {r}, Standing(q)
  PROVE  Standing(q)'
<1>1. /\ stage'[q] = stage[q] /\ current'[q] = current[q] /\ tries'[q] = tries[q]
      /\ result'[q] = result[q] /\ verified'[q] = verified[q] /\ session'[q] = session[q]
      /\ requestType'[q] = requestType[q] /\ plan'[q] = plan[q]
      /\ human'[q] = human[q]
      /\ status'[q] = status[q] /\ summary'[q] = summary[q]
      /\ message' = message /\ home' = home
  BY DEF Alone, Elsewhere
<1>2. NeedsHuman(q)' <=> NeedsHuman(q)
  BY <1>1 DEF NeedsHuman
<1>3. Understood(q)' /\ Consented(q)'
  BY <1>1, <1>2 DEF Standing, Understood, Consented
<1>4. Progress(q)'
  BY <1>1 DEF Standing, Progress, TaskOf
<1>5. QED
  BY <1>3, <1>4 DEF Standing

\* What is on record stays there; a step adds what it can show a write for.
LEMMA RecordedKept ==
  ASSUME TypeInv, TypeInv', Recorded, NEW r \in Request, Alone(r),
         writes \subseteq writes',
         plan'[r] = plan[r] \/ DOMAIN plan[r] = {},
         human[r] = "granted" => human'[r] = "granted",
         \A h \in Hotel : reservation[h].status = "CANCELLED"
                            => reservation'[h].status = "CANCELLED",
         \A q \in Request, i \in {1, 2} :
           Backed(q, i)' => Backed(q, i) \/ WritesOf(q, i)' # {},
         \A w \in writes' \ writes : Sound(w)',
         \A w \in writes :
           /\ w.request = r /\ w.task \in DOMAIN plan[r]
           /\ plan[r][w.task].taskType = "MODIFY_RESERVATION"
           /\ w.status = "CANCELLED" /\ verified[r][w.task] # "yes"
           => verified'[r][w.task] # "yes"
  PROVE  Recorded'
<1>1. ASSUME NEW q \in Request, NEW i \in {1, 2}, Backed(q, i)'
      PROVE  WritesOf(q, i)' # {}
  BY <1>1 DEF Recorded, WritesOf
<1>2. ASSUME NEW w \in writes PROVE Sound(w)'
  <2>1. /\ w.request \in Request /\ w.hotel \in Hotel
        /\ w.task \in DOMAIN plan[w.request]
        /\ Sound(w)
    BY DEF TypeInv, WritesOK, Recorded, Sound
  <2>2. plan'[w.request] = plan[w.request] /\ home' = home
    BY <2>1 DEF Alone
  <2>3. /\ plan[w.request][w.task].taskType = "MODIFY_RESERVATION"
        /\ w.status = "CANCELLED"
        => verified'[w.request][w.task] # "yes"
    <3>1. CASE w.request = r
      BY <2>1, <3>1 DEF Sound
    <3>2. CASE w.request # r
      BY <2>1, <3>2 DEF Sound, Alone, Elsewhere
    <3>3. QED
      BY <3>1, <3>2
  <2>4. human[w.request] = "granted" => human'[w.request] = "granted"
    BY <2>1 DEF Alone
  <2>5. QED
    BY <2>1, <2>2, <2>3, <2>4 DEF Sound
<1>3. QED
  BY <1>1, <1>2 DEF Recorded

\* A step that touches no desk adds nothing when it marks no success.
LEMMA QuietlyRecorded ==
  ASSUME TypeInv, TypeInv', Recorded, NEW r \in Request, Alone(r),
         UNCHANGED <<desk, writes>>, stage'[r] # "submitted",
         human[r] = "granted" => human'[r] = "granted",
         \/ plan'[r] = plan[r] /\ verified'[r] = verified[r]
         \/ DOMAIN plan[r] = {},
         \A i \in DOMAIN plan'[r] : result'[r][i] = "ok" =>
           i \in DOMAIN plan[r] /\ result[r][i] = "ok"
  PROVE  Recorded'
<1>1. \A q \in Request, i \in {1, 2} : Backed(q, i)' => Backed(q, i)
  <2>1. SUFFICES ASSUME NEW q \in Request, NEW i \in {1, 2}, Backed(q, i)'
                 PROVE  Backed(q, i)
    OBVIOUS
  <2>2. CASE q = r
    BY <2>1, <2>2 DEF Backed, desk
  <2>3. CASE q # r
    BY <2>1, <2>3 DEF Backed, desk, Alone, Elsewhere
  <2>4. QED
    BY <2>2, <2>3
<1>2. QED
  BY <1>1, RecordedKept DEF desk

\* The loop goes on and keeps the successes.
LEMMA LedOn ==
  ASSUME NEW r \in Request, Standing(r), stage[r] \in Acting \cup {"verify"},
         UNCHANGED <<understanding, human, outcome>>,
         Leads(r),
         \A i \in DOMAIN plan[r] : result[r][i] = "ok" => result'[r][i] = "ok"
  PROVE  Standing(r)'
<1>1. /\ stage'[r] \in {"execute", "verify", "finish"}
      /\ UNCHANGED <<message, home, requestType, plan, human, status, summary>>
  BY DEF Leads, understanding, outcome
<1>2. NeedsHuman(r)' <=> NeedsHuman(r)
  BY <1>1 DEF NeedsHuman
<1>3. Understood(r)' /\ Consented(r)'
  BY <1>1, <1>2 DEF Standing, Understood, Consented, Acting, Working
<1>4. status[r] = None
  BY DEF Standing, Progress, Acting
<1>5. Progress(r)'
  BY <1>1, <1>4 DEF Standing, Progress, Leads, Acting, Early, None
<1>6. QED
  BY <1>3, <1>5 DEF Standing

\* Or the task is attempted again.
LEMMA TriedAgain ==
  ASSUME NEW r \in Request, Standing(r), stage[r] \in Acting,
         UNCHANGED <<understanding, human, outcome>>,
         stage'[r] = "execute", current'[r] = current[r],
         result'[r] = result[r], verified'[r] = verified[r]
  PROVE  Standing(r)'
<1>1. UNCHANGED <<message, home, requestType, plan, human, status, summary>>
  BY DEF understanding, outcome
<1>2. NeedsHuman(r)' <=> NeedsHuman(r)
  BY <1>1 DEF NeedsHuman
<1>3. Understood(r)' /\ Consented(r)'
  BY <1>1, <1>2 DEF Standing, Understood, Consented, Acting, Working
<1>4. Progress(r)'
  BY <1>1 DEF Standing, Progress, Acting, Early
<1>5. QED
  BY <1>3, <1>4 DEF Standing

-----------------------------------------------------------------------------
(* The steps of a request.                                                 *)

\* What a step of request r has to leave behind.
Settles(r) == TypeInv' /\ Recorded' /\ Standing(r)' /\ Alone(r)

\* A request moves to another stage.
LEMMA GoesTypes ==
  ASSUME LoopOK, NEW r \in Request, NEW from, NEW to \in Stage, Goes(r, from, to)
  PROVE  /\ stage' \in [Request -> Stage] /\ stage[r] = from /\ stage'[r] = to
         /\ \A q \in Request \ {r} : stage'[q] = stage[q]
  BY DEF Goes, LoopOK

\* A request gets its outcome and the operator his summary.
LEMMA CloseTypes ==
  ASSUME OutcomeOK, NEW r \in Request, NEW final \in FinalStatus,
         NEW completed \in SUBSET {1, 2}, Close(r, final, completed)
  PROVE  /\ OutcomeOK' /\ status'[r] = final
         /\ summary'[r].completedActions \subseteq completed
         /\ \A q \in Request \ {r} : status'[q] = status[q] /\ summary'[q] = summary[q]
<1> DEFINE text == IF final = "COMPLETED" THEN NoSummary ELSE SummarizeEscalation(completed)
<1>1. /\ text \in [completedActions : SUBSET {1, 2}, failedActions : {{}}]
      /\ text.completedActions \subseteq completed
  BY DEF NoSummary, SummarizeEscalation
<1>2. /\ status' = [status EXCEPT ![r] = final]
      /\ summary' = [summary EXCEPT ![r] = text]
  BY DEF Close
<1> HIDE DEF text
<1>3. QED
  BY <1>1, <1>2 DEF OutcomeOK

\* The classification reads the type off the guest's words.
LEMMA ClassifyStep ==
  ASSUME TypeInv, Recorded, NEW r \in Request, Standing(r), ClassifyGuestRequest(r)
  PROVE  Settles(r)
<1> DEFINE type == ClassifyRequest(message[r]).requestType
<1>1. /\ requestType' = [requestType EXCEPT ![r] = type]
      /\ \/ /\ type = "UNSUPPORTED"
            /\ Goes(r, "received", "done") /\ Close(r, "ESCALATED", {})
         \/ /\ type # "UNSUPPORTED"
            /\ Goes(r, "received", "classified") /\ UNCHANGED outcome
      /\ UNCHANGED <<desk, message, home, plan, human, loop, browser, writes, staffPage,
                     bounds>>
  BY DEF ClassifyGuestRequest
<1>2. type = ClassifyByPattern(message[r].words) /\ type \in RequestType
  BY TypeOfWords DEF ClassifyRequest
<1> HIDE DEF type
<1>3. /\ requestType' \in [Request -> RequestType \cup {None}] /\ requestType'[r] = type
      /\ \A q \in Request \ {r} : requestType'[q] = requestType[q]
  BY <1>1, <1>2 DEF TypeInv, WordsOK
<1>4. /\ stage' \in [Request -> Stage] /\ stage[r] = "received"
      /\ \/ type = "UNSUPPORTED" /\ stage'[r] = "done"
         \/ type # "UNSUPPORTED" /\ stage'[r] = "classified"
      /\ \A q \in Request \ {r} : stage'[q] = stage[q]
  BY <1>1, GoesTypes DEF TypeInv, Stage
<1>5. /\ OutcomeOK'
      /\ \/ type = "UNSUPPORTED" /\ status'[r] = "ESCALATED"
         \/ type # "UNSUPPORTED" /\ status'[r] = status[r]
      /\ summary'[r].completedActions \subseteq summary[r].completedActions
      /\ \A q \in Request \ {r} : status'[q] = status[q] /\ summary'[q] = summary[q]
  <2>1. CASE type = "UNSUPPORTED"
    BY <1>1, <2>1, CloseTypes DEF TypeInv, FinalStatus
  <2>2. CASE type # "UNSUPPORTED"
    BY <1>1, <2>2 DEF TypeInv, OutcomeOK, outcome
  <2>3. QED
    BY <2>1, <2>2
<1>6. TypeInv'
  BY <1>1, <1>3, <1>4, <1>5 DEF TypeInv, DeskOK, WordsOK, LoopOK, WritesOK, BoundsOK,
     desk, loop, browser, bounds
<1>7. Alone(r)
  BY <1>1, <1>3, <1>4, <1>5 DEF Alone, Elsewhere, loop, browser
<1>8. Standing(r)'
  <2>1. plan[r] = <<>> /\ DOMAIN plan[r] = {} /\ status[r] = None
    BY <1>4, NothingMarked DEF Standing, Understood, Progress
  <2>2. Understood(r)' /\ Consented(r)'
    BY <1>1, <1>2, <1>3, <1>4, <2>1 DEF Standing, Understood, Consented, Working, Acting
  <2>3. Progress(r)'
    BY <1>1, <1>4, <1>5, <2>1 DEF Standing, Progress, Early, Acting, loop, browser, None
  <2>4. QED
    BY <2>2, <2>3 DEF Standing
<1>9. Recorded'
  <2>1. DOMAIN plan'[r] = {}
    BY <1>1, <1>4, NothingMarked DEF Standing, Understood
  <2>2. QED
    BY <1>1, <1>4, <1>6, <1>7, <2>1, QuietlyRecorded DEF loop
<1>10. QED
  BY <1>6, <1>7, <1>8, <1>9 DEF Settles

\* The plan is gated, and nothing has been done yet.
LEMMA PlanStep ==
  ASSUME TypeInv, Recorded, NEW r \in Request, Standing(r), PlanGuestRequest(r)
  PROVE  Settles(r)
<1> DEFINE c == ClassifyRequest(message[r])
           tasks == CreatePlan(c, message[r])
           marks == [i \in DOMAIN tasks |-> "none"]
<1>1. /\ Goes(r, "classified", "planned")
      /\ plan' = [plan EXCEPT ![r] = tasks]
      /\ result' = [result EXCEPT ![r] = marks]
      /\ verified' = [verified EXCEPT ![r] = marks]
      /\ UNCHANGED <<desk, message, home, requestType, human, current, tries, browser,
                     outcome, writes, staffPage, bounds>>
  BY DEF PlanGuestRequest
<1>2. /\ tasks \in Seq(Task) /\ DOMAIN tasks \in {{1}, {1, 2}}
      /\ \A i \in DOMAIN tasks : Gated(tasks[i])
  <2>1. message[r] \in Message
    BY DEF TypeInv, WordsOK
  <2>2. QED
    BY <2>1, PlanIsGated
<1> HIDE DEF tasks
<1>3. /\ marks \in Marks(Result) /\ marks \in Marks(Verdicts)
      /\ DOMAIN marks = DOMAIN tasks /\ \A i \in DOMAIN tasks : marks[i] = "none"
  BY <1>2 DEF Marks, Result, Verdicts
<1> HIDE DEF marks
<1>4. /\ stage' \in [Request -> Stage]
      /\ stage[r] = "classified" /\ stage'[r] = "planned"
      /\ \A q \in Request \ {r} : stage'[q] = stage[q]
  BY <1>1, GoesTypes DEF TypeInv, Stage
<1>5. /\ plan' \in [Request -> Seq(Task)] /\ plan'[r] = tasks
      /\ \A q \in Request \ {r} : plan'[q] = plan[q]
  BY <1>1, <1>2 DEF TypeInv, WordsOK
<1>6. /\ result' \in [Request -> Marks(Result)] /\ result'[r] = marks
      /\ verified' \in [Request -> Marks(Verdicts)] /\ verified'[r] = marks
      /\ \A q \in Request \ {r} : result'[q] = result[q] /\ verified'[q] = verified[q]
  BY <1>1, <1>3 DEF TypeInv, LoopOK
<1>7. TypeInv'
  BY <1>1, <1>4, <1>5, <1>6 DEF TypeInv, DeskOK, WordsOK, LoopOK, OutcomeOK, WritesOK,
     BoundsOK, desk, browser, outcome, bounds
<1>8. Alone(r)
  BY <1>1, <1>4, <1>5, <1>6 DEF Alone, Elsewhere, browser, outcome
<1>9. plan[r] = <<>> /\ DOMAIN plan[r] = {} /\ plan'[r] # <<>>
  BY <1>2, <1>4, <1>5, NothingMarked DEF Standing, Understood
<1>10. Standing(r)'
  <2>1. Understood(r)' /\ Consented(r)'
    BY <1>1, <1>2, <1>4, <1>5, <1>9 DEF Standing, Understood, Consented, Working, Acting
  <2>2. Progress(r)'
    BY <1>1, <1>3, <1>4, <1>5, <1>6, <1>9
       DEF Standing, Progress, Early, Acting, browser, outcome, None
  <2>3. QED
    BY <2>1, <2>2 DEF Standing
<1>11. Recorded'
  BY <1>1, <1>3, <1>4, <1>5, <1>6, <1>7, <1>8, <1>9, QuietlyRecorded
<1>12. QED
  BY <1>7, <1>8, <1>10, <1>11 DEF Settles

\* A step of the gate moves the stage and the human's answer, and may end the
\* request as escalated.
LEMMA GateKeeps ==
  ASSUME TypeInv, Recorded, NEW r \in Request, Standing(r),
         NEW from \in {"planned", "waiting", "refused"},
         NEW to \in {"waiting", "refused", "execute", "done"},
         Goes(r, from, to),
         UNCHANGED <<desk, understanding, loop, browser, writes, staffPage, bounds>>,
         NEW answer \in {"none", "asked", "granted", "refused"},
         human' = [human EXCEPT ![r] = answer],
         to = "waiting" => answer = "asked" /\ NeedsHuman(r),
         to = "refused" => answer = "refused",
         to = "execute" => answer = "granted" \/ (answer = "none" /\ ~NeedsHuman(r)),
         \/ to # "done" /\ UNCHANGED outcome
         \/ to = "done" /\ Close(r, "ESCALATED", {})
  PROVE  Settles(r)
<1>1. /\ stage' \in [Request -> Stage] /\ stage[r] = from /\ stage'[r] = to
      /\ \A q \in Request \ {r} : stage'[q] = stage[q]
  BY GoesTypes DEF TypeInv, Stage
<1>2. /\ human' \in [Request -> {"none", "asked", "granted", "refused"}]
      /\ human'[r] = answer
      /\ \A q \in Request \ {r} : human'[q] = human[q]
  BY DEF TypeInv, WordsOK
<1>3. /\ OutcomeOK'
      /\ \/ to # "done" /\ status'[r] = status[r]
         \/ to = "done" /\ status'[r] = "ESCALATED"
      /\ summary'[r].completedActions \subseteq summary[r].completedActions
      /\ \A q \in Request \ {r} : status'[q] = status[q] /\ summary'[q] = summary[q]
  <2>1. CASE to = "done"
    BY <2>1, CloseTypes DEF TypeInv, FinalStatus
  <2>2. CASE to # "done"
    BY <2>2 DEF TypeInv, OutcomeOK, outcome
  <2>3. QED
    BY <2>1, <2>2
<1>4. TypeInv'
  BY <1>1, <1>2, <1>3 DEF TypeInv, DeskOK, WordsOK, LoopOK, WritesOK, BoundsOK,
     desk, understanding, loop, browser, bounds
<1>5. Alone(r)
  BY <1>1, <1>2, <1>3 DEF Alone, Elsewhere, understanding, loop, browser
<1>6. Standing(r)'
  <2>1. NeedsHuman(r)' <=> NeedsHuman(r)
    BY DEF NeedsHuman, understanding
  <2>2. Understood(r)' /\ Consented(r)'
    BY <1>1, <1>2, <2>1 DEF Standing, Understood, Consented, Working, Acting, understanding
  <2>3. status[r] = None
    BY <1>1 DEF Standing, Progress
  <2>4. current'[r] \in DOMAIN plan'[r] /\ plan'[r] # <<>>
    BY <1>1 DEF Standing, Understood, Progress, Early, understanding, loop
  <2>5. Progress(r)'
    BY <1>1, <1>3, <2>3, <2>4 DEF Standing, Progress, Early, Acting, understanding, loop,
       browser, None
  <2>6. QED
    BY <2>2, <2>5 DEF Standing
<1>7. Recorded'
  <2>1. human[r] # "granted"
    BY <1>1 DEF Standing, Consented
  <2>2. QED
    BY <1>1, <1>4, <1>5, <2>1, QuietlyRecorded DEF understanding, loop
<1>8. QED
  BY <1>4, <1>5, <1>6, <1>7 DEF Settles

\* The policy, the human's answer, and the escalation after a refusal.
LEMMA GateSteps ==
  ASSUME TypeInv, Recorded, NEW r \in Request, Standing(r),
         \/ EvaluateGuestRequestPolicy(r) \/ Approve(r) \/ Refuse(r)
         \/ EscalateRefused(r)
  PROVE  Settles(r)
<1>1. human = [human EXCEPT ![r] = human[r]]
      /\ human[r] \in {"none", "asked", "granted", "refused"}
  BY DEF TypeInv, WordsOK
<1>2. CASE EvaluateGuestRequestPolicy(r)
  <2>1. stage[r] = "planned" => human[r] = "none"
    BY DEF Standing, Consented
  <2>2. CASE NeedsHuman(r)
    BY <1>2, <2>2, GateKeeps DEF EvaluateGuestRequestPolicy
  <2>3. CASE ~NeedsHuman(r)
    <3>1. /\ Goes(r, "planned", "execute") /\ human' = [human EXCEPT ![r] = human[r]]
          /\ human[r] = "none"
      BY <1>1, <1>2, <2>1, <2>3 DEF EvaluateGuestRequestPolicy, Goes
    <3>2. QED
      BY <1>1, <1>2, <2>3, <3>1, GateKeeps DEF EvaluateGuestRequestPolicy
  <2>4. QED
    BY <2>2, <2>3
<1>3. CASE Approve(r)
  BY <1>3, GateKeeps DEF Approve
<1>4. CASE Refuse(r)
  BY <1>4, GateKeeps DEF Refuse
<1>5. CASE EscalateRefused(r)
  <2>1. human' = [human EXCEPT ![r] = human[r]]
    BY <1>1, <1>5 DEF EscalateRefused
  <2>2. QED
    BY <1>1, <1>5, <2>1, GateKeeps DEF EscalateRefused
<1>6. QED
  BY <1>2, <1>3, <1>4, <1>5

\* The final status claims what the marks say.
LEMMA FinishStep ==
  ASSUME TypeInv, Recorded, NEW r \in Request, Standing(r), Finish(r)
  PROVE  Settles(r)
<1> DEFINE final == DeriveExecutionStatus(result[r], verified[r])
           completed == {i \in DOMAIN plan[r] : result[r][i] = "ok"}
<1>1. /\ Goes(r, "finish", "done") /\ Close(r, final, completed)
      /\ UNCHANGED <<desk, understanding, human, loop, browser, writes, staffPage, bounds>>
  BY DEF Finish
<1>2. /\ stage' \in [Request -> Stage] /\ stage[r] = "finish" /\ stage'[r] = "done"
      /\ \A q \in Request \ {r} : stage'[q] = stage[q]
  BY <1>1, GoesTypes DEF TypeInv, Stage
<1>3. /\ DOMAIN plan[r] \in SUBSET {1, 2} /\ DOMAIN result[r] = DOMAIN plan[r]
      /\ \A i \in DOMAIN plan[r] : verified[r][i] \in Verdicts
      /\ \A i \in DOMAIN plan[r] : result[r][i] = "ok" => verified[r][i] # "none"
  <2>1. DOMAIN plan[r] \in SUBSET {1, 2}
    BY NothingMarked DEF Standing, Understood
  <2>2. /\ DOMAIN result[r] = DOMAIN plan[r] /\ DOMAIN verified[r] = DOMAIN plan[r]
        /\ \A i \in DOMAIN plan[r] : result[r][i] = "ok" => verified[r][i] # "none"
    BY <1>2 DEF Standing, Progress
  <2>3. verified[r] \in Marks(Verdicts)
    BY DEF TypeInv, LoopOK
  <2>4. QED
    BY <2>1, <2>2, <2>3, MarkIsOne
<1>4. /\ final \in FinalStatus
      /\ final = "COMPLETED" =>
           \A i \in DOMAIN plan[r] : result[r][i] = "ok" /\ verified[r][i] # "no"
  BY <1>3 DEF DeriveExecutionStatus, FinalStatus
<1>5. completed \in SUBSET {1, 2}
  BY <1>3
<1> HIDE DEF final
<1>6. /\ OutcomeOK' /\ status'[r] = final
      /\ summary'[r].completedActions \subseteq completed
      /\ \A q \in Request \ {r} : status'[q] = status[q] /\ summary'[q] = summary[q]
  <2> HIDE DEF completed
  <2>1. QED
    BY <1>1, <1>4, <1>5, CloseTypes DEF TypeInv
<1>7. TypeInv'
  BY <1>1, <1>2, <1>6 DEF TypeInv, DeskOK, WordsOK, LoopOK, WritesOK, BoundsOK,
     desk, understanding, loop, browser, bounds
<1>8. Alone(r)
  BY <1>1, <1>2, <1>6 DEF Alone, Elsewhere, understanding, loop, browser
<1>9. Standing(r)'
  <2>1. Understood(r)' /\ Consented(r)'
    BY <1>1, <1>2 DEF Standing, Understood, Consented, Working, Acting, understanding
  <2>2. final # None
    BY <1>4 DEF FinalStatus, None
  <2>3. final = "COMPLETED" =>
          \A i \in DOMAIN plan[r] : result[r][i] = "ok" /\ verified[r][i] = "yes"
    BY <1>3, <1>4 DEF Verdicts
  <2>4. Progress(r)'
    BY <1>1, <1>2, <1>6, <2>2, <2>3 DEF Standing, Progress, Early, Acting, understanding,
       loop, browser
  <2>5. QED
    BY <2>1, <2>4 DEF Standing
<1>10. Recorded'
  BY <1>1, <1>2, <1>7, <1>8, QuietlyRecorded DEF understanding, loop
<1>11. QED
  BY <1>7, <1>8, <1>9, <1>10 DEF Settles

-----------------------------------------------------------------------------
(* The desk.                                                               *)

\* What a request to the desk never does: forget a receipt or a cancellation.
DeskKept(extra) ==
  /\ DeskOK'
  /\ receipts \subseteq receipts' /\ receipts' \subseteq receipts \cup extra
  /\ \A h \in Hotel : reservation[h].status = "CANCELLED"
                        => reservation'[h].status = "CANCELLED"

\* A row is written to the hotel of the session.
LEMMA InsertTypes ==
  ASSUME DeskOK, NEW hotel \in Hotel, NEW taskType, IsCreate(taskType),
         NEW room \in Room, NEW text, NEW receipt,
         Insert(hotel, taskType, room, text, receipt),
         NEW extra, \A x \in extra : x[1] \in Hotel,
         receipts \subseteq receipts', receipts' \subseteq receipts \cup extra,
         UNCHANGED <<reservation, staffPage>>
  PROVE  DeskKept(extra)
<1> DEFINE row == [hotel |-> hotel, taskType |-> taskType, room |-> room,
                   text |-> text, receipt |-> receipt]
<1>1. rows' = rows \cup {row}
  BY DEF Insert
<1>2. row.hotel \in Hotel /\ IsCreate(row.taskType) /\ row.room \in Room
  OBVIOUS
<1> HIDE DEF row
<1>3. DeskOK'
  BY <1>1, <1>2 DEF DeskOK
<1>4. QED
  BY <1>3 DEF DeskKept

\* POST of a form.
LEMMA PostKeeps ==
  ASSUME DeskOK, NEW hotel \in Hotel, NEW taskType, IsCreate(taskType),
         NEW room \in Room, NEW text, NEW receipt, NEW answer,
         Post(hotel, taskType, room, text, receipt, answer),
         UNCHANGED staffPage
  PROVE  /\ DeskKept(IF receipt = NoReceipt THEN {} ELSE {<<hotel, receipt>>})
         /\ answer = "error" => receipts' = receipts
<1> DEFINE extra == IF receipt = NoReceipt THEN {} ELSE {<<hotel, receipt>>}
<1>1. \A x \in extra : x[1] \in Hotel
  OBVIOUS
<1>2. CASE UNCHANGED desk
  BY <1>2 DEF DeskKept, DeskOK, desk
<1>3. CASE /\ Insert(hotel, taskType, room, text, receipt)
           /\ IF receipt = NoReceipt THEN UNCHANGED receipts
                                     ELSE RecordBrowserReceipt(hotel, receipt)
           /\ answer = "ok"
           /\ UNCHANGED reservation
  <2>1. receipts \subseteq receipts' /\ receipts' \subseteq receipts \cup extra
    BY <1>3 DEF RecordBrowserReceipt
  <2>2. QED
    BY <1>1, <1>3, <2>1, InsertTypes
<1>4. QED
  BY <1>2, <1>3 DEF Post, desk

\* PATCH of the reservation changes no status.
LEMMA PatchKeeps ==
  ASSUME DeskOK, NEW hotel \in Hotel, NEW shown, NEW notes \in Notes,
         Patch(hotel, shown, notes),
         staffPage' \in [Staff -> {Closed} \cup [hotel : Hotel, status : ReservationStatus,
                                                 notes : Notes]]
  PROVE  DeskKept({})
<1>1. /\ reservation' = [reservation EXCEPT ![hotel].notes = notes]
      /\ UNCHANGED <<rows, receipts>>
  BY DEF Patch
<1>2. \A h \in Hotel : /\ reservation[h] \in [status : ReservationStatus, notes : Notes]
                       /\ reservation'[h] \in [status : ReservationStatus, notes : Notes]
                       /\ reservation'[h].status = reservation[h].status
  BY <1>1 DEF DeskOK
<1>3. reservation' \in [Hotel -> [status : ReservationStatus, notes : Notes]]
  BY <1>1, <1>2 DEF DeskOK
<1>4. QED
  BY <1>1, <1>2, <1>3 DEF DeskKept, DeskOK

\* DELETE of the reservation cancels it.
LEMMA DeleteKeeps ==
  ASSUME DeskOK, NEW hotel \in Hotel, Delete(hotel),
         staffPage' \in [Staff -> {Closed} \cup [hotel : Hotel, status : ReservationStatus,
                                                 notes : Notes]]
  PROVE  DeskKept({})
<1>1. /\ reservation' = [reservation EXCEPT ![hotel].status = "CANCELLED"]
      /\ UNCHANGED <<rows, receipts>>
  BY DEF Delete
<1>2. \A h \in Hotel : /\ reservation[h] \in [status : ReservationStatus, notes : Notes]
                       /\ reservation'[h] \in [status : ReservationStatus, notes : Notes]
                       /\ reservation'[h].status \in {reservation[h].status, "CANCELLED"}
  BY <1>1 DEF DeskOK, ReservationStatus
<1>3. reservation' \in [Hotel -> [status : ReservationStatus, notes : Notes]]
  BY <1>1, <1>2 DEF DeskOK
<1>4. QED
  BY <1>1, <1>2, <1>3 DEF DeskKept, DeskOK

\* The page of a task sends one of the three.
LEMMA SubmissionKeeps ==
  ASSUME DeskOK, NEW r \in Request, session[r] \in Hotel, TaskOf(r) \in Task,
         NEW answer, Submission(r, answer), UNCHANGED staffPage
  PROVE  /\ DeskKept({<<session[r], Receipt(r)>>})
         /\ answer = "error" => receipts' = receipts
<1> DEFINE task == TaskOf(r)
           hotel == session[r]
<1>1. task.room \in Room
  BY DEF Task
<1>2. CASE /\ IsCreate(task.taskType)
           /\ Post(hotel, task.taskType, task.room, task.text, Receipt(r), answer)
  <2>1. /\ DeskKept(IF Receipt(r) = NoReceipt THEN {} ELSE {<<hotel, Receipt(r)>>})
        /\ answer = "error" => receipts' = receipts
    BY <1>1, <1>2, PostKeeps
  <2>2. QED
    BY <2>1 DEF DeskKept
<1>3. CASE Patch(hotel, page[r], "Modified per guest request") /\ answer = "ok"
  <2>1. PICK notes \in Notes : Patch(hotel, page[r], notes)
    BY Zenon, <1>3 DEF Notes
  <2>2. DeskKept({})
    BY <2>1, PatchKeeps DEF DeskOK
  <2>3. answer # "error"
    BY <1>3
  <2>4. QED
    BY <2>2, <2>3 DEF DeskKept
<1>4. CASE Delete(hotel) /\ answer = "ok"
  <2>1. DeskKept({})
    BY <1>4, DeleteKeeps DEF DeskOK
  <2>2. QED
    BY <1>4, <2>1 DEF DeskKept
<1>5. QED
  BY <1>2, <1>3, <1>4 DEF Submission

-----------------------------------------------------------------------------
(* The worker's steps.                                                     *)

\* A step of the loop is typed and alone.
LEMMA LoopTypes ==
  ASSUME TypeInv, NEW r \in Request, LoopOK', Elsewhere(r),
         DeskOK', WritesOK', BoundsOK',
         UNCHANGED <<understanding, human, outcome>>
  PROVE  TypeInv' /\ Alone(r)
  BY DEF TypeInv, WordsOK, OutcomeOK, Alone, understanding, outcome

\* What of a request in execution the steps rely on.
LEMMA InExecution ==
  ASSUME TypeInv, NEW r \in Request, Standing(r), stage[r] \in Acting \cup {"verify"}
  PROVE  /\ current[r] \in DOMAIN plan[r] /\ current[r] \in {1, 2}
         /\ DOMAIN plan[r] \in {{1}, {1, 2}} /\ TaskOf(r) \in Task
         /\ stage[r] \in {"form", "submitted"} =>
              /\ session[r] \in Hotel
              /\ ~IsCreate(TaskOf(r).taskType) => session[r] = home[r]
<1>1. current[r] \in DOMAIN plan[r] /\ current[r] \in {1, 2} /\ plan[r] \in Seq(Task)
  BY DEF Standing, Progress, TypeInv, LoopOK, WordsOK
<1>2. DOMAIN plan[r] \in {{1}, {1, 2}}
  BY <1>1, NothingMarked DEF Standing, Understood
<1>3. TaskOf(r) \in Task
  BY <1>1 DEF TaskOf
<1>4. home[r] \in Hotel
  BY DEF TypeInv, WordsOK
<1>5. QED
  BY <1>1, <1>2, <1>3, <1>4 DEF Standing, Progress

\* An attempt that fails backs nothing that was not backed, whatever it has
\* written to the desk before.
LEMMA FailingSettles ==
  ASSUME TypeInv, Recorded, NEW r \in Request, Standing(r), stage[r] \in Acting,
         TryFails(r), DeskOK', WritesOK', BoundsOK',
         UNCHANGED <<understanding, human, outcome, receipts>>,
         \A h \in Hotel : reservation[h].status = "CANCELLED"
                            => reservation'[h].status = "CANCELLED",
         writes \subseteq writes',
         \A w \in writes' \ writes : Sound(w)'
  PROVE  Settles(r)
<1>1. Understood(r) /\ Progress(r)
  BY DEF Standing
<1>2. /\ LoopOK' /\ Elsewhere(r)
      /\ \/ Marked(r, "failed")
         \/ /\ stage'[r] = "execute" /\ current'[r] = current[r] /\ tries'[r] > 1
            /\ result'[r] = result[r] /\ verified'[r] = verified[r]
  BY <1>1, TryFailsLeads DEF TypeInv
<1>3. TypeInv' /\ Alone(r)
  BY <1>2, LoopTypes
<1>4. result[r][current[r]] = "none" /\ current[r] \in DOMAIN plan[r]
  BY <1>1 DEF Progress
<1>5. /\ Standing(r)' /\ stage'[r] # "submitted" /\ verified'[r] = verified[r]
      /\ \A i \in DOMAIN plan[r] : result'[r][i] = "ok" => result[r][i] = "ok"
  <2>1. CASE Marked(r, "failed")
    <3>1. \A i \in DOMAIN plan[r] : result[r][i] = "ok" <=> result'[r][i] = "ok"
      BY <1>4, <2>1 DEF Marked
    <3>2. stage'[r] # "submitted"
      BY <2>1 DEF Marked, Leads
    <3>3. QED
      BY <2>1, <3>1, <3>2, LedOn DEF Marked
  <2>2. CASE /\ stage'[r] = "execute" /\ current'[r] = current[r] /\ tries'[r] > 1
             /\ result'[r] = result[r] /\ verified'[r] = verified[r]
    BY <2>2, TriedAgain
  <2>3. QED
    BY <1>2, <2>1, <2>2
<1>6. \A q \in Request, i \in {1, 2} : Backed(q, i)' => Backed(q, i)
  <2>1. SUFFICES ASSUME NEW q \in Request, NEW i \in {1, 2}, Backed(q, i)'
                 PROVE  Backed(q, i)
    OBVIOUS
  <2>2. plan' = plan /\ receipts' = receipts
    BY DEF understanding
  <2>3. CASE q = r
    BY <1>5, <2>1, <2>2, <2>3 DEF Backed
  <2>4. CASE q # r
    BY <1>2, <2>1, <2>2, <2>4 DEF Backed, Elsewhere
  <2>5. QED
    BY <2>3, <2>4
<1>7. Recorded'
  <2>1. plan' = plan
    BY DEF understanding
  <2>2. QED
    BY <1>3, <1>5, <1>6, <2>1, RecordedKept
<1>8. QED
  BY <1>3, <1>5, <1>7 DEF Settles

\* A success is backed by a write.
LEMMA SucceedingSettles ==
  ASSUME TypeInv, Recorded, NEW r \in Request, Standing(r), stage[r] \in Acting,
         Succeeds(r), Backed(r, current[r]),
         UNCHANGED <<rows, reservation, staffPage, writes, bounds, understanding, human,
                     outcome>>,
         receipts \subseteq receipts',
         receipts' \subseteq receipts \cup {<<home[r], Receipt(r)>>}
  PROVE  Settles(r)
<1>1. Understood(r) /\ Progress(r) /\ current[r] \in {1, 2} /\ home[r] \in Hotel
  BY DEF Standing, TypeInv, LoopOK, WordsOK
<1>2. LoopOK' /\ Elsewhere(r) /\ Marked(r, "ok")
  BY <1>1, SucceedsLeads DEF TypeInv
<1>3. DeskOK' /\ WritesOK' /\ BoundsOK'
  BY <1>1 DEF TypeInv, DeskOK, WritesOK, BoundsOK, bounds
<1>4. TypeInv' /\ Alone(r)
  BY <1>2, <1>3, LoopTypes
<1>5. Standing(r)'
  BY <1>2, LedOn DEF Marked
<1>6. /\ WritesOf(r, current[r]) # {}
      /\ \A q \in Request, i \in {1, 2} : WritesOf(q, i)' = WritesOf(q, i)
  BY <1>1 DEF Recorded, WritesOf
<1>7. stage'[r] # "submitted" /\ verified'[r] = verified[r] /\ plan' = plan
  BY <1>2 DEF Marked, Leads, understanding
<1>8. \A q \in Request, i \in {1, 2} : Backed(q, i)' => Backed(q, i) \/ WritesOf(q, i)' # {}
  <2>1. SUFFICES ASSUME NEW q \in Request, NEW i \in {1, 2}, Backed(q, i)'
                 PROVE  Backed(q, i) \/ WritesOf(q, i) # {}
    BY <1>6
  <2>2. CASE \E hotel \in Hotel : <<hotel, <<q, i>>>> \in receipts'
    <3>1. \/ \E hotel \in Hotel : <<hotel, <<q, i>>>> \in receipts
          \/ <<q, i>> = Receipt(r)
      BY <2>2
    <3>2. <<q, i>> = Receipt(r) => q = r /\ i = current[r]
      BY DEF Receipt
    <3>3. QED
      BY <1>6, <3>1, <3>2 DEF Backed
  <2>3. CASE q = r /\ i \in DOMAIN plan[r] /\ result'[r][i] = "ok"
    BY <1>2, <1>6, <2>3 DEF Marked, Backed
  <2>4. CASE q # r
    BY <1>2, <1>7, <2>1, <2>2, <2>4 DEF Backed, Elsewhere
  <2>5. QED
    BY <1>7, <2>1, <2>2, <2>3, <2>4 DEF Backed
<1>9. Recorded'
  BY <1>4, <1>7, <1>8, RecordedKept
<1>10. QED
  BY <1>4, <1>5, <1>9 DEF Settles

\* What the worker writes to the desk is sound: on a task that nobody has verified
\* yet, and in the guest's hotel where it is about his reservation.
LEMMA WrittenIsSound ==
  ASSUME TypeInv, NEW r \in Request, Standing(r), stage[r] = "form",
         UNCHANGED <<plan, home, human>>, verified'[r] = verified[r],
         writes' = writes \cup {Written(r)},
         reservation[session[r]].status = "CANCELLED"
           => reservation'[session[r]].status = "CANCELLED"
  PROVE  /\ WritesOK' /\ \E w \in writes' : w.request = r /\ w.task = current[r]
         /\ \A w \in writes' \ writes : Sound(w)'
<1>1. /\ current[r] \in DOMAIN plan[r] /\ current[r] \in {1, 2} /\ session[r] \in Hotel
      /\ ~IsCreate(TaskOf(r).taskType) => session[r] = home[r]
  BY InExecution DEF Acting
<1>2. verified[r][current[r]] = "none"
  BY <1>1 DEF Standing, Progress, Acting
<1>3. reservation[session[r]].status \in ReservationStatus
  BY <1>1 DEF TypeInv, DeskOK
<1>4. /\ Written(r).request = r /\ Written(r).task = current[r]
      /\ Written(r).hotel = session[r]
      /\ Written(r).status = reservation[session[r]].status
      /\ Written(r) \in [request : Request, task : {1, 2}, hotel : Hotel,
                         status : ReservationStatus]
  BY <1>1, <1>3 DEF Written
<1>5. ASSUME NEW w \in writes' \ writes PROVE Sound(w)'
  <2>1. /\ w.request = r /\ w.task = current[r] /\ w.hotel = session[r]
        /\ w.status = reservation[session[r]].status
    BY <1>4
  <2>2. TaskOf(r).taskType = "CANCEL_RESERVATION" => human[r] = "granted"
    BY <1>1 DEF Standing, Understood, Consented, Working, Acting, Gated, NeedsHuman, TaskOf
  <2>3. QED
    BY <1>1, <1>2, <2>1, <2>2 DEF Sound, TaskOf
<1>6. Written(r) \in writes'
  OBVIOUS
<1>7. QED
  BY <1>4, <1>5, <1>6 DEF TypeInv, WritesOK

\* The steps in which an attempt fails.
LEMMA FailureSteps ==
  ASSUME TypeInv, Recorded, NEW r \in Request, Standing(r),
         \/ ReservationMissing(r) \/ AttemptFails(r) \/ ReceiptLost(r)
         \/ OpenPage(r) /\ TryFails(r) /\ UNCHANGED bounds
  PROVE  Settles(r)
<1>1. CASE ReservationMissing(r) \/ (OpenPage(r) /\ TryFails(r) /\ UNCHANGED bounds)
  <2>1. /\ stage[r] \in Acting /\ TryFails(r)
        /\ UNCHANGED <<desk, understanding, human, outcome, writes, staffPage, bounds>>
    BY <1>1 DEF ReservationMissing, OpenPage, Acting
  <2>2. DeskOK' /\ WritesOK' /\ BoundsOK'
    BY <2>1 DEF TypeInv, DeskOK, WritesOK, BoundsOK, desk, bounds
  <2>3. QED
    BY <2>1, <2>2, FailingSettles DEF desk
<1>2. CASE AttemptFails(r)
  <2>1. /\ stage[r] \in Acting /\ TryFails(r) /\ Fault
        /\ UNCHANGED <<desk, understanding, human, outcome, writes, staffPage, acts>>
    BY <1>2 DEF AttemptFails, Acting
  <2>2. DeskOK' /\ WritesOK'
    BY <2>1 DEF TypeInv, DeskOK, WritesOK, desk
  <2>3. BoundsOK'
    BY <2>1, BoundsAssumption DEF TypeInv, BoundsOK, Fault
  <2>4. QED
    BY <2>1, <2>2, <2>3, FailingSettles DEF desk
<1>3. CASE ReceiptLost(r)
  <2>1. /\ stage[r] = "form" /\ TryFails(r) /\ Fault /\ IsCreate(TaskOf(r).taskType)
        /\ Insert(session[r], TaskOf(r).taskType, TaskOf(r).room, TaskOf(r).text,
                  Receipt(r))
        /\ writes' = writes \cup {Written(r)}
        /\ UNCHANGED <<receipts, reservation, understanding, human, outcome, staffPage,
                       acts>>
    BY <1>3 DEF ReceiptLost
  <2>2. session[r] \in Hotel /\ TaskOf(r).room \in Room
    BY <2>1, InExecution DEF Acting, Task
  <2>3. DeskOK'
    <3>1. DeskKept({})
      BY <2>1, <2>2, InsertTypes DEF TypeInv
    <3>2. QED
      BY <3>1 DEF DeskKept
  <2>4. BoundsOK'
    BY <2>1, BoundsAssumption DEF TypeInv, BoundsOK, Fault
  <2>5. verified' = verified /\ plan' = plan /\ home' = home
    BY <2>1 DEF TryFails, understanding
  <2>6. WritesOK' /\ \A w \in writes' \ writes : Sound(w)'
    BY <2>1, <2>5, WrittenIsSound
  <2>7. stage[r] \in Acting
    BY <2>1 DEF Acting
  <2>8. QED
    BY <2>1, <2>3, <2>4, <2>6, <2>7, FailingSettles
<1>4. QED
  BY <1>1, <1>2, <1>3

\* The steps in which a task succeeds.
LEMMA SuccessSteps ==
  ASSUME TypeInv, Recorded, NEW r \in Request, Standing(r),
         FindExistingReceipt(r) \/ RecordReceipt(r),
         UNCHANGED bounds
  PROVE  Settles(r)
<1>1. current[r] \in {1, 2} /\ home[r] \in Hotel
  BY DEF TypeInv, LoopOK, WordsOK
<1>2. CASE FindExistingReceipt(r)
  <2>1. stage[r] \in Acting /\ Backed(r, current[r])
    BY <1>1, <1>2 DEF FindExistingReceipt, Acting, Backed, Receipt
  <2>2. QED
    BY <1>2, <2>1, SucceedingSettles DEF FindExistingReceipt, desk
<1>3. CASE RecordReceipt(r)
  <2>1. /\ stage[r] \in Acting /\ Backed(r, current[r])
        /\ receipts \subseteq receipts'
        /\ receipts' \subseteq receipts \cup {<<home[r], Receipt(r)>>}
    BY <1>3 DEF RecordReceipt, Acting, Backed, RecordBrowserReceipt
  <2>2. QED
    BY <1>3, <2>1, SucceedingSettles DEF RecordReceipt
<1>4. QED
  BY <1>2, <1>3

\* The page is opened in the session of some hotel: of the guest's, unless the task
\* is a form any hotel has.
LEMMA OpenPageStep ==
  ASSUME TypeInv, Recorded, NEW r \in Request, Standing(r), OpenPage(r),
         UNCHANGED bounds
  PROVE  Settles(r)
<1>1. PICK hotel \in Hotel :
        \/ /\ Shows(hotel, r)
           /\ stage' = [stage EXCEPT ![r] = "form"]
           /\ session' = [session EXCEPT ![r] = hotel]
           /\ UNCHANGED loop
        \/ ~Shows(hotel, r) /\ TryFails(r)
  BY DEF OpenPage
<1>2. CASE TryFails(r)
  BY <1>2, FailureSteps
<1>3. CASE /\ Shows(hotel, r)
           /\ stage' = [stage EXCEPT ![r] = "form"]
           /\ session' = [session EXCEPT ![r] = hotel]
           /\ UNCHANGED loop
  <2>1. /\ stage[r] = "execute"
        /\ UNCHANGED <<desk, understanding, human, outcome, writes, staffPage>>
    BY DEF OpenPage
  <2>2. /\ stage' \in [Request -> Stage] /\ stage'[r] = "form"
        /\ session' \in [Request -> Hotel \cup {None}] /\ session'[r] = hotel
        /\ \A q \in Request \ {r} : stage'[q] = stage[q] /\ session'[q] = session[q]
    BY <1>3 DEF TypeInv, LoopOK, Stage
  <2>3. LoopOK' /\ Elsewhere(r)
    BY <1>3, <2>2 DEF TypeInv, LoopOK, loop, Elsewhere
  <2>4. DeskOK' /\ WritesOK' /\ BoundsOK'
    BY <2>1 DEF TypeInv, DeskOK, WritesOK, BoundsOK, desk, bounds
  <2>5. TypeInv' /\ Alone(r)
    BY <2>1, <2>3, <2>4, LoopTypes
  <2>6. NeedsHuman(r)' <=> NeedsHuman(r)
    BY <2>1 DEF NeedsHuman, understanding
  <2>7. Understood(r)' /\ Consented(r)'
    BY <2>1, <2>2, <2>6 DEF Standing, Understood, Consented, Acting, Working, understanding
  <2>8. hotel \in IF IsCreate(TaskOf(r).taskType) THEN Hotel ELSE {home[r]}
    BY <1>3 DEF Shows
  <2>9. Progress(r)'
    BY <1>3, <2>1, <2>2, <2>8
       DEF Standing, Progress, Acting, Early, understanding, outcome, loop, TaskOf
  <2>10. Recorded'
    BY <1>3, <2>1, <2>2, <2>5, QuietlyRecorded DEF understanding, loop
  <2>11. QED
    BY <2>5, <2>7, <2>9, <2>10 DEF Settles, Standing
<1>4. QED
  BY <1>1, <1>2, <1>3

\* A form that is taken is a write; one that is not is a failed attempt.
LEMMA SubmitStep ==
  ASSUME TypeInv, Recorded, NEW r \in Request, Standing(r), Submit(r)
  PROVE  Settles(r)
<1>1. PICK answer \in {"ok", "error"} :
        /\ Submission(r, answer)
        /\ \/ /\ answer = "ok"
              /\ writes' = writes \cup {Written(r)}
              /\ stage' = [stage EXCEPT ![r] = "submitted"]
              /\ UNCHANGED <<loop, browser>>
           \/ answer = "error" /\ TryFails(r) /\ UNCHANGED writes
  BY DEF Submit
<1>2. /\ stage[r] = "form"
      /\ UNCHANGED <<understanding, human, outcome, staffPage, bounds>>
  BY DEF Submit
<1>3. session[r] \in Hotel /\ TaskOf(r) \in Task /\ current[r] \in {1, 2}
  BY <1>2, InExecution DEF Acting
<1>4. /\ DeskKept({<<session[r], Receipt(r)>>})
      /\ answer = "error" => receipts' = receipts
  BY <1>1, <1>2, <1>3, SubmissionKeeps DEF TypeInv
<1>5. /\ DeskOK' /\ BoundsOK'
      /\ \A h \in Hotel : reservation[h].status = "CANCELLED"
                            => reservation'[h].status = "CANCELLED"
  BY <1>2, <1>4 DEF DeskKept, TypeInv, BoundsOK, bounds
<1>6. CASE answer = "error" /\ TryFails(r) /\ UNCHANGED writes
  <2>1. WritesOK' /\ stage[r] \in Acting
    BY <1>2, <1>6 DEF TypeInv, WritesOK, Acting
  <2>2. QED
    BY <1>2, <1>4, <1>5, <1>6, <2>1, FailingSettles
<1>7. CASE /\ answer = "ok"
           /\ writes' = writes \cup {Written(r)}
           /\ stage' = [stage EXCEPT ![r] = "submitted"]
           /\ UNCHANGED <<loop, browser>>
  <2>1. verified' = verified /\ plan' = plan /\ home' = home
    BY <1>2, <1>7 DEF loop, understanding
  <2>2. /\ WritesOK' /\ \E w \in writes' : w.request = r /\ w.task = current[r]
        /\ \A w \in writes' \ writes : Sound(w)'
    BY <1>2, <1>3, <1>5, <1>7, <2>1, WrittenIsSound
  <2>3. /\ stage' \in [Request -> Stage] /\ stage'[r] = "submitted"
        /\ \A q \in Request \ {r} : stage'[q] = stage[q]
    BY <1>7 DEF TypeInv, LoopOK, Stage
  <2>4. LoopOK' /\ Elsewhere(r)
    BY <1>7, <2>3 DEF TypeInv, LoopOK, loop, browser, Elsewhere
  <2>5. TypeInv' /\ Alone(r)
    BY <1>2, <1>5, <2>2, <2>4, LoopTypes
  <2>6. NeedsHuman(r)' <=> NeedsHuman(r)
    BY <1>2 DEF NeedsHuman, understanding
  <2>7. Understood(r)' /\ Consented(r)'
    BY <1>2, <2>3, <2>6 DEF Standing, Understood, Consented, Acting, Working, understanding
  <2>8. Progress(r)'
    BY <1>2, <1>7, <2>3
       DEF Standing, Progress, Acting, Early, understanding, outcome, loop, browser, TaskOf
  <2>9. \A q \in Request, i \in {1, 2} :
          Backed(q, i)' => Backed(q, i) \/ WritesOf(q, i)' # {}
    <3>1. SUFFICES ASSUME NEW q \in Request, NEW i \in {1, 2}, Backed(q, i)',
                          ~(q = r /\ i = current[r])
                   PROVE  Backed(q, i)
      BY <1>3, <2>2, <1>7 DEF WritesOf, loop
    <3>2. CASE \E hotel \in Hotel : <<hotel, <<q, i>>>> \in receipts'
      <4>1. <<q, i>> # Receipt(r)
        BY <3>1 DEF Receipt
      <4>2. QED
        BY <1>4, <3>2, <4>1 DEF DeskKept, Backed
    <3>3. CASE ~\E hotel \in Hotel : <<hotel, <<q, i>>>> \in receipts'
      BY <1>7, <2>1, <2>3, <3>1, <3>3 DEF Backed, loop
    <3>4. QED
      BY <3>2, <3>3
  <2>10. Recorded'
    BY <1>2, <1>5, <1>7, <2>1, <2>2, <2>5, <2>9, RecordedKept
  <2>11. QED
    BY <2>5, <2>7, <2>8, <2>10 DEF Settles, Standing
<1>8. QED
  BY <1>1, <1>6, <1>7

\* A modification is not passed on a reservation that is cancelled for good.
LEMMA VerdictStep ==
  ASSUME TypeInv, Recorded, NEW r \in Request, Standing(r), stage[r] = "verify",
         NEW seen \in BOOLEAN, Verdict(r, seen), BoundsOK',
         seen /\ TaskOf(r).taskType = "MODIFY_RESERVATION" =>
           reservation[home[r]].status = "CONFIRMED"
  PROVE  Settles(r)
<1>1. Understood(r) /\ Progress(r)
  BY DEF Standing
<1>2. UNCHANGED <<desk, understanding, human, result, browser, outcome, writes, staffPage>>
  BY DEF Verdict
<1>3. /\ LoopOK' /\ Elsewhere(r) /\ Leads(r)
      /\ \A i \in DOMAIN plan[r] \ {current[r]} : verified'[r][i] = verified[r][i]
      /\ verified'[r][current[r]] = IF seen THEN "yes" ELSE "no"
  BY <1>1, VerdictLeads DEF TypeInv
<1>4. TypeInv' /\ Alone(r)
  <2>1. DeskOK' /\ WritesOK'
    BY <1>2 DEF TypeInv, DeskOK, WritesOK, desk
  <2>2. QED
    BY <1>2, <1>3, <2>1, LoopTypes
<1>5. Standing(r)'
  BY <1>2, <1>3, LedOn
<1>6. \A q \in Request, i \in {1, 2} : Backed(q, i)' => Backed(q, i)
  <2>1. \A q \in Request : stage'[q] = "submitted" => stage[q] = "submitted" /\ q # r
    BY <1>3 DEF Leads, Elsewhere
  <2>2. \A q \in Request \ {r} : current'[q] = current[q]
    BY <1>3 DEF Elsewhere
  <2>3. QED
    BY <1>2, <2>1, <2>2 DEF Backed, desk, understanding
<1>7. ASSUME NEW w \in writes, w.request = r, w.task \in DOMAIN plan[r],
             plan[r][w.task].taskType = "MODIFY_RESERVATION", w.status = "CANCELLED",
             verified[r][w.task] # "yes"
      PROVE  verified'[r][w.task] # "yes"
  <2>1. reservation[home[r]].status = "CANCELLED"
    BY <1>7 DEF Recorded, Sound, IsCreate
  <2>2. w.task = current[r] => ~seen
    BY <1>7, <2>1 DEF TaskOf
  <2>3. QED
    BY <1>3, <1>7, <2>2
<1>8. Recorded'
  BY <1>2, <1>4, <1>6, <1>7, RecordedKept DEF desk, understanding
<1>9. QED
  BY <1>4, <1>5, <1>8 DEF Settles

\* Both ways to a verdict.
LEMMA VerificationSteps ==
  ASSUME TypeInv, Recorded, NEW r \in Request, Standing(r),
         VerifyBrowserTask(r) \/ VerificationFails(r)
  PROVE  Settles(r)
<1>1. CASE VerifyBrowserTask(r)
  <2>1. PICK hotel \in Hotel : Verdict(r, Observes(r, hotel))
    BY <1>1 DEF VerifyBrowserTask
  <2>2. stage[r] = "verify" /\ BoundsOK'
    BY <1>1 DEF VerifyBrowserTask, TypeInv, BoundsOK, bounds
  <2>3. Observes(r, hotel) \in BOOLEAN
    BY DEF Observes, RowVisible
  <2>4. Observes(r, hotel) /\ TaskOf(r).taskType = "MODIFY_RESERVATION" =>
          reservation[home[r]].status = "CONFIRMED"
    BY DEF Observes, IsCreate
  <2>5. QED
    BY <2>1, <2>2, <2>3, <2>4, VerdictStep
<1>2. CASE VerificationFails(r)
  <2>1. stage[r] = "verify" /\ Verdict(r, FALSE) /\ Fault /\ acts' = acts
    BY <1>2 DEF VerificationFails
  <2>2. BoundsOK'
    BY <2>1, BoundsAssumption DEF TypeInv, BoundsOK, Fault
  <2>3. QED
    BY <2>1, <2>2, VerdictStep
<1>3. QED
  BY <1>1, <1>2

-----------------------------------------------------------------------------
(* The staff, and the invariant.                                           *)

\* The staff does nothing to a request but what the desk shows of it.
LEMMA StaffSteps ==
  ASSUME TypeInv, Recorded, StaffActs
  PROVE  /\ TypeInv' /\ Recorded' /\ StaysCancelled
         /\ \A r \in Request : Standing(r) => Standing(r)'
<1>1. /\ Untouched /\ acts < MaxActs /\ acts' = acts + 1
      /\ \/ \E hotel \in Hotel,
               taskType \in {"CREATE_MAINTENANCE_TICKET", "CREATE_WAKE_UP_CALL"},
               answer \in {"ok", "error"} :
              /\ Post(hotel, taskType, "407", "06:30", NoReceipt, answer)
              /\ UNCHANGED staffPage
         \/ \E s \in Staff, hotel \in Hotel :
              /\ staffPage' = [staffPage EXCEPT ![s] =
                                 [hotel |-> hotel, status |-> reservation[hotel].status,
                                  notes |-> reservation[hotel].notes]]
              /\ UNCHANGED desk
         \/ \E s \in Staff, notes \in Notes :
              /\ staffPage[s] # Closed
              /\ Patch(staffPage[s].hotel, staffPage[s].status, notes)
              /\ staffPage' = [staffPage EXCEPT ![s] = Closed]
         \/ \E s \in Staff :
              /\ staffPage[s] # Closed
              /\ Delete(staffPage[s].hotel)
              /\ staffPage' = [staffPage EXCEPT ![s] = Closed]
  <2>1. CASE StaffPosts
    BY Zenon, <2>1 DEF StaffPosts, Act
  <2>2. ASSUME NEW s \in Staff, StaffOpensReservation(s) PROVE <1>1!:
    BY Zenon, <2>2 DEF StaffOpensReservation, Act
  <2>3. ASSUME NEW s \in Staff, StaffSaves(s) PROVE <1>1!:
    <3>1. PICK notes \in {staffPage[s].notes, "staff"} :
            Patch(staffPage[s].hotel, staffPage[s].status, notes)
      BY <2>3 DEF StaffSaves
    <3>2. /\ Untouched /\ acts < MaxActs /\ acts' = acts + 1
          /\ staffPage[s] # Closed /\ staffPage' = [staffPage EXCEPT ![s] = Closed]
      BY <2>3 DEF StaffSaves, Act
    <3>3. staffPage[s].notes \in Notes /\ "staff" \in Notes
      <4>1. staffPage[s] \in [hotel : Hotel, status : ReservationStatus, notes : Notes]
        BY <3>2 DEF TypeInv, DeskOK
      <4>2. "staff" \in Notes
        BY Zenon DEF Notes
      <4>3. QED
        BY <4>1, <4>2
    <3>4. notes \in Notes
      BY <3>3
    <3>5. QED
      BY Zenon, <3>1, <3>2, <3>4
  <2>4. ASSUME NEW s \in Staff, StaffCancels(s) PROVE <1>1!:
    BY Zenon, <2>4 DEF StaffCancels, Act
  <2>5. QED
    BY <2>1, <2>2, <2>3, <2>4 DEF StaffActs
<1>2. ASSUME NEW s \in Staff, staffPage[s] # Closed
      PROVE  /\ staffPage[s].hotel \in Hotel
             /\ [staffPage EXCEPT ![s] = Closed] \in
                  [Staff -> {Closed} \cup [hotel : Hotel, status : ReservationStatus,
                                           notes : Notes]]
  BY <1>2 DEF TypeInv, DeskOK
<1>3. DeskKept({})
  <2>1. ASSUME NEW hotel \in Hotel,
               NEW taskType \in {"CREATE_MAINTENANCE_TICKET", "CREATE_WAKE_UP_CALL"},
               NEW answer \in {"ok", "error"},
               Post(hotel, taskType, "407", "06:30", NoReceipt, answer),
               UNCHANGED staffPage
        PROVE  DeskKept({})
    <3>1. IsCreate(taskType) /\ "407" \in Room
      BY DEF IsCreate, Room
    <3>2. PICK room \in Room : \E text : Post(hotel, taskType, room, text, NoReceipt, answer)
      BY <2>1, <3>1
    <3>3. PICK text : Post(hotel, taskType, room, text, NoReceipt, answer)
      BY <3>2
    <3>4. QED
      BY <2>1, <3>1, <3>3, PostKeeps DEF TypeInv
  <2>2. ASSUME NEW s \in Staff, NEW hotel \in Hotel,
               staffPage' = [staffPage EXCEPT ![s] =
                               [hotel |-> hotel, status |-> reservation[hotel].status,
                                notes |-> reservation[hotel].notes]],
               UNCHANGED desk
        PROVE  DeskKept({})
    <3>1. DeskOK'
      BY <2>2 DEF TypeInv, DeskOK, desk
    <3>2. QED
      BY <2>2, <3>1 DEF DeskKept, desk
  <2>3. ASSUME NEW s \in Staff, NEW notes \in Notes, staffPage[s] # Closed,
               Patch(staffPage[s].hotel, staffPage[s].status, notes),
               staffPage' = [staffPage EXCEPT ![s] = Closed]
        PROVE  DeskKept({})
    BY <1>2, <2>3, PatchKeeps DEF TypeInv
  <2>4. ASSUME NEW s \in Staff, staffPage[s] # Closed, Delete(staffPage[s].hotel),
               staffPage' = [staffPage EXCEPT ![s] = Closed]
        PROVE  DeskKept({})
    BY <1>2, <2>4, DeleteKeeps DEF TypeInv
  <2>5. QED
    BY <1>1, <2>1, <2>2, <2>3, <2>4
<1>4. UNCHANGED <<understanding, stage, human, loop, browser, outcome, writes, faults>>
  BY <1>1 DEF Untouched
<1>5. TypeInv'
  <2>1. DeskOK' /\ WordsOK' /\ LoopOK' /\ OutcomeOK' /\ WritesOK'
    BY <1>3, <1>4 DEF TypeInv, DeskKept, WordsOK, LoopOK, OutcomeOK, WritesOK,
       understanding, loop, browser, outcome
  <2>2. BoundsOK'
    BY <1>1, <1>4, BoundsAssumption DEF TypeInv, BoundsOK
  <2>3. QED
    BY <2>1, <2>2 DEF TypeInv
<1>6. ASSUME NEW r \in Request, Standing(r) PROVE Standing(r)'
  <2>1. NeedsHuman(r)' <=> NeedsHuman(r)
    BY <1>4 DEF NeedsHuman, understanding
  <2>2. QED
    BY <1>4, <1>6, <2>1 DEF Standing, Understood, Consented, Progress, TaskOf,
       understanding, loop, browser, outcome
<1>7. Recorded'
  <2>1. receipts' = receipts /\ writes' = writes
    BY <1>3, <1>4 DEF DeskKept
  <2>2. ASSUME NEW w \in writes PROVE Sound(w)'
    <3>1. Sound(w) /\ w.hotel \in Hotel
      BY DEF Recorded, TypeInv, WritesOK
    <3>2. QED
      BY <1>3, <1>4, <3>1 DEF Sound, DeskKept, understanding, loop
  <2>3. ASSUME NEW r \in Request, NEW i \in {1, 2}, Backed(r, i)'
        PROVE  WritesOf(r, i)' # {}
    <3>1. Backed(r, i)
      BY <1>4, <2>1, <2>3 DEF Backed, understanding, loop
    <3>2. QED
      BY <2>1, <3>1 DEF Recorded, WritesOf
  <2>4. QED
    BY <2>1, <2>2, <2>3 DEF Recorded
<1>8. QED
  BY <1>3, <1>5, <1>6, <1>7 DEF DeskKept, StaysCancelled

\* A step of one request keeps what holds of all.
LEMMA RequestSteps ==
  ASSUME TypeInv, Recorded, NEW r \in Request, Standing(r),
         \/ Agents(r) \/ Approve(r) \/ Refuse(r) \/ Worker(r) \/ Finish(r) \/ Failures(r)
  PROVE  Settles(r)
<1>1. CASE Agents(r) \/ Approve(r) \/ Refuse(r)
  BY <1>1, ClassifyStep, PlanStep, GateSteps DEF Agents
<1>2. CASE Worker(r)
  <2>1. UNCHANGED bounds \/ Submit(r)
    BY <1>2 DEF Worker, FindExistingReceipt, ReservationMissing, OpenPage, RecordReceipt,
       VerifyBrowserTask
  <2>2. QED
    BY <1>2, <2>1, SuccessSteps, FailureSteps, OpenPageStep, SubmitStep,
       VerificationSteps DEF Worker
<1>3. CASE Finish(r)
  BY <1>3, FinishStep
<1>4. CASE Failures(r)
  BY <1>4, FailureSteps, VerificationSteps DEF Failures
<1>5. QED
  BY <1>1, <1>2, <1>3, <1>4

\* The invariant is inductive.
LEMMA NextInv == TypeInv /\ Inv /\ [Next]_vars => TypeInv' /\ Inv'
<1>1. SUFFICES ASSUME TypeInv, Inv, [Next]_vars PROVE TypeInv' /\ Inv'
  OBVIOUS
<1>2. ASSUME NEW r \in Request,
             \/ Agents(r) \/ Approve(r) \/ Refuse(r) \/ Worker(r) \/ Finish(r)
             \/ Failures(r)
      PROVE  TypeInv' /\ Inv'
  <2>1. Settles(r)
    BY <1>1, <1>2, RequestSteps DEF Inv
  <2>2. \A q \in Request : Standing(q)'
    <3>1. \A q \in Request \ {r} : Standing(q)'
      BY <1>1, <2>1, OthersKept DEF Settles, Inv
    <3>2. QED
      BY <2>1, <3>1 DEF Settles
  <2>3. QED
    BY <2>1, <2>2 DEF Settles, Inv
<1>3. CASE StaffActs
  <2>1. TypeInv' /\ Recorded' /\ \A r \in Request : Standing(r) => Standing(r)'
    BY <1>1, <1>3, StaffSteps DEF Inv
  <2>2. QED
    BY <1>1, <2>1 DEF Inv
<1>4. CASE UNCHANGED vars
  <2>1. TypeInv'
    BY <1>1, <1>4 DEF TypeInv, DeskOK, WordsOK, LoopOK, OutcomeOK, WritesOK, BoundsOK,
       vars, desk, understanding, loop, browser, outcome, bounds
  <2>2. ASSUME NEW r \in Request PROVE Standing(r)'
    <3>1. NeedsHuman(r)' <=> NeedsHuman(r)
      BY <1>4 DEF NeedsHuman, vars, understanding
    <3>2. Understood(r)' /\ Consented(r)'
      BY <1>1, <1>4, <3>1 DEF Inv, Standing, Understood, Consented, vars, understanding
    <3>3. Progress(r)'
      <4>1. UNCHANGED <<home, requestType, plan, stage, current, tries, result, verified,
                        session, status, summary>>
        BY <1>4 DEF vars, understanding, loop, browser, outcome
      <4>2. Progress(r)
        BY <1>1 DEF Inv, Standing
      <4>3. QED
        BY <4>1, <4>2 DEF Progress, TaskOf
    <3>4. QED
      BY <3>2, <3>3 DEF Standing
  <2>3. Recorded'
    BY <1>1, <1>4 DEF Inv, Recorded, Sound, Backed, WritesOf, vars, desk, understanding,
       loop, browser
  <2>4. QED
    BY <2>1, <2>2, <2>3 DEF Inv
<1>5. QED
  BY <1>1, <1>2, <1>3, <1>4 DEF Next

\* It holds of every behaviour.
LEMMA Invariant == Spec => [](TypeInv /\ Inv)
  BY InitInv, NextInv, PTL DEF Spec

\* Every variable keeps its type, whoever writes what and whatever is lost.
THEOREM TypeCorrect == Spec => []TypeOK
  BY Invariant, TypesOK, PTL

\* What is reported as done was written to a PMS (src/packages/workflows and the
\* browser worker): no lost attempt, duplicate row or receipt makes a success of a
\* task that was never submitted.
THEOREM ReportsHold == Spec => []ReportsAreTrue
<1>1. TypeInv /\ Inv => ReportsAreTrue
  <2>1. SUFFICES ASSUME TypeInv, Inv, NEW r \in Request,
                        NEW i \in IF status[r] = "COMPLETED" THEN DOMAIN plan[r]
                                  ELSE summary[r].completedActions
                 PROVE  WritesOf(r, i) # {}
    BY DEF ReportsAreTrue
  <2>2. i \in DOMAIN plan[r] /\ result[r][i] = "ok"
    BY <2>1 DEF Inv, Standing, Progress
  <2>3. i \in {1, 2}
    BY <2>1, <2>2, NothingMarked DEF Inv, Standing, Understood
  <2>4. QED
    BY <2>1, <2>2, <2>3 DEF Inv, Recorded, Backed
<1>2. QED
  BY <1>1, Invariant, PTL

\* A modification that was written to a cancelled reservation is never verified, so
\* its request never COMPLETED: the reservation stays cancelled until the worker
\* looks.  That a partial summary lists the task as executed is not excluded.
THEOREM NoModificationOfCancelled == Spec => []NotDoneOnCancelled
<1>1. TypeInv /\ Inv => NotDoneOnCancelled
  <2>1. SUFFICES ASSUME TypeInv, Inv, NEW w \in writes,
                        plan[w.request][w.task].taskType = "MODIFY_RESERVATION",
                        w.status = "CANCELLED"
                 PROVE  /\ verified[w.request][w.task] # "yes"
                        /\ status[w.request] # "COMPLETED"
    BY DEF NotDoneOnCancelled
  <2>2. /\ w.request \in Request /\ w.task \in DOMAIN plan[w.request]
        /\ verified[w.request][w.task] # "yes"
    BY <2>1 DEF TypeInv, WritesOK, Inv, Recorded, Sound
  <2>3. status[w.request] = "COMPLETED" =>
          \A i \in DOMAIN plan[w.request] : verified[w.request][i] = "yes"
    BY <2>1, <2>2 DEF Inv, Standing, Progress
  <2>4. QED
    BY <2>2, <2>3
<1>2. QED
  BY <1>1, Invariant, PTL

\* Whichever hotel the login picks, the bot writes to no reservation but the one of
\* the guest's own hotel, and cancels it only when a human has granted the request.
THEOREM ReservationsAreProtected == Spec => []ReservationsProtected
<1>1. TypeInv /\ Inv => ReservationsProtected
  BY DEF Inv, Recorded, Sound, ReservationsProtected
<1>2. QED
  BY <1>1, Invariant, PTL

\* The page of a reservation, saved by the bot or by the staff after a cancellation,
\* does not bring the reservation back.
THEOREM CancellationsStay == Spec => CancelledForGood
<1>1. TypeInv /\ Inv /\ [Next]_vars => [StaysCancelled]_vars
  <2>1. SUFFICES ASSUME TypeInv, Inv, Next PROVE StaysCancelled
    OBVIOUS
  <2>2. CASE UNCHANGED reservation
    BY <2>2 DEF StaysCancelled
  <2>3. ASSUME NEW r \in Request, Submit(r) PROVE StaysCancelled
    <3>1. stage[r] = "form" /\ Standing(r) /\ UNCHANGED staffPage
      BY <2>1, <2>3 DEF Submit, Inv
    <3>2. session[r] \in Hotel /\ TaskOf(r) \in Task
      BY <2>1, <3>1, InExecution DEF Acting
    <3>3. PICK answer \in {"ok", "error"} : Submission(r, answer)
      BY <2>3 DEF Submit
    <3>4. DeskKept({<<session[r], Receipt(r)>>})
      BY <2>1, <3>1, <3>2, <3>3, SubmissionKeeps DEF TypeInv
    <3>5. QED
      BY <3>4 DEF DeskKept, StaysCancelled
  <2>4. CASE StaffActs
    BY <2>1, <2>4, StaffSteps DEF Inv
  <2>5. ASSUME NEW r \in Request,
               \/ Agents(r) \/ Approve(r) \/ Refuse(r) \/ Worker(r) \/ Finish(r)
               \/ Failures(r)
        PROVE  UNCHANGED reservation \/ Submit(r)
    <3>1. CASE Agents(r) \/ Approve(r) \/ Refuse(r) \/ Finish(r)
      BY <3>1 DEF Agents, ClassifyGuestRequest, PlanGuestRequest, Approve, Refuse, Finish,
         EvaluateGuestRequestPolicy, EscalateRefused, desk
    <3>2. CASE Worker(r)
      BY <3>2 DEF Worker, FindExistingReceipt, ReservationMissing, OpenPage, RecordReceipt,
         VerifyBrowserTask, Verdict, desk
    <3>3. CASE Failures(r)
      BY <3>3 DEF Failures, AttemptFails, ReceiptLost, VerificationFails, Verdict, desk
    <3>4. QED
      BY <2>5, <3>1, <3>2, <3>3
  <2>6. QED
    BY <2>1, <2>2, <2>3, <2>4, <2>5 DEF Next
<1>2. QED
  BY <1>1, Invariant, PTL DEF Spec, CancelledForGood
-----------------------------------------------------------------------------
(* The lifecycle.                                                          *)

AbstractStep(r) == Lifecycle(r)!Next \/ UNCHANGED Lifecycle(r)!vars

Outcome(r) == IF status[r] = None THEN "none" ELSE status[r]
Needed(r) == plan[r] # <<>> /\ NeedsHuman(r)

\* What moves none of the lifecycle's five variables is a stutter.
LEMMA LifecycleRests ==
  ASSUME NEW r \in Request, plan'[r] = plan[r], requestType'[r] = requestType[r],
         human'[r] = human[r], status'[r] = status[r], Touched(r)' = Touched(r)
  PROVE  AbstractStep(r)
<1>1. NeedsHuman(r)' = NeedsHuman(r)
  BY DEF NeedsHuman
<1>2. QED
  BY <1>1 DEF AbstractStep, Lifecycle!vars

\* A step of one request rests in the lifecycle of the others.
LEMMA OthersRest ==
  ASSUME NEW r \in Request, Alone(r), NEW q \in Request \ {r}
  PROVE  AbstractStep(q)
<1>1. Touched(q)' = Touched(q)
  BY DEF Alone, Elsewhere, Touched
<1>2. QED
  BY <1>1, LifecycleRests DEF Alone

\* Before the execution nothing is touched.
LEMMA EarlyUntouched ==
  ASSUME NEW r \in Request, Progress(r), stage[r] \in Early
  PROVE  Touched(r) = {}
  BY DEF Progress, Touched, Early

\* The steps before the execution: the need is assessed once, the human is asked
\* and answers, and a refusal or an unsupported request ends as escalated.
LEMMA EarlyRefines ==
  ASSUME TypeInv, NEW r \in Request, Standing(r), Settles(r),
         Agents(r) \/ Approve(r) \/ Refuse(r)
  PROVE  AbstractStep(r)
<1>1. stage[r] \in Early /\ stage[r] # "done" /\ status[r] = None
  BY DEF Agents, ClassifyGuestRequest, PlanGuestRequest, EvaluateGuestRequestPolicy,
     EscalateRefused, Approve, Refuse, Goes, Early, Standing, Progress
<1>2. Touched(r) = {}
  BY <1>1, EarlyUntouched DEF Standing
<1>3. /\ \A i \in DOMAIN plan'[r] : result'[r][i] = "none"
      /\ tries'[r] = 1 /\ stage'[r] \notin {"form", "submitted"}
  <2>1. CASE stage'[r] \in Early
    BY <2>1 DEF Settles, Standing, Progress, Early
  <2>2. CASE stage'[r] \notin Early
    <3>1. UNCHANGED <<plan, loop>> /\ stage'[r] \in {"execute", "done"}
      BY <1>1, <2>2 DEF Agents, ClassifyGuestRequest, PlanGuestRequest,
         EvaluateGuestRequestPolicy, EscalateRefused, Approve, Refuse, Goes, TypeInv,
         LoopOK, Early, understanding
    <3>2. QED
      BY <1>1, <3>1 DEF Standing, Progress, loop
  <2>3. QED
    BY <2>1, <2>2
<1>4. Touched(r)' = {}
  BY <1>3 DEF Touched
<1>5. CASE ClassifyGuestRequest(r)
  <2>1. plan[r] = <<>> /\ plan' = plan /\ human' = human
    BY <1>5 DEF ClassifyGuestRequest, Goes, Standing, Understood
  <2>2. status'[r] \in {None, "ESCALATED"}
    BY <1>1, <1>5, CloseTypes DEF ClassifyGuestRequest, outcome, TypeInv, FinalStatus
  <2>3. Needed(r)' = Needed(r)
    BY <2>1 DEF Needed
  <2>4. CASE status'[r] = "ESCALATED"
    <3>1. Lifecycle(r)!Close("ESCALATED")
      BY <1>1, <1>2, <1>4, <2>1, <2>3, <2>4 DEF Lifecycle!Close, Lifecycle!Open, Needed, None
    <3>2. QED
      BY <3>1 DEF AbstractStep, Lifecycle!Next, Lifecycle!Outcome
  <2>5. CASE status'[r] = None
    BY <1>1, <1>2, <1>4, <2>1, <2>3, <2>5 DEF AbstractStep, Lifecycle!vars, Needed
  <2>6. QED
    BY <2>2, <2>4, <2>5
<1>6. CASE PlanGuestRequest(r)
  <2>1. human[r] = "none" /\ human' = human /\ status' = status
    BY <1>6 DEF PlanGuestRequest, Goes, Standing, Consented, outcome
  <2>2. Needed(r)' \in BOOLEAN
    BY DEF Needed
  <2>3. Lifecycle(r)!Assess
    BY <1>1, <1>2, <1>4, <2>1, <2>2 DEF Lifecycle!Assess, Lifecycle!Open, Needed, None
  <2>4. QED
    BY <2>3 DEF AbstractStep, Lifecycle!Next
<1>7. CASE EvaluateGuestRequestPolicy(r) \/ Approve(r) \/ Refuse(r)
  <2>1. /\ UNCHANGED <<plan, requestType, status>> /\ stage[r] \in {"planned", "waiting"}
        /\ Needed(r)' = Needed(r) /\ human[r] \in {"none", "asked"}
        /\ plan[r] # <<>>
    <3>1. UNCHANGED <<plan, requestType, status>> /\ stage[r] \in {"planned", "waiting"}
      BY <1>7 DEF EvaluateGuestRequestPolicy, Approve, Refuse, understanding, outcome, Goes
    <3>2. Needed(r)' = Needed(r)
      BY <3>1 DEF Needed, NeedsHuman
    <3>3. QED
      BY <3>1, <3>2 DEF Standing, Understood, Consented
  <2>2. CASE human'[r] = human[r]
    BY <1>2, <1>4, <2>1, <2>2, LifecycleRests
  <2>3. CASE human'[r] # human[r]
    <3>1. \/ human[r] = "none" /\ human'[r] = "asked" /\ Needed(r)
          \/ human[r] = "asked" /\ human'[r] \in {"granted", "refused"}
      BY <1>7, <2>1, <2>3 DEF EvaluateGuestRequestPolicy, Approve, Refuse, Goes, Standing,
         Consented, TypeInv, WordsOK, Needed
    <3>2. Lifecycle(r)!Ask \/ Lifecycle(r)!Answer
      BY <1>1, <1>2, <1>4, <2>1, <3>1 DEF Lifecycle!Ask, Lifecycle!Answer, Lifecycle!Open,
         Needed, None
    <3>3. QED
      BY <3>2 DEF AbstractStep, Lifecycle!Next
  <2>4. QED
    BY <2>2, <2>3
<1>8. CASE EscalateRefused(r)
  <2>1. /\ UNCHANGED <<plan, requestType, human>> /\ human[r] = "refused"
        /\ Close(r, "ESCALATED", {})
    BY <1>8 DEF EscalateRefused, understanding, Goes, Standing, Consented
  <2>2. status'[r] = "ESCALATED"
    BY <2>1, CloseTypes DEF TypeInv, FinalStatus
  <2>3. Needed(r)' = Needed(r)
    BY <2>1 DEF Needed, NeedsHuman
  <2>4. Lifecycle(r)!Close("ESCALATED")
    BY <1>1, <1>2, <1>4, <2>1, <2>2, <2>3 DEF Lifecycle!Close, Lifecycle!Open, Needed, None
  <2>5. QED
    BY <2>4 DEF AbstractStep, Lifecycle!Next, Lifecycle!Outcome
<1>9. QED
  BY <1>5, <1>6, <1>7, <1>8 DEF Agents

\* The worker touches the task in execution, which has the consent it needs.
LEMMA TouchRefines ==
  ASSUME TypeInv, NEW r \in Request, Standing(r), stage[r] \in Acting,
         UNCHANGED <<understanding, human, outcome>>,
         Touched(r)' = Touched(r) \cup {current[r]}
  PROVE  AbstractStep(r)
<1>1. /\ UNCHANGED <<plan, requestType, human, status>>
      /\ status[r] = None /\ current[r] \in {1, 2} /\ Needed(r)' = Needed(r)
  <2>1. UNCHANGED <<plan, requestType, human, status>>
    BY DEF understanding, outcome
  <2>2. QED
    BY <2>1 DEF Needed, NeedsHuman, Standing, Progress, Acting, TypeInv, LoopOK
<1>2. Needed(r) => human[r] = "granted"
  BY DEF Standing, Consented, Needed, Working
<1>3. Lifecycle(r)!Touch(current[r])
  BY <1>1, <1>2 DEF Lifecycle!Touch, Lifecycle!Open, Needed, None
<1>4. QED
  BY <1>1, <1>3 DEF AbstractStep, Lifecycle!Next

\* Every step of an attempt touches its task.
LEMMA AttemptTouches ==
  ASSUME TypeInv, NEW r \in Request, Standing(r), stage[r] \in Acting,
         UNCHANGED understanding,
         \/ Succeeds(r) \/ TryFails(r)
         \/ /\ stage'[r] \in {"form", "submitted"}
            /\ current'[r] = current[r] /\ result'[r] = result[r]
  PROVE  Touched(r)' = Touched(r) \cup {current[r]}
<1>1. /\ UNCHANGED plan /\ current[r] \in DOMAIN plan[r] /\ result[r][current[r]] = "none"
      /\ Understood(r) /\ Progress(r)
  BY DEF understanding, Standing, Progress, Acting
<1>2. CASE /\ stage'[r] \in {"form", "submitted"}
           /\ current'[r] = current[r] /\ result'[r] = result[r]
  BY <1>1, <1>2 DEF Touched
<1>3. CASE Marked(r, "ok") \/ Marked(r, "failed")
  <2>1. /\ result'[r][current[r]] # "none"
        /\ \A i \in DOMAIN plan[r] \ {current[r]} : result'[r][i] = result[r][i]
        /\ tries'[r] = 1 /\ stage'[r] \in {"execute", "verify", "finish"}
    BY <1>3 DEF Marked, Leads
  <2>2. QED
    BY <1>1, <2>1 DEF Touched
<1>4. CASE /\ stage'[r] = "execute" /\ current'[r] = current[r] /\ tries'[r] > 1
           /\ result'[r] = result[r]
  BY <1>1, <1>4 DEF Touched
<1>5. QED
  BY <1>1, <1>2, <1>3, <1>4, SucceedsLeads, TryFailsLeads DEF TypeInv

\* The outcome fits the consent and the tasks.
LEMMA FinishRefines ==
  ASSUME TypeInv, NEW r \in Request, Standing(r), Finish(r)
  PROVE  AbstractStep(r)
<1> DEFINE final == DeriveExecutionStatus(result[r], verified[r])
           completed == {i \in DOMAIN plan[r] : result[r][i] = "ok"}
<1>1. /\ stage[r] = "finish" /\ status[r] = None
      /\ UNCHANGED <<plan, requestType, human, result, current>>
      /\ stage' = [stage EXCEPT ![r] = "done"] /\ Close(r, final, completed)
  BY DEF Finish, Goes, understanding, loop, Standing, Progress
<1>2. /\ final \in FinalStatus
      /\ final = "PARTIALLY_COMPLETED" => \E i \in DOMAIN plan[r] : result[r][i] = "ok"
  BY DEF DeriveExecutionStatus, FinalStatus, Standing, Progress
<1>3. completed \in SUBSET {1, 2}
  BY NothingMarked DEF Standing, Understood
<1> HIDE DEF final, completed
<1>4. status'[r] = final
  BY <1>1, <1>2, <1>3, CloseTypes DEF TypeInv
<1>5. Touched(r)' = Touched(r)
  BY <1>1 DEF Touched, TypeInv, LoopOK
<1>6. final = "PARTIALLY_COMPLETED" => Touched(r) # {}
  BY <1>2 DEF Touched
<1>7. /\ Needed(r)' = Needed(r)
      /\ Needed(r) => human[r] = "granted"
      /\ human[r] # "refused"
  BY <1>1 DEF Needed, NeedsHuman, Standing, Consented, Working
<1>8. Lifecycle(r)!Close(final)
  <2>1. /\ Outcome(r) = "none" /\ Outcome(r)' = final
        /\ final \in {"COMPLETED", "PARTIALLY_COMPLETED", "ESCALATED"}
    BY <1>1, <1>2, <1>4 DEF Outcome, FinalStatus, None
  <2>2. human' = human
    BY <1>1
  <2>3. QED
    BY <1>5, <1>6, <1>7, <2>1, <2>2 DEF Lifecycle!Close, Lifecycle!Open, Needed, Outcome
<1>9. final \in Lifecycle(r)!Outcome
  BY <1>2 DEF FinalStatus, Lifecycle!Outcome
<1>10. QED
  BY <1>8, <1>9 DEF AbstractStep, Lifecycle!Next

\* The loop that has nothing left to execute touches nothing.
LEMMA VerdictRefines ==
  ASSUME TypeInv, NEW r \in Request, Standing(r), stage[r] = "verify",
         NEW seen \in BOOLEAN, Verdict(r, seen)
  PROVE  AbstractStep(r)
<1>1. /\ UNCHANGED <<plan, requestType, human, status, result>> /\ tries'[r] = 1
      /\ stage'[r] \in {"execute", "verify", "finish"}
  BY VerdictLeads DEF Verdict, understanding, outcome, Leads, Standing, TypeInv
<1>2. Touched(r)' = Touched(r)
  BY <1>1 DEF Touched
<1>3. QED
  BY <1>1, <1>2, LifecycleRests

\* Every step of a request is a step of its lifecycle, or a stutter.
LEMMA RequestRefines ==
  ASSUME TypeInv, Recorded, NEW r \in Request, Standing(r),
         \/ Agents(r) \/ Approve(r) \/ Refuse(r) \/ Worker(r) \/ Finish(r) \/ Failures(r)
  PROVE  AbstractStep(r)
<1>1. CASE Agents(r) \/ Approve(r) \/ Refuse(r)
  BY <1>1, RequestSteps, EarlyRefines
<1>2. CASE Finish(r)
  BY <1>2, FinishRefines
<1>3. CASE VerifyBrowserTask(r) \/ VerificationFails(r)
  <2>1. PICK seen \in BOOLEAN : Verdict(r, seen)
    <3>1. \A hotel \in Hotel : Observes(r, hotel) \in BOOLEAN
      BY DEF Observes, RowVisible
    <3>2. QED
      BY <1>3, <3>1 DEF VerifyBrowserTask, VerificationFails
  <2>2. stage[r] = "verify"
    BY <1>3 DEF VerifyBrowserTask, VerificationFails
  <2>3. QED
    BY <2>1, <2>2, VerdictRefines
<1>4. CASE \/ FindExistingReceipt(r) \/ ReservationMissing(r) \/ OpenPage(r)
           \/ Submit(r) \/ RecordReceipt(r) \/ AttemptFails(r) \/ ReceiptLost(r)
  <2>1. stage[r] \in Acting /\ UNCHANGED <<understanding, human, outcome>>
    BY <1>4 DEF FindExistingReceipt, ReservationMissing, OpenPage, Submit, RecordReceipt,
       AttemptFails, ReceiptLost, Acting
  <2>2. \/ Succeeds(r) \/ TryFails(r)
        \/ /\ stage'[r] \in {"form", "submitted"}
           /\ current'[r] = current[r] /\ result'[r] = result[r]
    <3>1. CASE OpenPage(r)
      BY <3>1 DEF OpenPage, loop, TypeInv, LoopOK
    <3>2. CASE Submit(r)
      BY <3>2 DEF Submit, loop, TypeInv, LoopOK
    <3>3. QED
      BY <1>4, <3>1, <3>2 DEF FindExistingReceipt, ReservationMissing, RecordReceipt,
         AttemptFails, ReceiptLost
  <2>3. QED
    BY <2>1, <2>2, AttemptTouches, TouchRefines
<1>5. QED
  BY <1>1, <1>2, <1>3, <1>4 DEF Worker, Failures

\* The staff is behind the lifecycle.
LEMMA StaffRests ==
  ASSUME StaffActs \/ UNCHANGED vars, NEW r \in Request
  PROVE  AbstractStep(r)
<1>1. UNCHANGED <<understanding, stage, human, loop, outcome>>
  BY DEF StaffActs, StaffPosts, StaffOpensReservation, StaffSaves, StaffCancels,
     Untouched, vars
<1>2. Touched(r)' = Touched(r)
  BY <1>1 DEF Touched, understanding, loop
<1>3. QED
  BY <1>1, <1>2, LifecycleRests DEF understanding, outcome

\* Among other guests' requests, the staff and the failures, every request lives the
\* lifecycle a guest is promised: consent first, then tasks, then one outcome.
THEOREM LifecycleImplemented == Spec => ImplementsLifecycle
<1>1. Init => \A r \in Request : Lifecycle(r)!Init
  BY InitRefines
<1>2. TypeInv /\ Inv /\ [Next]_vars =>
        [\A r \in Request : Lifecycle(r)!Next \/ UNCHANGED Lifecycle(r)!vars]_vars
  <2>1. SUFFICES ASSUME TypeInv, Inv, Next, NEW r \in Request PROVE AbstractStep(r)
    BY DEF AbstractStep
  <2>2. ASSUME NEW q \in Request,
               \/ Agents(q) \/ Approve(q) \/ Refuse(q) \/ Worker(q) \/ Finish(q)
               \/ Failures(q)
        PROVE  AbstractStep(r)
    <3>1. CASE q = r
      BY <2>1, <2>2, <3>1, RequestRefines DEF Inv
    <3>2. CASE q # r
      <4>1. Alone(q)
        BY <2>1, <2>2, RequestSteps DEF Inv, Settles
      <4>2. QED
        BY <3>2, <4>1, OthersRest
    <3>3. QED
      BY <3>1, <3>2
  <2>3. CASE StaffActs
    BY <2>3, StaffRests
  <2>4. QED
    BY <2>1, <2>2, <2>3 DEF Next
<1>3. QED
  BY <1>1, <1>2, Invariant, PTL DEF Spec, ImplementsLifecycle
=============================================================================
