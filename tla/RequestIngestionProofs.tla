----------------------- MODULE RequestIngestionProofs -----------------------
(***************************************************************************)
(* Ingestion for any calls, keys, bodies and faults.  StartInv, which the  *)
(* two unique keys of guest_requests carry alone, gives StartedOnce.       *)
(* AnswerInv says of every place a response can come from, the handler,    *)
(* the record and, unless the key is mixed, a waiter's second read, that   *)
(* the guest request there is the caller's.  LockInv says that whoever     *)
(* handles has the lock of its key, as long as nothing goes wrong, and     *)
(* gives OneHandler.                                                       *)
(***************************************************************************)
EXTENDS RequestIngestion, TLAPS

USE SendsAssumption, BoundsAssumption

\* A waiter has polls left, and has polled when it reads its response.
PollsLeft ==
  \A c \in Call :
    /\ phase[c] \in {"idle", "lookup", "lock"} => polled[c] = 0
    /\ phase[c] = "waiting" => polled[c] < Polls
    /\ phase[c] = "fetch" => polled[c] # 0

TypeInv == TypeOK /\ PollsLeft

\* What a call sends is a key with a body.
LEMMA SentTypes ==
  ASSUME CallsOK, NEW c \in Call
  PROVE  KeyOf(c) \in Key /\ BodyOf(c) \in Body
<1>1. sent[c] \in Key \X Body
  BY DEF CallsOK
<1>2. QED
  BY <1>1 DEF KeyOf, BodyOf

\* A call moves on, with or without a new answer.
LEMMA Moved ==
  ASSUME CallsOK, NEW c \in Call, NEW to \in Phase,
         phase' = [phase EXCEPT ![c] = to],
         UNCHANGED sent, polled' \in [Call -> 0 .. Polls],
         \/ UNCHANGED answer /\ (to \in Resolved => answer[c] # None)
         \/ \E k \in Key : answer' = [answer EXCEPT ![c] = k]
  PROVE  CallsOK'
<1>1. phase' \in [Call -> Phase] /\ sent' \in [Call -> Key \X Body]
  BY DEF CallsOK
<1>2. CASE UNCHANGED answer /\ (to \in Resolved => answer[c] # None)
  BY <1>1, <1>2 DEF CallsOK
<1>3. ASSUME NEW k \in Key, answer' = [answer EXCEPT ![c] = k] PROVE CallsOK'
  <2>1. answer' \in [Call -> Key \cup {None}] /\ k # None
    BY <1>3 DEF CallsOK
  <2>2. \A d \in Call : phase'[d] \in Resolved => answer'[d] # None
    BY <1>3, <2>1 DEF CallsOK
  <2>3. QED
    BY <1>1, <2>1, <2>2 DEF CallsOK
<1>4. QED
  BY <1>2, <1>3

\* Every step keeps the types of the calls.
LEMMA CallsStep == CallsOK /\ StoresOK /\ PollsLeft /\ [Next]_vars => CallsOK'
<1>1. SUFFICES ASSUME CallsOK, StoresOK, PollsLeft, Next PROVE CallsOK'
  BY DEF CallsOK, vars
<1> polled \in [Call -> 0 .. Polls]
  BY <1>1 DEF CallsOK
<1>2. ASSUME NEW c \in Call, Steps(c) PROVE CallsOK'
  <2> KeyOf(c) \in Key /\ BodyOf(c) \in Body
    BY <1>1, SentTypes
  <2> \A r \in record[KeyOf(c)] : r.resource \in Key
    BY <1>1 DEF StoresOK, Record
  <2>1. CASE Arrive(c)
    BY <1>1, <2>1, Moved DEF Phase, Resolved, Arrive, Goes
  <2>2. CASE Lookup(c)
    <3>1. CASE Goes(c, "lookup", "lock") /\ UNCHANGED answer
      BY <1>1, <2>2, <3>1, Moved DEF Phase, Resolved, Lookup, Goes
    <3>2. CASE Goes(c, "lookup", "conflict") /\ UNCHANGED answer
      BY <1>1, <2>2, <3>2, Moved DEF Phase, Resolved, Lookup, Goes
    <3>3. CASE Goes(c, "lookup", "answered") /\ \E r \in record[KeyOf(c)] : Responds(c, r.resource)
      BY <1>1, <2>2, <3>3, Moved DEF Phase, Resolved, Lookup, Goes, Responds
    <3>4. QED
      BY <2>2, <3>1, <3>2, <3>3 DEF Lookup
  <2>3. CASE Acquire(c)
    <3>1. CASE Goes(c, "lock", "external")
      BY <1>1, <2>3, <3>1, Moved DEF Phase, Resolved, Acquire, Goes
    <3>2. CASE Goes(c, "lock", "waiting")
      BY <1>1, <2>3, <3>2, Moved DEF Phase, Resolved, Acquire, Goes
    <3>3. QED
      BY <2>3, <3>1, <3>2 DEF Acquire
  <2>4. CASE Poll(c)
    <3>1. polled[c] + 1 \in 0 .. Polls
      BY <1>1, <2>4 DEF PollsLeft, Poll, Goes
    <3>2. polled' \in [Call -> 0 .. Polls]
      BY <2>4, <3>1 DEF Poll
    <3>3. \E to \in {"fetch", "conflict", "waiting"} : Goes(c, "waiting", to)
      BY <2>4 DEF Poll
    <3>4. PICK to \in {"fetch", "conflict", "waiting"} : Goes(c, "waiting", to)
      BY <3>3
    <3>5. QED
      BY <1>1, <2>4, <3>2, <3>4, Moved DEF Phase, Resolved, Poll, Goes
  <2>5. CASE Fetch(c)
    BY <1>1, <2>5, Moved DEF Phase, Resolved, Fetch, Goes, Responds
  <2>6. CASE FindExternal(c)
    <3>1. CASE Known(c) = {} /\ Goes(c, "external", "create") /\ UNCHANGED answer
      BY <1>1, <2>6, <3>1, Moved DEF Phase, Resolved, FindExternal, Goes
    <3>2. CASE \E k \in Known(c) : Goes(c, "external", "store") /\ Responds(c, k)
      BY <1>1, <2>6, <3>2, Moved DEF Phase, Resolved, FindExternal, Known, Goes, Responds
    <3>3. QED
      BY <2>6, <3>1, <3>2 DEF FindExternal
  <2>7. CASE Create(c)
    <3>1. CASE Goes(c, "create", "start") /\ Responds(c, KeyOf(c))
      BY <1>1, <2>7, <3>1, Moved DEF Phase, Resolved, Create, Goes, Responds
    <3>2. CASE Goes(c, "create", "abort") /\ UNCHANGED answer
      BY <1>1, <2>7, <3>2, Moved DEF Phase, Resolved, Create, Goes
    <3>3. QED
      BY <2>7, <3>1, <3>2 DEF Create
  <2>8. CASE StartWorkflow(c)
    BY <1>1, <2>8, Moved DEF CallsOK, Phase, Resolved, StartWorkflow, Goes
  <2>9. CASE StoreRecord(c)
    BY <1>1, <2>9, Moved DEF CallsOK, Phase, Resolved, StoreRecord, Goes
  <2>10. CASE Release(c)
    <3>1. CASE Goes(c, "release", "answered")
      BY <1>1, <2>10, <3>1, Moved DEF CallsOK, Phase, Resolved, Release, Goes
    <3>2. CASE Goes(c, "abort", "error")
      BY <1>1, <2>10, <3>2, Moved DEF Phase, Resolved, Release, Goes
    <3>3. QED
      BY <2>10, <3>1, <3>2 DEF Release
  <2>11. QED
    BY <1>2, <2>1, <2>2, <2>3, <2>4, <2>5, <2>6, <2>7, <2>8, <2>9, <2>10 DEF Steps
<1>3. ASSUME NEW c \in Call, HandlerFails(c) \/ CallDies(c) PROVE CallsOK'
  BY <1>1, <1>3, Moved DEF Phase, Resolved, HandlerFails, CallDies
<1>4. ASSUME NEW k \in Key, LockExpires(k) \/ RecordExpires(k) PROVE CallsOK'
  BY <1>1, <1>4 DEF CallsOK, LockExpires, RecordExpires
<1>5. QED
  BY <1>1, <1>2, <1>3, <1>4 DEF Next

\* Every step keeps the types of Redis and the tables.
LEMMA StoresStep == CallsOK /\ StoresOK /\ [Next]_vars => StoresOK'
<1>1. SUFFICES ASSUME CallsOK, StoresOK, Next PROVE StoresOK'
  BY DEF StoresOK, vars, stores
<1>2. ASSUME NEW c \in Call, Steps(c) PROVE StoresOK'
  <2> KeyOf(c) \in Key /\ BodyOf(c) \in Body
    BY <1>1, SentTypes
  <2>1. CASE Arrive(c) \/ Lookup(c) \/ Poll(c) \/ Fetch(c) \/ FindExternal(c)
    BY <1>1, <2>1 DEF StoresOK, stores, Arrive, Lookup, Poll, Fetch, FindExternal
  <2>2. CASE Acquire(c) \/ Release(c)
    BY <1>1, <2>2 DEF StoresOK, Acquire, Release
  <2>3. CASE Create(c)
    BY <1>1, <2>3 DEF StoresOK, Create
  <2>4. CASE StartWorkflow(c)
    BY <1>1, <2>4 DEF StoresOK, StartWorkflow
  <2>5. CASE StoreRecord(c)
    <3>1. answer[c] \in Key
      BY <1>1, <2>5 DEF CallsOK, Resolved, StoreRecord, Goes
    <3> DEFINE new == [hash |-> BodyOf(c), resource |-> answer[c], expired |-> FALSE]
    <3>2. new \in Record
      BY <3>1 DEF Record
    <3>3. record' = [record EXCEPT ![KeyOf(c)] = {new}]
      BY <2>5 DEF StoreRecord
    <3> HIDE DEF new
    <3>4. record' \in [Key -> SUBSET Record]
      BY <1>1, <3>2, <3>3 DEF StoresOK
    <3>5. \A k \in Key : \A q, r \in record'[k] : q = r
      BY <1>1, <3>3 DEF StoresOK
    <3>6. QED
      BY <1>1, <2>5, <3>4, <3>5 DEF StoresOK, StoreRecord
  <2>6. QED
    BY <1>2, <2>1, <2>2, <2>3, <2>4, <2>5 DEF Steps
<1>3. ASSUME NEW c \in Call, HandlerFails(c) \/ CallDies(c) PROVE StoresOK'
  BY <1>1, <1>3 DEF StoresOK, stores, HandlerFails, CallDies, Fault
<1>4. ASSUME NEW k \in Key, LockExpires(k) PROVE StoresOK'
  BY <1>1, <1>4 DEF StoresOK, LockExpires, Fault
<1>5. ASSUME NEW k \in Key, RecordExpires(k) PROVE StoresOK'
  <2>1. PICK r \in record[k] : record' = [record EXCEPT ![k] = {[r EXCEPT !.expired = TRUE]}]
    BY <1>5 DEF RecordExpires
  <2>2. r \in Record
    BY <1>1 DEF StoresOK
  <2> DEFINE old == [r EXCEPT !.expired = TRUE]
  <2>3. old \in Record
    BY <2>2 DEF Record
  <2> HIDE DEF old
  <2>4. record' \in [Key -> SUBSET Record]
    BY <1>1, <2>1, <2>3 DEF StoresOK, old
  <2>5. \A j \in Key : record'[j] = IF j = k THEN {old} ELSE record[j]
    BY <1>1, <2>1 DEF StoresOK, old
  <2>6. \A j \in Key : \A p, q \in record'[j] : p = q
    BY <1>1, <2>5 DEF StoresOK
  <2>7. QED
    BY <1>1, <1>5, <2>4, <2>6 DEF StoresOK, RecordExpires
<1>6. QED
  BY <1>1, <1>2, <1>3, <1>4, <1>5 DEF Next

\* Every step leaves a waiter with polls, or ends its waiting.
LEMMA PollsStep == CallsOK /\ PollsLeft /\ [Next]_vars => PollsLeft'
<1>1. SUFFICES ASSUME CallsOK, PollsLeft, Next PROVE PollsLeft'
  BY DEF PollsLeft, vars
<1>2. ASSUME NEW c \in Call, Steps(c) PROVE PollsLeft'
  <2>1. CASE Poll(c)
    BY <1>1, <2>1 DEF CallsOK, PollsLeft, Poll, Goes
  <2>2. CASE Arrive(c) \/ Lookup(c) \/ Acquire(c)
    BY <1>1, <2>2 DEF CallsOK, PollsLeft, Arrive, Lookup, Acquire, Goes
  <2>3. CASE \/ Fetch(c) \/ FindExternal(c) \/ Create(c) \/ StartWorkflow(c)
             \/ StoreRecord(c) \/ Release(c)
    BY <1>1, <2>3 DEF CallsOK, PollsLeft, Fetch, FindExternal, Create,
                      StartWorkflow, StoreRecord, Release, Goes
  <2>4. QED
    BY <1>2, <2>1, <2>2, <2>3 DEF Steps
<1>3. ASSUME NEW c \in Call, HandlerFails(c) \/ CallDies(c) PROVE PollsLeft'
  BY <1>1, <1>3 DEF CallsOK, PollsLeft, HandlerFails, CallDies
<1>4. ASSUME NEW k \in Key, LockExpires(k) \/ RecordExpires(k) PROVE PollsLeft'
  BY <1>1, <1>4 DEF PollsLeft, LockExpires, RecordExpires
<1>5. QED
  BY <1>1, <1>2, <1>3, <1>4 DEF Next

\* The types, at every moment.
LEMMA TypeInvariant == Spec => []TypeInv
<1>1. Init => TypeInv
  BY DEF Init, TypeInv, TypeOK, CallsOK, StoresOK, PollsLeft, Phase, Resolved
<1>2. TypeInv /\ [Next]_vars => TypeInv'
  BY CallsStep, StoresStep, PollsStep DEF TypeInv, TypeOK
<1>3. QED
  BY <1>1, <1>2, PTL DEF Spec

\* Type correctness, for any calls, keys, bodies, polls and faults.
THEOREM TypeCorrect == Spec => []TypeOK
  BY TypeInvariant, PTL DEF TypeInv

-----------------------------------------------------------------------------
\* The table's unique keys, and who starts a workflow.
RowsUnique ==
  /\ \A k \in Key : rows[k] # None => KeyOf(rows[k]) = k
  /\ \A j, k \in Key :
       rows[j] # None /\ rows[k] # None /\ Same(BodyOf(rows[j]), BodyOf(rows[k])) => j = k

StartersInserted ==
  /\ \A c \in Call : phase[c] = "start" => rows[KeyOf(c)] = c
  /\ \A k \in Key : \A c \in starts[k] : rows[k] = c

StartInv == RowsUnique /\ StartersInserted

\* No step inserts a second row or starts a second workflow.
LEMMA StartStep == TypeInv /\ StartInv /\ [Next]_vars => StartInv'
<1>1. SUFFICES ASSUME TypeInv, StartInv, Next PROVE StartInv'
  BY DEF StartInv, RowsUnique, StartersInserted, Same, KeyOf, BodyOf, vars
<1> CallsOK /\ StoresOK
  BY <1>1 DEF TypeInv, TypeOK
<1> DEFINE Quiet == UNCHANGED <<sent, rows, starts>>
<1>2. ASSUME Quiet, \A c \in Call : phase'[c] = "start" => phase[c] = "start"
      PROVE  StartInv'
  BY <1>1, <1>2 DEF StartInv, RowsUnique, StartersInserted, Same, KeyOf, BodyOf
<1>3. ASSUME NEW c \in Call, Steps(c) PROVE StartInv'
  <2> KeyOf(c) \in Key /\ BodyOf(c) \in Body
    BY SentTypes
  <2>1. CASE Arrive(c) \/ Lookup(c) \/ Poll(c) \/ Fetch(c) \/ FindExternal(c)
    BY <1>2, <2>1 DEF CallsOK, stores, Arrive, Lookup, Poll, Fetch, FindExternal, Goes
  <2>2. CASE Acquire(c) \/ Release(c) \/ StoreRecord(c)
    BY <1>2, <2>2 DEF CallsOK, Acquire, Release, StoreRecord, Goes
  <2>3. CASE Create(c)
    <3>1. CASE Goes(c, "create", "abort") /\ UNCHANGED rows
      BY <1>2, <2>3, <3>1 DEF CallsOK, Create, Goes
    <3>2. CASE /\ rows[KeyOf(c)] = None /\ Known(c) = {}
               /\ Goes(c, "create", "start")
               /\ rows' = [rows EXCEPT ![KeyOf(c)] = c]
      <4>1. sent' = sent /\ starts' = starts
        BY <2>3 DEF Create
      <4>2. \A k \in Key : rows[k] # None => ~Same(BodyOf(rows[k]), BodyOf(c))
        BY <3>2 DEF Known
      <4>3. \A k \in Key : rows'[k] = IF k = KeyOf(c) THEN c ELSE rows[k]
        BY <3>2 DEF StoresOK
      <4>4. RowsUnique'
        BY <1>1, <4>1, <4>2, <4>3 DEF StartInv, RowsUnique, Same, KeyOf, BodyOf
      <4>5. \A d \in Call : phase'[d] = "start" => d = c \/ phase[d] = "start"
        BY <3>2 DEF CallsOK, Goes
      <4>6. \A d \in Call : d # None
        OBVIOUS
      <4>7. \A d \in Call : KeyOf(d) \in Key
        BY SentTypes
      <4>8. \A d \in Call : phase'[d] = "start" => rows'[KeyOf(d)] = d
        BY <1>1, <3>2, <4>3, <4>5, <4>6, <4>7 DEF StartInv, StartersInserted
      <4>9. \A k \in Key : \A d \in starts[k] : rows'[k] = d
        BY <1>1, <3>2, <4>3, <4>6 DEF StartInv, StartersInserted, StoresOK
      <4>10. QED
        BY <4>1, <4>4, <4>8, <4>9 DEF StartInv, StartersInserted, KeyOf
    <3>3. QED
      BY <2>3, <3>1, <3>2 DEF Create
  <2>4. CASE StartWorkflow(c)
    <3>1. rows[KeyOf(c)] = c /\ sent' = sent /\ rows' = rows
      BY <1>1, <2>4 DEF StartInv, StartersInserted, StartWorkflow, Goes
    <3>2. \A d \in Call : phase'[d] = "start" => phase[d] = "start"
      BY <2>4 DEF CallsOK, StartWorkflow, Goes
    <3>3. \A k \in Key : \A d \in starts'[k] : rows[k] = d
      BY <1>1, <2>4, <3>1 DEF StartInv, StartersInserted, StartWorkflow, StoresOK
    <3>4. QED
      BY <1>1, <3>1, <3>2, <3>3 DEF StartInv, RowsUnique, StartersInserted, Same, KeyOf, BodyOf
  <2>5. QED
    BY <1>3, <2>1, <2>2, <2>3, <2>4 DEF Steps
<1>4. ASSUME NEW c \in Call, HandlerFails(c) \/ CallDies(c) PROVE StartInv'
  BY <1>2, <1>4 DEF CallsOK, stores, HandlerFails, CallDies
<1>5. ASSUME NEW k \in Key, LockExpires(k) \/ RecordExpires(k) PROVE StartInv'
  BY <1>2, <1>5 DEF LockExpires, RecordExpires
<1>6. QED
  BY <1>1, <1>3, <1>4, <1>5 DEF Next

\* Rows and starts are unique at every moment.
LEMMA StartInvariant == Spec => []StartInv
<1>1. Init => StartInv
  BY DEF Init, StartInv, RowsUnique, StartersInserted
<1>2. QED
  BY <1>1, StartStep, TypeInvariant, PTL DEF Spec

\* Safe retries: at most one workflow is ever started for a key or for an
\* externalRequestId, whatever fails, crashes or expires and however many calls
\* race.
THEOREM StartedOnceHolds == Spec => []StartedOnce
<1>1. TypeInv /\ StartInv => StartedOnce
  BY DEF TypeInv, TypeOK, StoresOK, StartInv, RowsUnique, StartersInserted, StartedOnce
<1>2. QED
  BY <1>1, TypeInvariant, StartInvariant, PTL

-----------------------------------------------------------------------------
\* k is the guest request of a call with this key and body.
Fits(k, key, b) ==
  /\ k \in Key /\ rows[k] # None
  /\ IF External[b] = None THEN k = key /\ BodyOf(rows[k]) = b
                           ELSE Same(BodyOf(rows[k]), b)

\* Call c handles and has its guest request, or is answered.
Owes(c) == phase[c] \in {"start", "store", "release"} \/ OwnAnswer(c)

AnswersFit ==
  \A c \in Call : Owes(c) => Fits(answer[c], KeyOf(c), BodyOf(c))

RecordsFit == \A k \in Key : \A r \in record[k] : Fits(r.resource, k, r.hash)

FetchFits ==
  \A c \in Call : phase[c] = "fetch" /\ ~Mixed(KeyOf(c)) =>
    /\ record[KeyOf(c)] # {}
    /\ \A r \in record[KeyOf(c)] : Fits(r.resource, KeyOf(c), BodyOf(c))

AnswerInv == AnswersFit /\ RecordsFit /\ FetchFits

\* The clients have sent what they have sent.
LEMMA MixedStays == UNCHANGED sent => \A k : Mixed(k)' <=> Mixed(k)
  BY DEF Mixed, KeyOf, BodyOf

\* Steps that change only the phases, the polls and the answers.
LEMMA AnswerQuiet ==
  ASSUME TypeInv, AnswerInv, UNCHANGED <<sent, rows, record>>, NEW c \in Call,
         \A d \in Call \ {c} : /\ phase'[d] = phase[d] /\ answer'[d] = answer[d]
                              /\ polled'[d] = polled[d],
         Owes(c)' => Fits(answer'[c], KeyOf(c), BodyOf(c)),
         phase'[c] = "fetch" /\ ~Mixed(KeyOf(c)) =>
           /\ record[KeyOf(c)] # {}
           /\ \A r \in record[KeyOf(c)] : Fits(r.resource, KeyOf(c), BodyOf(c))
  PROVE  AnswerInv'
<1>0. \A k : Mixed(k)' <=> Mixed(k)
  BY MixedStays
<1>1. \A d \in Call : KeyOf(d)' = KeyOf(d) /\ BodyOf(d)' = BodyOf(d)
  BY DEF KeyOf, BodyOf
<1>2. \A k, key, b : Fits(k, key, b)' <=> Fits(k, key, b)
  BY DEF Fits, Same, BodyOf
<1>3. \A d \in Call \ {c} : Owes(d)' => Owes(d)
  BY <1>0, <1>1 DEF Owes, OwnAnswer
<1>4. AnswersFit'
  BY <1>1, <1>2, <1>3 DEF AnswerInv, AnswersFit
<1>5. RecordsFit'
  BY <1>2 DEF AnswerInv, RecordsFit
<1>6. FetchFits'
  BY <1>0, <1>1, <1>2 DEF AnswerInv, FetchFits
<1>7. QED
  BY <1>4, <1>5, <1>6 DEF AnswerInv

\* The upsert puts a fitting answer on record; unless the key is mixed, a waiter
\* that saw another body's record would contradict it.
LEMMA StoreKeepsAnswers ==
  ASSUME TypeInv, StartInv, AnswerInv, NEW c \in Call, StoreRecord(c)
  PROVE  AnswerInv'
<1> CallsOK /\ StoresOK
  BY DEF TypeInv, TypeOK
<1> DEFINE new == [hash |-> BodyOf(c), resource |-> answer[c], expired |-> FALSE]
<1>1. sent' = sent /\ rows' = rows /\ answer' = answer /\ polled' = polled
  BY DEF StoreRecord
<1> \A k : Mixed(k)' <=> Mixed(k)
  BY <1>1, MixedStays
<1>2. \A k \in Key : record'[k] = IF k = KeyOf(c) THEN {new} ELSE record[k]
  BY DEF StoreRecord, StoresOK
<1>3. \A d \in Call : phase'[d] = IF d = c THEN "release" ELSE phase[d]
  BY DEF StoreRecord, Goes, CallsOK
<1>4. Fits(answer[c], KeyOf(c), BodyOf(c))
  BY DEF StoreRecord, Goes, AnswerInv, AnswersFit, Owes
<1>5. AnswersFit'
  <2>1. \A d \in Call : Owes(d)' => Fits(answer[d], KeyOf(d), BodyOf(d))
    <3>1. \A d \in Call \ {c} : Owes(d)' => Owes(d)
      BY <1>1, <1>3 DEF Owes, OwnAnswer, KeyOf
    <3>2. QED
      BY <1>4, <3>1 DEF AnswerInv, AnswersFit
  <2>2. QED
    BY <1>1, <2>1 DEF AnswersFit, Fits, Same, KeyOf, BodyOf
<1>6. RecordsFit'
  <2>1. \A k \in Key : \A r \in record'[k] : Fits(r.resource, k, r.hash)
    BY <1>2, <1>4 DEF AnswerInv, RecordsFit
  <2>2. QED
    BY <1>1, <2>1 DEF RecordsFit, Fits, Same, BodyOf
<1>7. FetchFits'
  <2>1. SUFFICES ASSUME NEW d \in Call, phase'[d] = "fetch", ~Mixed(KeyOf(d))
                 PROVE  /\ record'[KeyOf(d)] # {}
                        /\ \A r \in record'[KeyOf(d)] : Fits(r.resource, KeyOf(d), BodyOf(d))
    BY <1>1 DEF FetchFits, Fits, Same, KeyOf, BodyOf
  <2>2. KeyOf(d) \in Key /\ BodyOf(d) \in Body
    BY SentTypes
  <2>3. KeyOf(c) \in Key /\ BodyOf(c) \in Body
    BY SentTypes
  <2>4. phase[d] = "fetch"
    BY <1>3, <2>1
  <2>5. /\ record[KeyOf(d)] # {}
        /\ \A r \in record[KeyOf(d)] : Fits(r.resource, KeyOf(d), BodyOf(d))
    BY <2>1, <2>4 DEF AnswerInv, FetchFits
  <2>6. CASE KeyOf(d) # KeyOf(c)
    <3>1. record'[KeyOf(d)] = record[KeyOf(d)]
      BY <1>2, <2>2, <2>6
    <3>2. QED
      BY <2>5, <3>1
  <2>7. CASE KeyOf(d) = KeyOf(c) /\ BodyOf(d) = BodyOf(c)
    <3>1. record'[KeyOf(d)] = {new}
      BY <1>2, <2>2, <2>7
    <3>2. new.resource = answer[c]
      OBVIOUS
    <3>3. Fits(answer[c], KeyOf(d), BodyOf(d))
      BY <1>4, <2>7
    <3>4. \A r \in record'[KeyOf(d)] : Fits(r.resource, KeyOf(d), BodyOf(d))
      BY <3>1, <3>2, <3>3
    <3>5. QED
      BY <3>1, <3>4
  <2>8. CASE KeyOf(d) = KeyOf(c) /\ BodyOf(d) # BodyOf(c)
    <3>1. External[BodyOf(d)] = None /\ External[BodyOf(c)] = None
      BY <2>1, <2>8 DEF Mixed
    <3>2. BodyOf(rows[KeyOf(d)]) = BodyOf(d)
      BY <2>5, <3>1 DEF Fits
    <3>3. BodyOf(rows[KeyOf(c)]) = BodyOf(c)
      BY <1>4, <3>1 DEF Fits
    <3>4. QED
      BY <2>8, <3>2, <3>3
  <2>9. QED
    BY <2>6, <2>7, <2>8
<1>8. QED
  BY <1>5, <1>6, <1>7 DEF AnswerInv

\* The insert adds a row of its own and changes none.
LEMMA CreateKeepsAnswers ==
  ASSUME TypeInv, StartInv, AnswerInv, NEW c \in Call, Create(c)
  PROVE  AnswerInv'
<1> CallsOK /\ StoresOK
  BY DEF TypeInv, TypeOK
<1> KeyOf(c) \in Key /\ BodyOf(c) \in Body
  BY SentTypes
<1>1. sent' = sent /\ record' = record /\ polled' = polled
  BY DEF Create
<1> \A k : Mixed(k)' <=> Mixed(k)
  BY <1>1, MixedStays
<1>2. CASE Goes(c, "create", "abort") /\ UNCHANGED <<rows, answer>>
  <2>1. phase'[c] = "abort" /\ \A d \in Call \ {c} : phase'[d] = phase[d]
    BY <1>2 DEF Goes, CallsOK
  <2>2. QED
    BY <1>1, <1>2, <2>1, AnswerQuiet DEF Owes, OwnAnswer
<1>3. CASE /\ rows[KeyOf(c)] = None /\ Goes(c, "create", "start")
           /\ rows' = [rows EXCEPT ![KeyOf(c)] = c] /\ Responds(c, KeyOf(c))
  <2>1. \A k \in Key : rows[k] # None => rows'[k] = rows[k]
    BY <1>3 DEF StoresOK
  <2>2. rows'[KeyOf(c)] = c /\ c # None
    BY <1>3 DEF StoresOK
  <2>3. \A d \in Call : /\ phase'[d] = IF d = c THEN "start" ELSE phase[d]
                        /\ answer'[d] = IF d = c THEN KeyOf(c) ELSE answer[d]
    BY <1>3 DEF Goes, Responds, CallsOK
  <2>4. \A d \in Call : KeyOf(d) \in Key /\ BodyOf(d) \in Body /\ answer[d] \in Key \cup {None}
    BY SentTypes DEF CallsOK
  <2>5. Fits(answer[c], KeyOf(c), BodyOf(c))' 
    BY <1>1, <2>2, <2>3 DEF Fits, Same, KeyOf, BodyOf
  <2>7. \A d \in Call \ {c} : Owes(d)' => Owes(d) /\ Fits(answer[d], KeyOf(d), BodyOf(d))
    <3>1. \A d \in Call \ {c} : Owes(d)' => Owes(d)
      BY <1>1, <2>3 DEF Owes, OwnAnswer, KeyOf
    <3>2. QED
      BY <3>1 DEF AnswerInv, AnswersFit
  <2> DEFINE Row(k) == sent[rows'[k]][2]
             Still(k, key, b) ==
               /\ k \in Key /\ rows'[k] # None
               /\ IF External[b] = None THEN k = key /\ Row(k) = b
                  ELSE External[Row(k)] # None /\ External[Row(k)] = External[b]
  <2>8. ASSUME NEW k \in Key \cup {None}, NEW key \in Key, NEW b \in Body, Fits(k, key, b)
        PROVE  Still(k, key, b)
    BY <2>1, <2>8 DEF Fits, Same, BodyOf
  <2>9. AnswersFit'
    <3>1. ASSUME NEW d \in Call \ {c}, Owes(d)'
          PROVE  Fits(answer[d], KeyOf(d), BodyOf(d))'
      <4>1. Still(answer[d], KeyOf(d), BodyOf(d))
        BY <2>3, <2>4, <2>7, <2>8, <3>1
      <4>2. QED
        BY <1>1, <2>3, <4>1 DEF Fits, Same, KeyOf, BodyOf
    <3>2. QED
      BY <2>5, <3>1 DEF AnswersFit
  <2>10. \A k \in Key : \A r \in record[k] : r.resource \in Key /\ r.hash \in Body
    BY DEF StoresOK, Record
  <2>11. RecordsFit'
    <3>1. ASSUME NEW k \in Key, NEW r \in record[k] PROVE Still(r.resource, k, r.hash)
      BY <2>8, <2>10 DEF AnswerInv, RecordsFit
    <3>2. QED
      BY <1>1, <3>1 DEF RecordsFit, Fits, Same, BodyOf
  <2>12. FetchFits'
    <3>1. ASSUME NEW d \in Call, phase'[d] = "fetch", ~Mixed(KeyOf(d)),
                 NEW r \in record[KeyOf(d)]
          PROVE  Still(r.resource, KeyOf(d), BodyOf(d))
      BY <2>3, <2>4, <2>8, <2>10, <3>1 DEF AnswerInv, FetchFits
    <3>2. \A d \in Call : phase'[d] = "fetch" /\ ~Mixed(KeyOf(d)) => record[KeyOf(d)] # {}
      BY <2>3 DEF AnswerInv, FetchFits
    <3>3. QED
      BY <1>1, <3>1, <3>2 DEF FetchFits, Fits, Same, KeyOf, BodyOf
  <2>13. QED
    BY <2>9, <2>11, <2>12 DEF AnswerInv
<1>4. QED
  BY <1>2, <1>3 DEF Create

\* Every step gives each call an answer that fits it.
LEMMA AnswerStep == TypeInv /\ StartInv /\ AnswerInv /\ [Next]_vars => AnswerInv'
<1> SUFFICES ASSUME TypeInv, StartInv, AnswerInv, [Next]_vars PROVE AnswerInv'
  OBVIOUS
<1> CallsOK /\ StoresOK
  BY DEF TypeInv, TypeOK
<1>1. CASE UNCHANGED vars
  BY <1>1 DEF vars, AnswerInv, AnswersFit, RecordsFit, FetchFits, Fits, Same, Owes,
              OwnAnswer, Mixed, KeyOf, BodyOf
<1>2. ASSUME NEW c \in Call, Steps(c) PROVE AnswerInv'
  <2> KeyOf(c) \in Key /\ BodyOf(c) \in Body
    BY SentTypes
  <2> DEFINE Others == \A d \in Call \ {c} : /\ phase'[d] = phase[d] /\ answer'[d] = answer[d]
                                             /\ polled'[d] = polled[d]
             Here == Owes(c) => Fits(answer[c], KeyOf(c), BodyOf(c))
  <2>0. Here
    BY DEF AnswerInv, AnswersFit
  <2>1. CASE Arrive(c) \/ Acquire(c)
    <3>1. Others /\ phase'[c] \in {"lookup", "external", "waiting"}
      BY <2>1 DEF CallsOK, Arrive, Acquire, Goes
    <3>2. UNCHANGED <<sent, rows, record>>
      BY <2>1 DEF Arrive, Acquire, stores
    <3>3. QED
      BY <3>1, <3>2, AnswerQuiet DEF Owes, OwnAnswer
  <2>2. CASE Lookup(c)
    <3>1. Others /\ UNCHANGED <<sent, rows, record>>
      BY <2>2 DEF CallsOK, Lookup, Goes, Responds, stores
    <3>2. CASE phase'[c] \in {"lock", "conflict"}
      BY <3>1, <3>2, AnswerQuiet DEF Owes, OwnAnswer
    <3>3. CASE \E r \in record[KeyOf(c)] :
                 /\ r.hash = BodyOf(c)
                 /\ Goes(c, "lookup", "answered") /\ Responds(c, r.resource)
      <4>1. PICK r \in record[KeyOf(c)] :
                 /\ r.hash = BodyOf(c)
                 /\ Goes(c, "lookup", "answered") /\ Responds(c, r.resource)
        BY <3>3
      <4>2. Fits(r.resource, KeyOf(c), BodyOf(c))
        BY <4>1 DEF AnswerInv, RecordsFit
      <4>3. phase'[c] = "answered" /\ answer'[c] = r.resource
        BY <4>1 DEF Goes, Responds, CallsOK
      <4>4. QED
        BY <3>1, <4>2, <4>3, AnswerQuiet
    <3>4. QED
      BY <2>2, <3>2, <3>3 DEF Lookup, Goes, CallsOK
  <2>3. CASE Poll(c)
    <3>1. Others /\ UNCHANGED <<sent, rows, record>>
      BY <2>3 DEF CallsOK, Poll, Goes, stores
    <3>2. CASE phase'[c] \in {"conflict", "waiting"}
      BY <3>1, <3>2, AnswerQuiet DEF Owes, OwnAnswer
    <3>3. CASE \E r \in record[KeyOf(c)] : r.hash = BodyOf(c) /\ phase'[c] = "fetch"
      <4>1. PICK r \in record[KeyOf(c)] : r.hash = BodyOf(c)
        BY <3>3
      <4>2. Fits(r.resource, KeyOf(c), BodyOf(c))
        BY <4>1 DEF AnswerInv, RecordsFit
      <4>3. \A q \in record[KeyOf(c)] : q = r
        BY DEF StoresOK
      <4>4. QED
        BY <3>1, <3>3, <4>2, <4>3, AnswerQuiet DEF Owes, OwnAnswer
    <3>4. QED
      BY <2>3, <3>2, <3>3 DEF Poll, Goes, CallsOK
  <2>4. CASE Fetch(c)
    <3>1. PICK r \in record[KeyOf(c)] : Responds(c, r.resource)
      BY <2>4 DEF Fetch
    <3>2. Others /\ UNCHANGED <<sent, rows, record>>
      BY <2>4, <3>1 DEF CallsOK, Fetch, Goes, Responds, stores
    <3>3. phase'[c] = "answered" /\ answer'[c] = r.resource
      BY <2>4, <3>1 DEF Fetch, Goes, Responds, CallsOK
    <3>4. ~Mixed(KeyOf(c)) => Fits(r.resource, KeyOf(c), BodyOf(c))
      BY <2>4 DEF AnswerInv, FetchFits, Fetch, Goes
    <3>5. polled'[c] # 0 /\ UNCHANGED sent
      BY <2>4 DEF TypeInv, PollsLeft, Fetch, Goes
    <3>6. KeyOf(c)' = KeyOf(c) /\ (Mixed(KeyOf(c))' <=> Mixed(KeyOf(c)))
      BY <3>5, MixedStays DEF KeyOf
    <3>7. Owes(c)' => ~Mixed(KeyOf(c))
      BY <3>3, <3>5, <3>6 DEF Owes, OwnAnswer
    <3>8. QED
      BY <3>2, <3>3, <3>4, <3>7, AnswerQuiet
  <2>5. CASE FindExternal(c)
    <3>1. Others /\ UNCHANGED <<sent, rows, record>>
      BY <2>5 DEF CallsOK, FindExternal, Goes, Responds, stores
    <3>2. CASE Goes(c, "external", "create")
      <4>1. phase'[c] = "create"
        BY <3>2 DEF Goes, CallsOK
      <4>2. QED
        BY <3>1, <4>1, AnswerQuiet DEF Owes, OwnAnswer
    <3>3. CASE \E k \in Known(c) : Goes(c, "external", "store") /\ Responds(c, k)
      <4>1. PICK k \in Known(c) : Goes(c, "external", "store") /\ Responds(c, k)
        BY <3>3
      <4>2. Fits(k, KeyOf(c), BodyOf(c))
        BY DEF Known, Fits, Same
      <4>3. phase'[c] = "store" /\ answer'[c] = k
        BY <4>1 DEF Goes, Responds, CallsOK, Known
      <4>4. QED
        BY <3>1, <4>2, <4>3, AnswerQuiet
    <3>4. QED
      BY <2>5, <3>2, <3>3 DEF FindExternal
  <2>6. CASE StartWorkflow(c) \/ Release(c)
    <3>1. Others /\ UNCHANGED <<sent, rows, record, answer>>
      BY <2>6 DEF CallsOK, StartWorkflow, Release, Goes
    <3>2. \/ phase'[c] = "error"
          \/ phase[c] \in {"start", "release"} /\ phase'[c] \in {"store", "answered"}
      BY <2>6 DEF CallsOK, StartWorkflow, Release, Goes
    <3>3. QED
      BY <2>0, <3>1, <3>2, AnswerQuiet DEF Owes, OwnAnswer
  <2>7. QED
    BY <1>2, <2>1, <2>2, <2>3, <2>4, <2>5, <2>6, CreateKeepsAnswers, StoreKeepsAnswers
       DEF Steps
<1>3. ASSUME NEW c \in Call, HandlerFails(c) \/ CallDies(c) PROVE AnswerInv'
  <2>1. /\ \A d \in Call \ {c} : /\ phase'[d] = phase[d] /\ answer'[d] = answer[d]
                                 /\ polled'[d] = polled[d]
        /\ UNCHANGED <<sent, rows, record>>
        /\ phase'[c] \in {"abort", "error"}
    BY <1>3 DEF CallsOK, HandlerFails, CallDies, stores
  <2>2. QED
    BY <2>1, AnswerQuiet DEF Owes, OwnAnswer
<1>4. ASSUME NEW k \in Key, LockExpires(k) PROVE AnswerInv'
  BY <1>4 DEF LockExpires, AnswerInv, AnswersFit, RecordsFit, FetchFits, Fits, Same,
              Owes, OwnAnswer, Mixed, KeyOf, BodyOf
<1>5. ASSUME NEW k \in Key, RecordExpires(k) PROVE AnswerInv'
  <2>1. PICK r \in record[k] : record' = [record EXCEPT ![k] = {[r EXCEPT !.expired = TRUE]}]
    BY <1>5 DEF RecordExpires
  <2> DEFINE old == [r EXCEPT !.expired = TRUE]
  <2>2. UNCHANGED <<phase, answer, polled, sent, rows>>
    BY <1>5 DEF RecordExpires
  <2>3. r \in Record
    BY DEF StoresOK
  <2>4. old.resource = r.resource /\ old.hash = r.hash
    BY <2>3 DEF Record
  <2>5. \A j \in Key : record'[j] = IF j = k THEN {old} ELSE record[j]
    BY <2>1 DEF StoresOK
  <2> HIDE DEF old
  <2>6. \A j \in Key : \A q \in record'[j] : Fits(q.resource, j, q.hash)
    BY <2>4, <2>5 DEF AnswerInv, RecordsFit
  <2>7. ASSUME NEW c \in Call, phase[c] = "fetch", ~Mixed(KeyOf(c))
        PROVE  /\ record'[KeyOf(c)] # {}
               /\ \A q \in record'[KeyOf(c)] : Fits(q.resource, KeyOf(c), BodyOf(c))
    <3>1. KeyOf(c) \in Key
      BY SentTypes
    <3>2. /\ record[KeyOf(c)] # {}
          /\ \A q \in record[KeyOf(c)] : Fits(q.resource, KeyOf(c), BodyOf(c))
      BY <2>7 DEF AnswerInv, FetchFits
    <3>3. CASE KeyOf(c) = k
      BY <2>4, <2>5, <3>1, <3>2, <3>3
    <3>4. CASE KeyOf(c) # k
      <4>1. record'[KeyOf(c)] = record[KeyOf(c)]
        BY <2>5, <3>1, <3>4
      <4>2. QED
        BY <3>2, <4>1
    <3>5. QED
      BY <3>3, <3>4
  <2>8. AnswersFit'
    BY <2>2 DEF AnswerInv, AnswersFit, Fits, Same, Owes, OwnAnswer, Mixed, KeyOf, BodyOf
  <2>9. RecordsFit'
    BY <2>2, <2>6 DEF RecordsFit, Fits, Same, BodyOf
  <2>10. FetchFits'
    BY <2>2, <2>7 DEF FetchFits, Fits, Same, Mixed, KeyOf, BodyOf
  <2>11. QED
    BY <2>8, <2>9, <2>10 DEF AnswerInv
<1>6. QED
  BY <1>1, <1>2, <1>3, <1>4, <1>5 DEF Next

\* Answers fit at every moment.
LEMMA AnswerInvariant == Spec => []AnswerInv
<1>1. Init => AnswerInv
  BY DEF Init, AnswerInv, AnswersFit, RecordsFit, FetchFits, Owes, OwnAnswer
<1>2. QED
  BY <1>1, AnswerStep, TypeInvariant, StartInvariant, PTL DEF Spec

\* A client is answered with its own request, from whichever of the four places
\* the answer comes, whatever keys are reused and whatever expires meanwhile: only
\* a waiter under a mixed key may not be.
THEOREM AnswerFitsHolds == Spec => []AnswerFits
<1>1. AnswerInv => AnswerFits
  BY DEF AnswerInv, AnswersFit, AnswerFits, Owes, Fits
<1>2. QED
  BY <1>1, AnswerInvariant, PTL

\* Duplicates get one answer: answered calls with a key, or with an
\* externalRequestId, name the same guest request, but for waiters and for unequal
\* bodies under a mixed key.
THEOREM SameAnswerHolds == Spec => []SameAnswer
<1>1. TypeInv /\ StartInv /\ AnswerInv => SameAnswer
  <2>1. SUFFICES ASSUME TypeInv, StartInv, AnswerInv, NEW c \in Call, NEW d \in Call,
                        OwnAnswer(c), OwnAnswer(d),
                        \/ Same(BodyOf(c), BodyOf(d))
                        \/ KeyOf(c) = KeyOf(d) /\ (Mixed(KeyOf(c)) => BodyOf(c) = BodyOf(d))
                 PROVE  answer[c] = answer[d]
    BY DEF SameAnswer
  <2>2. Fits(answer[c], KeyOf(c), BodyOf(c)) /\ Fits(answer[d], KeyOf(d), BodyOf(d))
    BY <2>1 DEF AnswerInv, AnswersFit, Owes
  <2>3. CASE Same(BodyOf(c), BodyOf(d))
    <3>1. Same(BodyOf(rows[answer[c]]), BodyOf(rows[answer[d]]))
      BY <2>2, <2>3 DEF Fits, Same
    <3>2. QED
      BY <2>1, <2>2, <3>1 DEF Fits, StartInv, RowsUnique
  <2>4. CASE KeyOf(c) = KeyOf(d) /\ ~Same(BodyOf(c), BodyOf(d))
    <3>1. External[BodyOf(c)] = None /\ External[BodyOf(d)] = None
      <4>1. CASE BodyOf(c) = BodyOf(d)
        BY <2>4, <4>1 DEF Same
      <4>2. CASE BodyOf(c) # BodyOf(d) /\ ~Mixed(KeyOf(c))
        BY <2>4, <4>2 DEF Mixed
      <4>3. QED
        BY <2>1, <2>4, <4>1, <4>2
    <3>2. QED
      BY <2>2, <2>4, <3>1 DEF Fits
  <2>5. QED
    BY <2>1, <2>3, <2>4
<1>2. QED
  BY <1>1, TypeInvariant, StartInvariant, AnswerInvariant, PTL

-----------------------------------------------------------------------------
\* From the lock to its release.
Holds(c) == phase[c] \in {"external", "create", "start", "store", "release", "abort"}

\* Who holds a lock has it, while nothing has gone wrong.
LockInv == faults = 0 => \A c \in Call : Holds(c) => lock[KeyOf(c)] = c

\* A step of a call changes the lock of its key only: it takes it if it is free, or
\* gives it back.
LEMMA LockStep ==
  ASSUME TypeInv, LockInv, Next, faults' = 0
  PROVE  LockInv'
<1> CallsOK /\ StoresOK
  BY DEF TypeInv, TypeOK
<1>1. faults \in Nat /\ ~Fault /\ faults' # 1
  BY DEF StoresOK, Fault
<1>2. ASSUME NEW c \in Call, Steps(c) PROVE LockInv'
  <2> KeyOf(c) \in Key
    BY SentTypes
  <2>1. /\ \A d \in Call \ {c} : phase'[d] = phase[d]
        /\ sent' = sent /\ faults' = faults
    BY <1>2 DEF CallsOK, Steps, Goes, Arrive, Lookup, Acquire, Poll, Fetch, FindExternal,
                Create, StartWorkflow, StoreRecord, Release
  <2>2. \A d \in Call : KeyOf(d) \in Key /\ KeyOf(d)' = KeyOf(d)
    BY <2>1, SentTypes DEF KeyOf
  <2>3. CASE UNCHANGED lock /\ (Holds(c)' => Holds(c))
    BY <2>1, <2>2, <2>3 DEF LockInv, Holds
  <2>4. CASE lock[KeyOf(c)] = None /\ lock' = [lock EXCEPT ![KeyOf(c)] = c]
    <3>1. \A d \in Call \ {c} : Holds(d) => KeyOf(d) # KeyOf(c)
      BY <2>1, <2>4 DEF LockInv
    <3> QED BY <2>1, <2>2, <2>4, <3>1 DEF LockInv, Holds, StoresOK
  <2>5. CASE Holds(c) /\ ~Holds(c)' /\ lock' = [lock EXCEPT ![KeyOf(c)] = None]
    <3>1. \A d \in Call \ {c} : Holds(d) => KeyOf(d) # KeyOf(c)
      BY <2>1, <2>5 DEF LockInv
    <3> QED BY <2>1, <2>2, <2>5, <3>1 DEF LockInv, Holds, StoresOK
  <2>6. CASE Arrive(c) \/ Lookup(c) \/ Poll(c) \/ Fetch(c)
    BY <2>3, <2>6 DEF Arrive, Lookup, Poll, Fetch, Goes, Holds, CallsOK, stores
  <2>7. CASE FindExternal(c) \/ Create(c) \/ StartWorkflow(c) \/ StoreRecord(c)
    BY <2>3, <2>7 DEF FindExternal, Create, StartWorkflow, StoreRecord, Goes, Holds, CallsOK,
                      stores
  <2>8. CASE Acquire(c)
    BY <2>3, <2>4, <2>8 DEF Acquire, Goes, Holds, CallsOK
  <2>9. CASE Release(c)
    BY <2>5, <2>9 DEF Release, Goes, Holds, CallsOK
  <2> QED BY <1>2, <2>6, <2>7, <2>8, <2>9 DEF Steps
<1>3. ASSUME NEW k \in Key, LockExpires(k) PROVE LockInv'
  <2>1. faults' = faults /\ lock[k] # None /\ ~Active(lock[k])
    BY <1>1, <1>3 DEF LockExpires
  <2>2. \A d \in Call : Holds(d) => KeyOf(d) # k
    BY <2>1 DEF LockInv, Holds, Active
  <2>3. \A d \in Call : KeyOf(d) \in Key
    BY SentTypes
  <2>4. lock' = [lock EXCEPT ![k] = None] /\ UNCHANGED <<phase, sent>>
    BY <1>3 DEF LockExpires
  <2>5. \A j \in Key \ {k} : lock'[j] = lock[j]
    BY <2>4 DEF StoresOK
  <2> QED BY <2>1, <2>2, <2>3, <2>4, <2>5 DEF LockInv, Holds, KeyOf
<1>4. ASSUME NEW k \in Key, RecordExpires(k) PROVE LockInv'
  BY <1>4 DEF RecordExpires, LockInv, Holds, KeyOf
<1>5. ASSUME NEW c \in Call, HandlerFails(c) \/ CallDies(c) PROVE LockInv'
  BY <1>1, <1>5 DEF HandlerFails, CallDies
<1> QED BY <1>2, <1>3, <1>4, <1>5 DEF Next

\* Until a lock expires in use or a call dies, calls with the same key are handled
\* one at a time, however many there are.
THEOREM OneHandlerHolds == Spec => []OneHandler
<1>1. Init => LockInv
  BY DEF Init, LockInv, Holds
<1>2. TypeInv /\ LockInv /\ [Next]_vars => LockInv'
  <2>1. LockInv /\ UNCHANGED vars => LockInv'
    BY DEF LockInv, Holds, KeyOf, vars
  <2> QED BY <2>1, LockStep DEF LockInv
<1>3. LockInv => OneHandler
  BY DEF LockInv, OneHandler, Holds, Handling
<1> QED BY <1>1, <1>2, <1>3, TypeInvariant, PTL DEF Spec
=============================================================================
