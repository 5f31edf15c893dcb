-------------------------- MODULE RequestIngestion --------------------------
(***************************************************************************)
(* Calls of POST /requests and of the channel endpoints, of one tenant:    *)
(* IdempotencyService.execute around RequestService.createRequest.  A      *)
(* call is answered from the idempotency record of its key, or takes a     *)
(* lock in Redis and handles the request, or waits for the record of the   *)
(* call that has the lock.  Handling inserts the guest request, unless its *)
(* externalRequestId is known, and starts its workflow.                    *)
(*                                                                         *)
(* Each await is a step.  The hash of a body is the body.  A guest request *)
(* is named by its key (unique per tenant), and its row holds the call     *)
(* that inserted it, for that call's body.                                 *)
(***************************************************************************)
EXTENDS Naturals, FiniteSets

CONSTANTS
  Call, Key, Body,
  None,
  Sends,      \* the pairs of key and body that each call may send
  External,   \* externalRequestId of each body, or None
  Polls,      \* lookups of waitForRecord before it gives up (20)
  MaxFaults   \* bound: locks that expire in use, errors and crashes

ASSUME SendsAssumption ==
  /\ Sends \in [Call -> SUBSET (Key \X Body)]
  /\ None \notin Call \cup Key
ASSUME BoundsAssumption == Polls \in Nat \ {0} /\ MaxFaults \in Nat

VARIABLES
  phase,    \* where each call is
  sent,     \* its key and body
  polled,   \* lookups it has done as a waiter
  answer,   \* the guest request of its response
  lock,     \* Redis, per key: the call that set it, or None
  record,   \* idempotency_records: {} or one row per key
  rows,     \* guest_requests, by key: the call that inserted it, or None
  starts,   \* workflow.start calls that reached Temporal, by workflow id (key)
  faults

vars == <<phase, sent, polled, answer, lock, record, rows, starts, faults>>
stores == <<lock, record, rows, starts>>

Record == [hash : Body, resource : Key, expired : BOOLEAN]

KeyOf(c)  == sent[c][1]
BodyOf(c) == sent[c][2]

Init ==
  /\ phase = [c \in Call |-> "idle"]
  /\ sent \in [Call -> Key \X Body] /\ \A c \in Call : sent[c] \in Sends[c]
  /\ polled = [c \in Call |-> 0]
  /\ answer = [c \in Call |-> None]
  /\ lock = [k \in Key |-> None]
  /\ record = [k \in Key |-> {}]
  /\ rows = [k \in Key |-> None]
  /\ starts = [k \in Key |-> {}]
  /\ faults = 0

Goes(c, from, to) == phase[c] = from /\ phase' = [phase EXCEPT ![c] = to]

Responds(c, k) == answer' = [answer EXCEPT ![c] = k]
-----------------------------------------------------------------------------
Arrive(c) ==
  /\ Goes(c, "idle", "lookup")
  /\ UNCHANGED <<sent, polled, answer, stores, faults>>

\* Faulty: the cached response is given whatever body comes with the key.
LookupAnyBody(c) ==
  /\ \/ record[KeyOf(c)] = {} /\ Goes(c, "lookup", "lock") /\ UNCHANGED answer
     \/ \E r \in record[KeyOf(c)] :
          \/ /\ r.expired
             /\ Goes(c, "lookup", "lock") /\ UNCHANGED answer
          \/ /\ ~r.expired
             /\ Goes(c, "lookup", "answered") /\ Responds(c, r.resource)
  /\ UNCHANGED <<sent, polled, stores, faults>>

\* execute looks the record up: another body is refused, even if expired.
Lookup(c) ==
  /\ \/ record[KeyOf(c)] = {} /\ Goes(c, "lookup", "lock") /\ UNCHANGED answer
     \/ \E r \in record[KeyOf(c)] :
          \/ /\ r.hash # BodyOf(c)
             /\ Goes(c, "lookup", "conflict") /\ UNCHANGED answer
          \/ /\ r.hash = BodyOf(c) /\ r.expired
             /\ Goes(c, "lookup", "lock") /\ UNCHANGED answer
          \/ /\ r.hash = BodyOf(c) /\ ~r.expired
             /\ Goes(c, "lookup", "answered") /\ Responds(c, r.resource)
  /\ UNCHANGED <<sent, polled, stores, faults>>

\* Faulty: the lock is set without NX.
AcquireAlways(c) ==
  /\ Goes(c, "lock", "external")
  /\ lock' = [lock EXCEPT ![KeyOf(c)] = c]
  /\ UNCHANGED <<sent, polled, answer, record, rows, starts, faults>>

\* SET NX EX.  The record is not looked up again.
Acquire(c) ==
  /\ \/ /\ lock[KeyOf(c)] = None
        /\ Goes(c, "lock", "external")
        /\ lock' = [lock EXCEPT ![KeyOf(c)] = c]
     \/ /\ lock[KeyOf(c)] # None
        /\ Goes(c, "lock", "waiting")
        /\ UNCHANGED lock
  /\ UNCHANGED <<sent, polled, answer, record, rows, starts, faults>>

\* Faulty: one lookup more than the loop has.
PollBeyond(c) ==
  /\ polled' = [polled EXCEPT ![c] = @ + 1]
  /\ \/ \E r \in record[KeyOf(c)] :
          Goes(c, "waiting", IF r.hash = BodyOf(c) THEN "fetch" ELSE "conflict")
     \/ /\ record[KeyOf(c)] = {}
        /\ Goes(c, "waiting", IF polled'[c] <= Polls THEN "waiting" ELSE "conflict")
  /\ UNCHANGED <<sent, answer, stores, faults>>

\* waitForRecord, one of its lookups.
Poll(c) ==
  /\ polled' = [polled EXCEPT ![c] = @ + 1]
  /\ \/ \E r \in record[KeyOf(c)] :
          Goes(c, "waiting", IF r.hash = BodyOf(c) THEN "fetch" ELSE "conflict")
     \/ /\ record[KeyOf(c)] = {}
        /\ Goes(c, "waiting", IF polled'[c] < Polls THEN "waiting" ELSE "conflict")
  /\ UNCHANGED <<sent, answer, stores, faults>>

\* The waiter reads the record once more for its response.
Fetch(c) ==
  /\ Goes(c, "fetch", "answered")
  /\ \E r \in record[KeyOf(c)] : Responds(c, r.resource)
  /\ UNCHANGED <<sent, polled, stores, faults>>

Same(b, d) == External[b] # None /\ External[b] = External[d]

Known(c) == {k \in Key : rows[k] # None /\ Same(BodyOf(rows[k]), BodyOf(c))}

\* createRequest: a known externalRequestId is answered with its row.
FindExternal(c) ==
  /\ \/ \E k \in Known(c) : Goes(c, "external", "store") /\ Responds(c, k)
     \/ Known(c) = {} /\ Goes(c, "external", "create") /\ UNCHANGED answer
  /\ UNCHANGED <<sent, polled, stores, faults>>

\* Faulty: externalRequestId has no unique index.
CreateTwice(c) ==
  /\ \/ /\ rows[KeyOf(c)] = None
        /\ Goes(c, "create", "start")
        /\ rows' = [rows EXCEPT ![KeyOf(c)] = c]
        /\ Responds(c, KeyOf(c))
     \/ /\ rows[KeyOf(c)] # None
        /\ Goes(c, "create", "abort")
        /\ UNCHANGED <<rows, answer>>
  /\ UNCHANGED <<sent, polled, lock, record, starts, faults>>

\* Faulty: a row of the same key is taken over.
CreateOver(c) ==
  /\ \/ /\ Known(c) = {}
        /\ Goes(c, "create", "start")
        /\ rows' = [rows EXCEPT ![KeyOf(c)] = c]
        /\ Responds(c, KeyOf(c))
     \/ /\ Known(c) # {}
        /\ Goes(c, "create", "abort")
        /\ UNCHANGED <<rows, answer>>
  /\ UNCHANGED <<sent, polled, lock, record, starts, faults>>

\* The insert violates one of the two unique keys of the table, or does not.
Create(c) ==
  /\ \/ /\ rows[KeyOf(c)] = None /\ Known(c) = {}
        /\ Goes(c, "create", "start")
        /\ rows' = [rows EXCEPT ![KeyOf(c)] = c]
        /\ Responds(c, KeyOf(c))
     \/ /\ rows[KeyOf(c)] # None \/ Known(c) # {}
        /\ Goes(c, "create", "abort")
        /\ UNCHANGED <<rows, answer>>
  /\ UNCHANGED <<sent, polled, lock, record, starts, faults>>

StartWorkflow(c) ==
  /\ Goes(c, "start", "store")
  /\ starts' = [starts EXCEPT ![KeyOf(c)] = @ \cup {c}]
  /\ UNCHANGED <<sent, polled, answer, lock, record, rows, faults>>

\* The upsert replaces whatever record the key has.
StoreRecord(c) ==
  /\ Goes(c, "store", "release")
  /\ record' = [record EXCEPT ![KeyOf(c)] =
       {[hash |-> BodyOf(c), resource |-> answer[c], expired |-> FALSE]}]
  /\ UNCHANGED <<sent, polled, answer, lock, rows, starts, faults>>

\* finally: DEL, whoever has the lock by now.
Release(c) ==
  /\ \/ Goes(c, "release", "answered") \/ Goes(c, "abort", "error")
  /\ lock' = [lock EXCEPT ![KeyOf(c)] = None]
  /\ UNCHANGED <<sent, polled, answer, record, rows, starts, faults>>
-----------------------------------------------------------------------------
Fault == faults < MaxFaults /\ faults' = faults + 1

Handling(c) == phase[c] \in {"external", "create", "start", "store"}
Active(c) == phase[c] \notin {"idle", "answered", "conflict", "error"}

\* The database or Temporal does not answer: the handler or the upsert throws.
HandlerFails(c) ==
  /\ Fault
  /\ Handling(c)
  /\ phase' = [phase EXCEPT ![c] = "abort"]
  /\ UNCHANGED <<sent, polled, answer, stores>>

\* The API process dies, or a call outside the handler throws; a lock stays.
CallDies(c) ==
  /\ Fault
  /\ Active(c)
  /\ phase' = [phase EXCEPT ![c] = "error"]
  /\ UNCHANGED <<sent, polled, answer, stores>>

\* LOCK_TTL_SECONDS pass.  It costs a fault only if somebody still handles.
LockExpires(k) ==
  /\ lock[k] # None
  /\ IF Active(lock[k]) THEN Fault ELSE UNCHANGED faults
  /\ lock' = [lock EXCEPT ![k] = None]
  /\ UNCHANGED <<phase, sent, polled, answer, record, rows, starts>>

\* IDEMPOTENCY_TTL_SECONDS pass.
RecordExpires(k) ==
  /\ \E r \in record[k] :
       ~r.expired /\ record' = [record EXCEPT ![k] = {[r EXCEPT !.expired = TRUE]}]
  /\ UNCHANGED <<phase, sent, polled, answer, lock, rows, starts, faults>>

Steps(c) ==
  \/ Arrive(c) \/ Lookup(c) \/ Acquire(c) \/ Poll(c) \/ Fetch(c)
  \/ FindExternal(c) \/ Create(c) \/ StartWorkflow(c) \/ StoreRecord(c)
  \/ Release(c)

Next ==
  \/ \E c \in Call : Steps(c) \/ HandlerFails(c) \/ CallDies(c)
  \/ \E k \in Key : LockExpires(k) \/ RecordExpires(k)

Spec == Init /\ [][Next]_vars
-----------------------------------------------------------------------------
Phase == {"idle", "lookup", "lock", "waiting", "fetch", "external", "create",
          "start", "store", "release", "abort", "answered", "conflict", "error"}

\* The phases in which a call has the guest request of its response.
Resolved == {"start", "store", "release", "answered"}

CallsOK ==
  /\ phase \in [Call -> Phase]
  /\ sent \in [Call -> Key \X Body]
  /\ polled \in [Call -> 0 .. Polls]
  /\ answer \in [Call -> Key \cup {None}]
  /\ \A c \in Call : phase[c] \in Resolved => answer[c] # None

StoresOK ==
  /\ lock \in [Key -> Call \cup {None}]
  /\ record \in [Key -> SUBSET Record]
  /\ \A k \in Key : \A q, r \in record[k] : q = r
  /\ rows \in [Key -> Call \cup {None}]
  /\ starts \in [Key -> SUBSET Call]
  /\ faults \in 0 .. MaxFaults

\* Every variable keeps its type: what is stored or answered names a request of
\* this tenant, and no waiter polls more often than the loop allows.
TypeOK == CallsOK /\ StoresOK

\* Retries and duplicates, whatever lock or record expires under them, never
\* start a second workflow: not for a key, nor for an externalRequestId.
StartedOnce ==
  \A j, k \in Key : \A c \in starts[j], d \in starts[k] :
    j = k \/ Same(BodyOf(c), BodyOf(d)) => c = d

\* Key k comes with two bodies, one of which has an externalRequestId.  Nothing
\* forbids it to a client, and it is the one way to get another request's answer:
\* for the rest the unique keys of guest_requests make up for the missing checks.
Mixed(k) ==
  \E c, d \in Call :
    /\ KeyOf(c) = k /\ KeyOf(d) = k
    /\ BodyOf(c) # BodyOf(d) /\ External[BodyOf(c)] # None

\* Call c is answered, and not as a waiter under a mixed key.
OwnAnswer(c) == phase[c] = "answered" /\ (Mixed(KeyOf(c)) => polled[c] = 0)

\* Answers to the same key, or to the same externalRequestId, name the same guest
\* request.  docs/demo-script.md:101 promises it of every key; under a mixed one
\* the code keeps it for calls with equal bodies only, and not for waiters: the
\* record is not looked up again under the lock, so two bodies may both be handled.
SameAnswer ==
  \A c, d \in Call :
    /\ OwnAnswer(c) /\ OwnAnswer(d)
    /\ \/ Same(BodyOf(c), BodyOf(d))
       \/ KeyOf(c) = KeyOf(d) /\ (Mixed(KeyOf(c)) => BodyOf(c) = BodyOf(d))
    => answer[c] = answer[d]

\* A client is answered with the request it sent: the row in the answer exists
\* and was inserted for the same body or the same externalRequestId.  A waiter
\* under a mixed key is excepted: the record whose hash it checked may have been
\* replaced by the other body's when it reads its response.
AnswerFits ==
  \A c \in Call : OwnAnswer(c) =>
    /\ rows[answer[c]] # None
    /\ \/ BodyOf(rows[answer[c]]) = BodyOf(c)
       \/ Same(BodyOf(rows[answer[c]]), BodyOf(c))

\* Unless something went wrong, calls with the same key are handled one at a time.
OneHandler ==
  faults = 0 =>
    \A c, d \in Call : Handling(c) /\ Handling(d) /\ KeyOf(c) = KeyOf(d) => c = d
=============================================================================
