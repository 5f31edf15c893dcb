---------------------------- MODULE RequestAgents ----------------------------
(***************************************************************************)
(* What the agents of the mock provider, the one that runs without an API  *)
(* key, make of a guest's message: the request type, the plan, the policy  *)
(* decision and the summary an operator reads.  The agents keep no state.  *)
(*                                                                         *)
(* A message is the set of the key words it contains, the room and the     *)
(* time it names, and what the channel knows of the guest: his room and    *)
(* his reservation.                                                        *)
(***************************************************************************)
EXTENDS Naturals, Sequences

None == "none"

Word == {"helicopter", "towel", "wake up", "cancel", "modify", "reservation",
         "dinner", "broken"}
Room == {"101", "202", "407"}
Time == {"06:30", "7:00am"}

Message == [words : SUBSET Word, room : Room \cup {None}, time : Time \cup {None},
            guestRoom : Room \cup {None}, reservation : BOOLEAN]

RequestType == {"UNSUPPORTED", "MULTI_ACTION", "RESERVATION_CANCELLATION",
                "RESERVATION_MODIFICATION", "RESTAURANT_BOOKING",
                "WAKE_UP_CALL", "MAINTENANCE", "HOUSEKEEPING"}

TaskType == {"CREATE_HOUSEKEEPING_REQUEST", "CREATE_MAINTENANCE_TICKET",
             "CREATE_WAKE_UP_CALL", "CREATE_RESTAURANT_BOOKING",
             "MODIFY_RESERVATION", "CANCEL_RESERVATION"}

\* The parameters of a task the PMS tells apart: the room and the text its row
\* shows (the item, the issue, the time or the guest), or the reservation.
RowText == {"towels", "issue", "guest", "notes", "reason", "assistance"} \cup Time
Task == [taskType : TaskType, room : Room, text : RowText, reservation : BOOLEAN,
         requiresApproval : BOOLEAN]
-----------------------------------------------------------------------------
HasWakeUpIntent(words) == "wake up" \in words
HasHousekeepingIntent(words) == "towel" \in words

\* The rules in the order of the code; the first that applies decides.
Rules(words) == <<
  [is |-> "UNSUPPORTED", when |-> "helicopter" \in words],
  [is |-> "MULTI_ACTION",
   when |-> HasHousekeepingIntent(words) /\ HasWakeUpIntent(words)],
  [is |-> "RESERVATION_CANCELLATION", when |-> {"cancel", "reservation"} \subseteq words],
  [is |-> "RESERVATION_MODIFICATION", when |-> {"modify", "reservation"} \subseteq words],
  [is |-> "RESTAURANT_BOOKING", when |-> "dinner" \in words],
  [is |-> "WAKE_UP_CALL", when |-> HasWakeUpIntent(words)],
  [is |-> "MAINTENANCE", when |-> "broken" \in words],
  [is |-> "HOUSEKEEPING", when |-> HasHousekeepingIntent(words)],
  [is |-> "UNSUPPORTED", when |-> TRUE] >>

ClassifyByPattern(words) ==
  LET rules == Rules(words)
      first == CHOOSE i \in DOMAIN rules :
                 rules[i].when /\ \A j \in 1 .. i - 1 : ~rules[j].when
  IN  rules[first].is

ExtractRoomNumber(message) ==
  IF message.room # None THEN message.room ELSE message.guestRoom

ExtractWakeUpTime(message) == IF message.time # None THEN message.time ELSE "06:30"

\* classifyRequest: the entities are read off the text whatever the type is.
ClassifyRequest(message) ==
  [requestType |-> ClassifyByPattern(message.words),
   room |-> ExtractRoomNumber(message),
   time |-> ExtractWakeUpTime(message)]
-----------------------------------------------------------------------------
PlanRoom(classification, message) ==
  IF classification.room # None THEN classification.room
  ELSE IF message.guestRoom # None THEN message.guestRoom ELSE "407"

Planned(taskType, room, text, reservation) ==
  [taskType |-> taskType, room |-> room, text |-> text,
   reservation |-> reservation,
   requiresApproval |-> taskType = "CANCEL_RESERVATION"]

\* createPlan: one task for each type but MULTI_ACTION, which has two.  What else
\* a message asks for is dropped.
CreatePlan(classification, message) ==
  LET type  == classification.requestType
      room  == PlanRoom(classification, message)
      Plan(taskType, text) == Planned(taskType, room, text, message.reservation)
      towels == Plan("CREATE_HOUSEKEEPING_REQUEST", "towels")
      call   == Plan("CREATE_WAKE_UP_CALL", classification.time)
  IN  CASE type = "HOUSEKEEPING" -> <<towels>>
        [] type = "MAINTENANCE" -> <<Plan("CREATE_MAINTENANCE_TICKET", "issue")>>
        [] type = "WAKE_UP_CALL" -> <<call>>
        [] type = "RESTAURANT_BOOKING" -> <<Plan("CREATE_RESTAURANT_BOOKING", "guest")>>
        [] type = "RESERVATION_MODIFICATION" -> <<Plan("MODIFY_RESERVATION", "notes")>>
        [] type = "RESERVATION_CANCELLATION" -> <<Plan("CANCEL_RESERVATION", "reason")>>
        [] type = "MULTI_ACTION" -> <<towels, call>>
        [] type = "UNSUPPORTED" -> <<Plan("CREATE_HOUSEKEEPING_REQUEST", "assistance")>>

\* evaluatePolicy: whether a human has to agree, and which tasks may run at all.
EvaluatePolicy(requestType, plan) ==
  LET human == \/ requestType = "RESERVATION_CANCELLATION"
               \/ \E i \in DOMAIN plan : plan[i].requiresApproval
  IN  IF requestType = "UNSUPPORTED"
      THEN [approved |-> FALSE, requiresApproval |-> FALSE, blocked |-> DOMAIN plan]
      ELSE [approved |-> ~human, requiresApproval |-> human, blocked |-> {}]

\* summarizeEscalation.  The activity hands over the completed actions only, as
\* successes, so no summary ever names a failed one.
SummarizeEscalation(completed) ==
  [completedActions |-> completed, failedActions |-> {}]
=============================================================================
