----------------------------- MODULE AgentCalls -----------------------------
(***************************************************************************)
(* One agent activity of a request: classify, plan, policy or escalate,    *)
(* which are alike.  Temporal makes up to three attempts; an attempt       *)
(* creates a provider, asks it, inserts an agent run, updates the request  *)
(* and returns.  The OpenAI provider repeats the HTTP call on some errors, *)
(* the mock provider answers or fails as it was told to.                   *)
(*                                                                         *)
(* A language model may answer the same question differently each time, so *)
(* what the rows say and what the workflow goes on with can part.  An      *)
(* attempt Temporal has given up on runs on and writes what it has.        *)
(***************************************************************************)
EXTENDS Naturals

CONSTANTS
  Answer,       \* what the agents may answer
  Attempts,     \* maximumAttempts of an orchestration activity (3)
  MaxRetries,   \* retries of the OpenAI provider (2)
  MaxFaults     \* bound: attempts that are lost outside the provider

ASSUME AgentAssumption ==
  Attempts \in Nat \ {0} /\ MaxRetries \in Nat /\ MaxFaults \in Nat

VARIABLES
  provider,   \* createAIProvider: "openai" with a key, else "mock", for good
  attempt,    \* Temporal's attempt
  at,         \* where the attempt is
  http,       \* HTTP calls it has made
  calls,      \* HTTP calls of all attempts
  answer,     \* the parsed answer it holds
  runs,       \* agent_runs: the attempt and the answer
  row,        \* the answer the request's row was updated with last
  taken,      \* the answer the workflow goes on with
  stray,      \* attempts that were given up and still have something to write
  overtaken,  \* history: such an attempt has updated the row
  faults

ask  == <<provider, attempt, http, calls, answer>>
late == <<stray, overtaken, faults>>
vars == <<ask, at, runs, row, taken, late>>

Nothing == "nothing"

Init ==
  /\ provider \in {"openai", "mock"}
  /\ attempt = 1 /\ at = "call" /\ http = 0 /\ calls = 0 /\ answer = Nothing
  /\ runs = {} /\ row = Nothing /\ taken = Nothing
  /\ stray = {} /\ overtaken = FALSE /\ faults = 0

\* The attempt ends in an error: the next one starts over with a new provider, or
\* the error reaches the workflow.
AttemptFails ==
  /\ IF attempt < Attempts THEN attempt' = attempt + 1 /\ at' = "call"
                           ELSE at' = "failed" /\ UNCHANGED attempt
  /\ http' = 0 /\ answer' = Nothing
  /\ UNCHANGED <<provider, runs, row, taken>>

Answers ==
  /\ at' = "answered"
  /\ answer' \in Answer
  /\ UNCHANGED <<provider, attempt, runs, row, taken, late>>

\* 200 with content that parses and fits the schema.
OpenAIAnswers ==
  /\ at = "call" /\ provider = "openai"
  /\ http' = http + 1 /\ calls' = calls + 1
  /\ Answers

\* Faulty: one retry too many.
OpenAIRetriesAgain ==
  /\ at = "call" /\ provider = "openai"
  /\ http <= MaxRetries
  /\ http' = http + 1 /\ calls' = calls + 1
  /\ UNCHANGED <<provider, attempt, at, answer, runs, row, taken, late>>

\* 429, 502, 503, 504, or no connection, with retries left.
OpenAIRetries ==
  /\ at = "call" /\ provider = "openai"
  /\ http < MaxRetries
  /\ http' = http + 1 /\ calls' = calls + 1
  /\ UNCHANGED <<provider, attempt, at, answer, runs, row, taken, late>>

\* The last of those; or at once another status, no content, no JSON, a schema that
\* does not fit, or the timeout of the call.  Nothing of it is recorded.
OpenAIFails ==
  /\ at = "call" /\ provider = "openai"
  /\ calls' = calls + 1
  /\ AttemptFails
  /\ UNCHANGED late

MockAnswers ==
  /\ at = "call" /\ provider = "mock"
  /\ Answers
  /\ UNCHANGED <<http, calls>>

\* applyLatency throws what was injected.
MockFails ==
  /\ at = "call" /\ provider = "mock"
  /\ AttemptFails
  /\ UNCHANGED <<calls, late>>
-----------------------------------------------------------------------------
Run == [attempt |-> attempt, answer |-> answer]

\* Faulty: the run of an earlier attempt is kept for this one.
CreateAgentRunOnce ==
  /\ at = "answered" /\ at' = "recorded"
  /\ runs' = IF runs = {} THEN {Run} ELSE runs
  /\ UNCHANGED <<ask, row, taken, late>>

\* createAgentRun, with the usage the provider recorded last.
CreateAgentRun ==
  /\ at = "answered" /\ at' = "recorded"
  /\ runs' = runs \cup {Run}
  /\ UNCHANGED <<ask, row, taken, late>>

\* updateGuestRequestStatus; a classification writes its type into the row.
UpdateGuestRequestStatus ==
  /\ at = "recorded" /\ at' = "updated"
  /\ row' = answer
  /\ UNCHANGED <<ask, runs, taken, late>>

\* recordWorkflowStep, and the result reaches the workflow.
Returns ==
  /\ at = "updated" /\ at' = "done"
  /\ taken' = answer
  /\ UNCHANGED <<ask, runs, row, late>>

Lost == faults < MaxFaults /\ faults' = faults + 1 /\ AttemptFails /\ UNCHANGED <<calls, overtaken>>

\* The worker is gone, or the database refused the next write.
AttemptLost ==
  /\ at \in {"call", "answered", "recorded", "updated"}
  /\ Lost
  /\ UNCHANGED stray

\* startToCloseTimeout: the attempt runs on.  One that is overdue while it still calls
\* the provider makes the same calls and writes as one that is overdue right after.
AttemptOverdue ==
  /\ at \in {"answered", "recorded"}
  /\ Lost
  /\ stray' = stray \cup {[run |-> Run, at |-> at]}

StrayWrites(s) ==
  /\ \/ /\ s.at = "answered"
        /\ runs' = runs \cup {s.run}
        /\ stray' = (stray \ {s}) \cup {[s EXCEPT !.at = "recorded"]}
        /\ UNCHANGED <<row, overtaken>>
     \/ /\ s.at = "recorded"
        /\ row' = s.run.answer
        /\ stray' = stray \ {s}
        /\ overtaken' = TRUE
        /\ UNCHANGED runs
  /\ UNCHANGED <<ask, at, taken, faults>>

Next ==
  \/ OpenAIAnswers \/ OpenAIRetries \/ OpenAIFails \/ MockAnswers \/ MockFails
  \/ CreateAgentRun \/ UpdateGuestRequestStatus \/ Returns
  \/ AttemptLost \/ AttemptOverdue
  \/ \E s \in stray : StrayWrites(s)

Spec == Init /\ [][Next]_vars
-----------------------------------------------------------------------------
\* Retries within retries stay bounded: Temporal's attempts times the provider's
\* calls.  Nothing else limits what a request may cost.
CallBudget == calls <= Attempts * (MaxRetries + 1)

\* The workflow goes on with an answer that is on record as the latest attempt's,
\* and that is the one in the request's row, unless an attempt that was given up
\* has written over it: a retried agent may have answered differently before.
Traceable ==
  taken # Nothing =>
    /\ [attempt |-> attempt, answer |-> taken] \in runs
    /\ \A run \in runs : run.attempt <= attempt
    /\ ~overtaken => row = taken
=============================================================================
