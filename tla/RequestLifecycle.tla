-------------------------- MODULE RequestLifecycle --------------------------
(***************************************************************************)
(* What the platform promises about one guest request, without queues,     *)
(* retries or a database: whether a human is needed is settled before any  *)
(* task is touched, a task is touched only with the consent that needs,    *)
(* a withdrawn request touches nothing new, and the outcome is final and   *)
(* fits what happened.  GuestRequestWorkflow and GuestTasks implement it.  *)
(***************************************************************************)
CONSTANT Task

VARIABLES
  needed,     \* a human has to consent
  approval,   \* where the consent stands
  withdrawn,  \* the request was cancelled
  touched,    \* tasks handed to the browser worker
  outcome

vars == <<needed, approval, withdrawn, touched, outcome>>

Outcome == {"COMPLETED", "PARTIALLY_COMPLETED", "ESCALATED", "CANCELLED", "FAULT"}

Open == outcome = "none"

Init ==
  /\ needed = FALSE /\ approval = "none" /\ withdrawn = FALSE
  /\ touched = {} /\ outcome = "none"

Assess ==
  /\ Open /\ touched = {} /\ approval = "none"
  /\ needed' \in BOOLEAN
  /\ UNCHANGED <<approval, withdrawn, touched, outcome>>

Ask ==
  /\ Open /\ needed /\ approval = "none"
  /\ approval' = "asked"
  /\ UNCHANGED <<needed, withdrawn, touched, outcome>>

\* An answer may still reach the record after the workflow has failed: the
\* attempt that writes it is only given up on, not stopped.
Answer ==
  /\ Open \/ outcome = "FAULT"
  /\ approval = "asked"
  /\ approval' \in {"granted", "refused"}
  /\ UNCHANGED <<needed, withdrawn, touched, outcome>>

Withdraw ==
  /\ Open
  /\ withdrawn' = TRUE
  /\ UNCHANGED <<needed, approval, touched, outcome>>

Touch(t) ==
  /\ Open /\ ~withdrawn
  /\ needed => approval = "granted"
  /\ touched' = touched \cup {t}
  /\ UNCHANGED <<needed, approval, withdrawn, outcome>>

Close(o) ==
  /\ Open
  /\ o = "COMPLETED" => (needed => approval = "granted")
  /\ o = "PARTIALLY_COMPLETED" => touched # {}
  /\ o = "CANCELLED" => withdrawn
  /\ approval = "refused" => o \in {"ESCALATED", "FAULT"}
  /\ outcome' = o
  /\ UNCHANGED <<needed, approval, withdrawn, touched>>

Next ==
  \/ Assess \/ Ask \/ Answer \/ Withdraw
  \/ \E t \in Task : Touch(t)
  \/ \E o \in Outcome : Close(o)

Spec == Init /\ [][Next]_vars
=============================================================================
