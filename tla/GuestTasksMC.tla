---------------------------- MODULE GuestTasksMC ----------------------------
(***************************************************************************)
(* Cases for the model checker: two guests who write to one hotel or to    *)
(* two.  Each request type occurs, types that fail at the desk for         *)
(* different reasons, messages with more than one intent, and two guests   *)
(* who want the same reservation modified and cancelled.                   *)
(***************************************************************************)
EXTENDS GuestTasks, TLC

CONSTANTS r1, r2, h1, h2

Text(words, room, guestRoom, reserved) ==
  [words |-> words, room |-> room, time |-> None, guestRoom |-> guestRoom,
   reservation |-> reserved]

TowelsAndCall == Text({"towel", "wake up"}, "101", None, FALSE)
Cancel        == Text({"cancel", "reservation"}, None, None, TRUE)
CancelUnnamed == Text({"cancel", "reservation", "dinner"}, None, None, FALSE)
Modify        == Text({"modify", "reservation"}, None, "202", TRUE)
Broken        == Text({"broken"}, "101", "202", FALSE)
Dinner        == Text({"dinner"}, None, "202", FALSE)
CancelCall    == Text({"wake up", "cancel"}, None, None, FALSE)
Helicopter    == Text({"helicopter", "broken"}, None, "202", FALSE)

Case(m1, at1, m2, at2) ==
  [message |-> (r1 :> m1) @@ (r2 :> m2), home |-> (r1 :> at1) @@ (r2 :> at2)]

Mixed == {
  Case(TowelsAndCall, h1, CancelCall, h1), Case(Cancel, h1, Modify, h1),
  Case(CancelUnnamed, h1, Broken, h2), Case(Modify, h2, Helicopter, h1),
  Case(Dinner, h1, Cancel, h2) }
=============================================================================
