---------------------------- MODULE DashboardMC ----------------------------
(* An operator of one hotel and a SYSTEM_ADMIN, who sees the other hotel as well; a row
   to list of each kind, and two failures of one hotel. *)
EXTENDS Dashboard, TLC

CONSTANTS ann, root, sea, hill, f1, f2, other

HotelOf == [u \in {ann, root} |-> IF u = ann THEN sea ELSE None]

Rows ==
  {[page |-> "failures", tenant |-> sea, id |-> i] : i \in {f1, f2}}
  \cup {[page |-> "approvals", tenant |-> hill, id |-> other],
        [page |-> "requests", tenant |-> hill, id |-> other]}

\* The two failures differ in nothing.
Alike == Permutations({f1, f2})
=============================================================================
