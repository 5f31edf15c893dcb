---------------------- MODULE GuestRequestWorkflowMC ----------------------
(* GuestRequestWorkflow with small sets for the model checker. *)
EXTENDS GuestRequestWorkflow, TLC

\* The planner lists the tasks against their execution order.
MCTwoTasks == {1, 2}
MCOneTask  == {1}
MCOrder    == [t \in Task |-> 3 - t]

\* Operators differ in nothing but their names.
MCSymmetry == Permutations(Operators)
=============================================================================
