------------------------- MODULE MCPlanTransaction -------------------------
(* Small instances of PlanTransaction for TLC. *)
EXTENDS PlanTransaction, TLC

TwoPaths == {1, 2}
ThreePaths == {1, 2, 3}

\* Batches and edits are interchangeable.
Symmetry == Permutations(Txns) \cup Permutations(Edits)
=============================================================================
