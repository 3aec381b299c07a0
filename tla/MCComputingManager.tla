------------------------- MODULE MCComputingManager -------------------------
(* Bounds for model checking ComputingManager. *)
EXTENDS ComputingManager, TLC

CONSTANTS e1, e2, e3, e4

Symmetry == Permutations(Events)
=============================================================================
