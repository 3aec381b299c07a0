--------------------------- MODULE MCTransferUsm ---------------------------
(* Bounds for model checking TransferUsm. *)
EXTENDS TransferUsm, TLC

CONSTANTS t1, t2, t3

Symmetry == Permutations(Tasks)
=============================================================================
