---------------------------- MODULE MCWorkerUsm ----------------------------
(* Bounds for model checking WorkerUsm. *)
EXTENDS WorkerUsm, TLC

CONSTANTS t1, t2, t3, t4

Symmetry == Permutations(Tasks)
=============================================================================
