--------------------------- MODULE MCApplication ---------------------------
(* Bounds for model checking Application. *)
EXTENDS Application

CONSTANTS e1, e2, e3, e4

FourEvents == <<e1, e2, e3, e4>>
=============================================================================
