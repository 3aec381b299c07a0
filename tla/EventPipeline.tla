---------------------------- MODULE EventPipeline ----------------------------
(***************************************************************************)
(* What the computing manager promises its caller: an event that has been  *)
(* accepted is finished once, with solutions of its own, and handed over   *)
(* once; at most Capacity events are in the pipeline at a time.            *)
(***************************************************************************)
EXTENDS Naturals, FiniteSets

CONSTANTS Events, Capacity

VARIABLES
    inside,     \* events accepted and not finished
    finished,   \* events whose solutions wait to be handed over
    delivered   \* events whose solutions the caller has

Init ==
    /\ inside = {}
    /\ finished = {}
    /\ delivered = {}

Accept(e) ==
    /\ e \notin inside \cup finished \cup delivered
    /\ Cardinality(inside) < Capacity
    /\ inside' = inside \cup {e}
    /\ UNCHANGED <<finished, delivered>>

Finish(e) ==
    /\ e \in inside
    /\ inside' = inside \ {e}
    /\ finished' = finished \cup {e}
    /\ UNCHANGED delivered

Deliver ==
    /\ delivered' = delivered \cup finished
    /\ finished' = {}
    /\ UNCHANGED inside

Next ==
    \/ \E e \in Events : Accept(e) \/ Finish(e)
    \/ Deliver

Spec == Init /\ [][Next]_<<inside, finished, delivered>>

=============================================================================
