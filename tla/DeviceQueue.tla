---------------------------- MODULE DeviceQueue ----------------------------
(***************************************************************************)
(* What a worker promises its client: a task submitted waits, is in the    *)
(* device queue with at most Capacity others, and is completed, once.      *)
(***************************************************************************)
EXTENDS Naturals, FiniteSets

CONSTANTS Tasks, Capacity

VARIABLES waiting, inQueue, completed

vars == <<waiting, inQueue, completed>>

Init ==
    /\ waiting = {}
    /\ inQueue = {}
    /\ completed = {}

Submit(t) ==
    /\ t \notin waiting \cup inQueue \cup completed
    /\ waiting' = waiting \cup {t}
    /\ UNCHANGED <<inQueue, completed>>

Enter(t) ==
    /\ t \in waiting
    /\ Cardinality(inQueue) < Capacity
    /\ waiting' = waiting \ {t}
    /\ inQueue' = inQueue \cup {t}
    /\ UNCHANGED completed

Complete(t) ==
    /\ t \in inQueue
    /\ inQueue' = inQueue \ {t}
    /\ completed' = completed \cup {t}
    /\ UNCHANGED waiting

Next == \E t \in Tasks : Submit(t) \/ Enter(t) \/ Complete(t)

Spec == Init /\ [][Next]_vars

\* No task in the queue stays there, and the queue's places do not stay empty
\* while tasks wait.
FairSpec ==
    /\ Spec
    /\ WF_vars(\E t \in Tasks : Enter(t))
    /\ \A t \in Tasks : WF_vars(Complete(t))

=============================================================================
