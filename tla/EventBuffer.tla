---------------------------- MODULE EventBuffer ----------------------------
(***************************************************************************)
(* EventBuffer (application/HelixSolver/src/EventBuffer.cpp): the slot     *)
(* that holds one event while it waits for, and is read by, a kernel.  An  *)
(* object is a record; a method is an operator from the object before the  *)
(* call to the object after it.  The r, phi and z buffers loadEvent builds *)
(* are a function of the event, so the event stands for them.              *)
(***************************************************************************)
CONSTANTS
    Events,     \* the Event objects of a run
    NoEvent     \* the null shared_ptr<Event>

ASSUME NoEventAssumption == NoEvent \notin Events

BufferStates == {"FREE", "READY", "PROCESSED"}

EventBufferObjects == [state : BufferStates, event : Events \cup {NoEvent}]

NewEventBuffer == [state |-> "FREE", event |-> NoEvent]

\* Mutant: setState assigns its parameter to itself.
SetBufferStateToItself(buffer, state) == buffer

SetBufferState(buffer, state) == [buffer EXCEPT !.state = state]

\* loadEvent: a buffer that is not FREE refuses the event (returns false) and
\* keeps the one it has.
LoadEvent(buffer, event) ==
    IF buffer.state = "FREE"
    THEN [state |-> "READY", event |-> event]
    ELSE buffer

\* getRBuffer, getPhiBuffer and getZBuffer: the arrays of one and the same event.
GetArrays(buffer) == buffer.event

=============================================================================
