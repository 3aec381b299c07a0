-------------------------- MODULE ComputingWorker --------------------------
(***************************************************************************)
(* ComputingWorker (application/HelixSolver/src/ComputingWorker.cpp): runs *)
(* the Hough kernel over one event buffer at a time.                       *)
(*                                                                         *)
(*   state   the worker's own idea of its state                            *)
(*   buffer  index of the EventBuffer its shared_ptr points to             *)
(*   busy    the kernel it submitted has not completed on the device       *)
(*   input   the event whose r, phi, z buffers that kernel reads, hence    *)
(*           the event its solutions are computed from                     *)
(*                                                                         *)
(* Async is the SYCL build, where scheduleTasksToQueue submits the kernel  *)
(* and returns; otherwise the kernel runs inside the call.                 *)
(***************************************************************************)
EXTENDS EventBuffer, Integers

CONSTANTS
    Async,      \* TRUE when built with USE_SYCL
    NumBuffers  \* number of event buffers of the manager

ASSUME AsyncAssumption == Async \in BOOLEAN
ASSUME NumBuffersAssumption == NumBuffers \in Nat \ {0}

Buffers == 0 .. NumBuffers - 1
NoBuffer == -1      \* the null shared_ptr<EventBuffer>

WorkerStates == {"WAITING", "PROCESSING", "COMPLETED"}

ComputingWorkerObjects ==
    [state : WorkerStates, buffer : Buffers \cup {NoBuffer},
     busy : BOOLEAN, input : Events \cup {NoEvent}]

NewComputingWorker ==
    [state |-> "WAITING", buffer |-> NoBuffer, busy |-> FALSE, input |-> NoEvent]

SetWorkerState(worker, state) == [worker EXCEPT !.state = state]

\* Mutant: the status of the computing event is not looked at.
UpdateStateBlindly(worker) ==
    IF worker.state # "WAITING" THEN [worker EXCEPT !.state = "COMPLETED"] ELSE worker

\* updateState, called by updateAndGetState: a SYCL worker that is not WAITING
\* asks the status of its computing event.
UpdateState(worker) ==
    IF Async /\ worker.state # "WAITING"
    THEN [worker EXCEPT !.state = IF worker.busy THEN "PROCESSING" ELSE "COMPLETED"]
    ELSE worker

\* The early return of assignBuffer.
AcceptsBuffer(worker, buffer) ==
    worker.state = "WAITING" /\ buffer.state = "READY"

\* assignBuffer and the scheduleTasksToQueue it calls, for the buffer object
\* at index b: the worker after the call ...
AssignBuffer(worker, b, buffer) ==
    IF AcceptsBuffer(worker, buffer)
    THEN [state |-> IF Async THEN "PROCESSING" ELSE "COMPLETED",
          buffer |-> b, busy |-> Async, input |-> GetArrays(buffer)]
    ELSE worker

\* ... and the buffer after it.
BufferAfterAssign(worker, buffer) ==
    IF AcceptsBuffer(worker, buffer) /\ Async
    THEN SetBufferState(buffer, "PROCESSED")
    ELSE buffer

NullPair == <<NoEvent, NoEvent>>

\* transferSolutions: a pair of the event found in the worker's buffer now and
\* the event the solutions were computed from; nulls unless COMPLETED.
TransferredPair(worker, buffer) ==
    IF worker.state = "COMPLETED" THEN <<buffer.event, worker.input>> ELSE NullPair

WorkerAfterTransfer(worker) ==
    IF worker.state = "COMPLETED" THEN [worker EXCEPT !.state = "WAITING"] ELSE worker

=============================================================================
