-------------------------- MODULE ComputingManager --------------------------
(***************************************************************************)
(* ComputingManager (application/HelixSolver/src/ComputingManager.cpp)     *)
(* feeds events through a pool of event buffers to a pool of workers and   *)
(* collects their solutions.  One host thread calls its public methods in  *)
(* any order the interface allows; the devices complete kernels on their   *)
(* own, between any two steps of the host.                                 *)
(*                                                                         *)
(* pc is the host's place in the manager's code: "idle" outside it,        *)
(* "start" in startProcessingReadyBuffers, "poll" in                       *)
(* transferSolutionsFromCompletedWorkers, "handOver" at the return of      *)
(* transferSolutions, "drain" and "drainInner" at the two loop conditions  *)
(* of waitUntillAllTasksCompleted.  ret is where update() returns to.      *)
(***************************************************************************)
EXTENDS ComputingWorker, Sequences, Functions

CONSTANT NumWorkers

\* The constructor dereferences computingWorkers[0]: "Expects at leas one worker".
ASSUME NumWorkersAssumption == NumWorkers \in Nat \ {0}

Workers == 0 .. NumWorkers - 1

VARIABLES
    \* objects
    eventBuffers,               \* the EventBuffer at each index
    computingWorkers,           \* the ComputingWorker at each index
    \* queues and vectors of indices
    freeEventBuffers,
    readyEventBuffers,
    processedEventBuffers,      \* during the poll: the part not yet visited
    waitingComputingWorkers,
    processingComputingWorkers, \* during the poll: the part not yet visited
    stillProcessed,             \* the poll's stillProceessedEventBuffers
    stillProcessing,            \* the poll's stillProcessingComputingWorkers
    \* results
    solutions,                  \* pairs collected and not handed over
    haveVector,                 \* the solutions pointer is not null
    delivered,                  \* pairs handed over by transferSolutions
    \* the caller
    accepted,                   \* events addEvent has returned true for
    pc,
    ret

objectVars == <<eventBuffers, computingWorkers>>
bufferQueues == <<freeEventBuffers, readyEventBuffers, processedEventBuffers, stillProcessed>>
workerQueues == <<waitingComputingWorkers, processingComputingWorkers, stillProcessing>>
resultVars == <<solutions, haveVector, delivered>>
vars == <<objectVars, bufferQueues, workerQueues, resultVars, accepted, pc, ret>>

Pairs == (Events \cup {NoEvent}) \X (Events \cup {NoEvent})

\* Mutant: indices from 1.
IndicesFromOne(n) == [i \in 1 .. n |-> i]

\* The indices the constructor's loops push.
Indices(n) == [i \in 1 .. n |-> i - 1]

Init ==
    /\ eventBuffers = [b \in Buffers |-> NewEventBuffer]
    /\ computingWorkers = [w \in Workers |-> NewComputingWorker]
    /\ freeEventBuffers = Indices(NumBuffers)
    /\ readyEventBuffers = <<>>
    /\ processedEventBuffers = <<>>
    /\ waitingComputingWorkers = Indices(NumWorkers)
    /\ processingComputingWorkers = <<>>
    /\ stillProcessed = <<>>
    /\ stillProcessing = <<>>
    /\ solutions = <<>>
    /\ haveVector = FALSE
    /\ delivered = <<>>
    /\ accepted = {}
    /\ pc = "idle"
    /\ ret = "idle"

-----------------------------------------------------------------------------
(* Public methods.                                                         *)

CallUpdate(from) == pc' = "start" /\ ret' = from

\* addEvent that returns true; with no free buffer it returns false and changes
\* nothing.  The result of loadEvent is ignored, as in the code.
AddEvent(e) ==
    /\ pc = "idle"
    /\ freeEventBuffers # <<>>
    /\ LET b == Head(freeEventBuffers)
       IN  /\ eventBuffers' = [eventBuffers EXCEPT ![b] =
                  SetBufferState(LoadEvent(@, e), "READY")]
           /\ readyEventBuffers' = Append(readyEventBuffers, b)
    /\ freeEventBuffers' = Tail(freeEventBuffers)
    /\ accepted' = accepted \cup {e}
    /\ CallUpdate("idle")
    /\ UNCHANGED <<computingWorkers, processedEventBuffers, stillProcessed,
                   workerQueues, resultVars>>

Update ==
    /\ pc = "idle"
    /\ CallUpdate("idle")
    /\ UNCHANGED <<objectVars, bufferQueues, workerQueues, resultVars, accepted>>

TransferSolutions ==
    /\ pc = "idle"
    /\ CallUpdate("handOver")
    /\ UNCHANGED <<objectVars, bufferQueues, workerQueues, resultVars, accepted>>

\* Mutant: the solutions are copied out, not moved.
HandOverCopy ==
    /\ pc = "handOver"
    /\ delivered' = delivered \o solutions
    /\ pc' = "idle"
    /\ UNCHANGED <<objectVars, bufferQueues, workerQueues, solutions, haveVector, accepted, ret>>

\* The move of the solutions pointer out of the manager.
HandOver ==
    /\ pc = "handOver"
    /\ delivered' = delivered \o solutions
    /\ solutions' = <<>>
    /\ haveVector' = FALSE
    /\ pc' = "idle"
    /\ UNCHANGED <<objectVars, bufferQueues, workerQueues, accepted, ret>>

\* queue->wait() of the worker at the front of processingComputingWorkers.
FrontWorkerFinished ==
    ~ computingWorkers[Head(processingComputingWorkers)].busy

\* waitForWaitingWorker returns at once when nothing is processing.
MayReturnFromWait ==
    processingComputingWorkers # <<>> => FrontWorkerFinished

WaitUntillAllTasksCompleted ==
    /\ pc = "idle"
    /\ pc' = "drain"
    /\ UNCHANGED <<objectVars, bufferQueues, workerQueues, resultVars, accepted, ret>>

\* Mutant: only the buffers not yet assigned are waited for.
NothingReady == readyEventBuffers = <<>>

NothingInManager ==
    readyEventBuffers = <<>> /\ processedEventBuffers = <<>> /\ processingComputingWorkers = <<>>

DrainCheck ==
    /\ pc = "drain"
    /\ pc' = IF NothingInManager THEN "idle" ELSE "drainInner"
    /\ UNCHANGED <<objectVars, bufferQueues, workerQueues, resultVars, accepted, ret>>

DrainWait ==
    /\ pc = "drainInner"
    /\ processingComputingWorkers # <<>>
    /\ FrontWorkerFinished
    /\ CallUpdate("drainInner")
    /\ UNCHANGED <<objectVars, bufferQueues, workerQueues, resultVars, accepted>>

DrainUpdate ==
    /\ pc = "drainInner"
    /\ processingComputingWorkers = <<>>
    /\ CallUpdate("drain")
    /\ UNCHANGED <<objectVars, bufferQueues, workerQueues, resultVars, accepted>>

-----------------------------------------------------------------------------
(* update().                                                               *)

\* Mutant: waitingComputingWorkers.pop() is missing.
StartProcessingWithoutPop ==
    /\ pc = "start"
    /\ waitingComputingWorkers # <<>>
    /\ readyEventBuffers # <<>>
    /\ LET w == Head(waitingComputingWorkers)
           b == Head(readyEventBuffers)
       IN  /\ computingWorkers' = [computingWorkers EXCEPT ![w] =
                  AssignBuffer(@, b, eventBuffers[b])]
           /\ eventBuffers' = [eventBuffers EXCEPT ![b] =
                  BufferAfterAssign(computingWorkers[w], @)]
           /\ processingComputingWorkers' = Append(processingComputingWorkers, w)
           /\ processedEventBuffers' = Append(processedEventBuffers, b)
    /\ readyEventBuffers' = Tail(readyEventBuffers)
    /\ UNCHANGED <<freeEventBuffers, stillProcessed, waitingComputingWorkers,
                   stillProcessing, resultVars, accepted, pc, ret>>

\* One turn of the loop of startProcessingReadyBuffers; the result of
\* assignBuffer is ignored, as in the code.
StartProcessing ==
    /\ pc = "start"
    /\ waitingComputingWorkers # <<>>
    /\ readyEventBuffers # <<>>
    /\ LET w == Head(waitingComputingWorkers)
           b == Head(readyEventBuffers)
       IN  /\ computingWorkers' = [computingWorkers EXCEPT ![w] =
                  AssignBuffer(@, b, eventBuffers[b])]
           /\ eventBuffers' = [eventBuffers EXCEPT ![b] =
                  BufferAfterAssign(computingWorkers[w], @)]
           /\ processingComputingWorkers' = Append(processingComputingWorkers, w)
           /\ processedEventBuffers' = Append(processedEventBuffers, b)
    /\ waitingComputingWorkers' = Tail(waitingComputingWorkers)
    /\ readyEventBuffers' = Tail(readyEventBuffers)
    /\ UNCHANGED <<freeEventBuffers, stillProcessed, stillProcessing, resultVars,
                   accepted, pc, ret>>

\* Mutant: the solutions vector is not allocated again after a hand-over.
BeginPollWithoutVector ==
    /\ pc = "start"
    /\ waitingComputingWorkers = <<>> \/ readyEventBuffers = <<>>
    /\ pc' = "poll"
    /\ UNCHANGED <<objectVars, bufferQueues, workerQueues, resultVars, accepted, ret>>

\* Leave that loop and enter transferSolutionsFromCompletedWorkers, which
\* allocates the solutions vector if there is none.
BeginPoll ==
    /\ pc = "start"
    /\ waitingComputingWorkers = <<>> \/ readyEventBuffers = <<>>
    /\ haveVector' = TRUE
    /\ pc' = "poll"
    /\ UNCHANGED <<objectVars, bufferQueues, workerQueues, solutions, delivered,
                   accepted, ret>>

\* One turn of the poll: the worker visited is still PROCESSING ...
PollProcessing ==
    /\ pc = "poll"
    /\ processingComputingWorkers # <<>>
    /\ LET w == Head(processingComputingWorkers)
           polled == UpdateState(computingWorkers[w])
       IN  /\ polled.state = "PROCESSING"
           /\ computingWorkers' = [computingWorkers EXCEPT ![w] = polled]
           /\ stillProcessing' = Append(stillProcessing, w)
    /\ stillProcessed' = Append(stillProcessed, Head(processedEventBuffers))
    /\ processingComputingWorkers' = Tail(processingComputingWorkers)
    /\ processedEventBuffers' = Tail(processedEventBuffers)
    /\ UNCHANGED <<eventBuffers, freeEventBuffers, readyEventBuffers,
                   waitingComputingWorkers, resultVars, accepted, pc, ret>>

\* ... or it is not: take its solutions, free the worker and the buffer.
PollCompleted ==
    /\ pc = "poll"
    /\ processingComputingWorkers # <<>>
    /\ LET w == Head(processingComputingWorkers)
           b == Head(processedEventBuffers)
           polled == UpdateState(computingWorkers[w])
       IN  /\ polled.state # "PROCESSING"
           /\ solutions' = Append(solutions,
                  TransferredPair(polled, eventBuffers[polled.buffer]))
           /\ computingWorkers' = [computingWorkers EXCEPT ![w] =
                  SetWorkerState(WorkerAfterTransfer(polled), "WAITING")]
           /\ waitingComputingWorkers' = Append(waitingComputingWorkers, w)
           /\ eventBuffers' = [eventBuffers EXCEPT ![b] = SetBufferState(@, "FREE")]
           /\ freeEventBuffers' = Append(freeEventBuffers, b)
    /\ processingComputingWorkers' = Tail(processingComputingWorkers)
    /\ processedEventBuffers' = Tail(processedEventBuffers)
    /\ UNCHANGED <<readyEventBuffers, stillProcessed, stillProcessing, haveVector,
                   delivered, accepted, pc, ret>>

\* Mutant: the swap of the processing workers is missing.
EndPollWithoutWorkerSwap ==
    /\ pc = "poll"
    /\ processingComputingWorkers = <<>>
    /\ processedEventBuffers' = stillProcessed
    /\ stillProcessing' = <<>>
    /\ stillProcessed' = <<>>
    /\ pc' = ret
    /\ UNCHANGED <<objectVars, freeEventBuffers, readyEventBuffers,
                   waitingComputingWorkers, processingComputingWorkers, resultVars,
                   accepted, ret>>

\* The two swaps at the end of the poll, and the return of update().
EndPoll ==
    /\ pc = "poll"
    /\ processingComputingWorkers = <<>>
    /\ processingComputingWorkers' = stillProcessing
    /\ processedEventBuffers' = stillProcessed
    /\ stillProcessing' = <<>>
    /\ stillProcessed' = <<>>
    /\ pc' = ret
    /\ UNCHANGED <<objectVars, freeEventBuffers, readyEventBuffers,
                   waitingComputingWorkers, resultVars, accepted, ret>>

-----------------------------------------------------------------------------
(* The device.                                                             *)

DeviceComplete(w) ==
    /\ computingWorkers[w].busy
    /\ computingWorkers' = [computingWorkers EXCEPT ![w].busy = FALSE]
    /\ UNCHANGED <<eventBuffers, bufferQueues, workerQueues, resultVars, accepted, pc, ret>>

-----------------------------------------------------------------------------
\* The steps the host takes inside a method it has called.
InsideMethod ==
    \/ HandOver
    \/ DrainCheck
    \/ DrainWait
    \/ DrainUpdate
    \/ StartProcessing
    \/ BeginPoll
    \/ PollProcessing
    \/ PollCompleted
    \/ EndPoll

\* Each Event object is passed to addEvent until it is accepted, then never again.
Next ==
    \/ \E e \in Events \ accepted : AddEvent(e)
    \/ Update
    \/ TransferSolutions
    \/ WaitUntillAllTasksCompleted
    \/ InsideMethod
    \/ \E w \in Workers : DeviceComplete(w)

Spec == Init /\ [][Next]_vars

\* The host thread keeps running inside a method, and every kernel completes.
FairSpec ==
    /\ Spec
    /\ WF_vars(InsideMethod)
    /\ \A w \in Workers : WF_vars(DeviceComplete(w))

-----------------------------------------------------------------------------
(* Safety.                                                                 *)

PcLabels == {"idle", "start", "poll", "handOver", "drain", "drainInner"}

TypeOK ==
    /\ eventBuffers \in [Buffers -> EventBufferObjects]
    /\ computingWorkers \in [Workers -> ComputingWorkerObjects]
    /\ freeEventBuffers \in Seq(Buffers)
    /\ readyEventBuffers \in Seq(Buffers)
    /\ processedEventBuffers \in Seq(Buffers)
    /\ stillProcessed \in Seq(Buffers)
    /\ waitingComputingWorkers \in Seq(Workers)
    /\ processingComputingWorkers \in Seq(Workers)
    /\ stillProcessing \in Seq(Workers)
    /\ solutions \in Seq(Pairs)
    /\ haveVector \in BOOLEAN
    /\ delivered \in Seq(Pairs)
    /\ accepted \in SUBSET Events
    /\ pc \in PcLabels
    /\ ret \in {"idle", "handOver", "drain", "drainInner"}

\* Every element of S is in exactly one of the sequences qs, exactly once.
DealtOut(qs, S) ==
    /\ \A k \in DOMAIN qs : IsInjective(qs[k])
    /\ \A k, l \in DOMAIN qs : k # l => Range(qs[k]) \cap Range(qs[l]) = {}
    /\ UNION {Range(qs[k]) : k \in DOMAIN qs} = S

\* No buffer index is lost or duplicated by the moves between the queues and
\* vectors, whatever completes while they are traversed.
OnePlacePerBuffer == DealtOut(bufferQueues, Buffers)

\* No worker index is lost or duplicated by them either.
OnePlacePerWorker == DealtOut(workerQueues, Workers)

\* processingComputingWorkers and processedEventBuffers are parallel vectors: at
\* every index, the buffer is the one that worker was given.
AlignedVectors(ws, bs) ==
    /\ Len(ws) = Len(bs)
    /\ \A i \in DOMAIN ws : computingWorkers[ws[i]].buffer = bs[i]

PairsStayAligned ==
    /\ AlignedVectors(processingComputingWorkers, processedEventBuffers)
    /\ AlignedVectors(stillProcessing, stillProcessed)

\* The bookkeeping of the queues and vectors as a whole: every index in its place,
\* whatever completes while the poll rebuilds the vectors.
NothingMislaid == OnePlacePerBuffer /\ OnePlacePerWorker /\ PairsStayAligned

\* startProcessingReadyBuffers ignores the result of assignBuffer; it may, because
\* the worker and the buffer it offers never make assignBuffer refuse.
AssignNeverRefused ==
    pc = "start" /\ waitingComputingWorkers # <<>> /\ readyEventBuffers # <<>> =>
        AcceptsBuffer(computingWorkers[Head(waitingComputingWorkers)],
                      eventBuffers[Head(readyEventBuffers)])

\* The solutions pointer is null before the first poll and after every
\* transferSolutions, and a worker's buffer pointer is null before its first
\* buffer; neither is dereferenced then.
NoNullDereference ==
    /\ pc \in {"poll", "handOver"} => haveVector
    /\ \A w \in Range(processingComputingWorkers) : computingWorkers[w].buffer # NoBuffer

\* So what the manager does without looking, it may: the results it ignores are
\* true and the pointers it dereferences are set.
CallsAreSafe == AssignNeverRefused /\ NoNullDereference

\* A buffer is not given another event while a kernel may read it or its
\* solutions have not been collected.
InUse(w) ==
    \/ computingWorkers[w].busy
    \/ w \in Range(processingComputingWorkers) \cup Range(stillProcessing)

KeepsInputs ==
    \A w \in Workers : InUse(w) =>
        LET b == computingWorkers[w].buffer
        IN  /\ computingWorkers'[w].buffer = b
            /\ eventBuffers'[b].event = eventBuffers[b].event

InputNotOverwritten == [][KeepsInputs]_vars

\* Every pair collected is an event with the solutions computed from that event's
\* points: never a pair of nulls, which saving the solutions would dereference,
\* and never the solutions of another event.
Results == delivered \o solutions

SolutionsMatchTheirEvent ==
    \A i \in DOMAIN Results : Results[i][1] \in accepted /\ Results[i][2] = Results[i][1]

\* Every event addEvent returned true for is in exactly one buffer or one
\* result, exactly once.
OccupiedBuffers == {b \in Buffers : eventBuffers[b].state # "FREE"}
HeldEvents == {eventBuffers[b].event : b \in OccupiedBuffers}
EventsOf(pairs) == {pairs[i][1] : i \in DOMAIN pairs}

EveryEventExactlyOnce ==
    /\ \A b, c \in OccupiedBuffers :
           eventBuffers[b].event = eventBuffers[c].event => b = c
    /\ \A i, j \in DOMAIN Results : Results[i][1] = Results[j][1] => i = j
    /\ HeldEvents \cap EventsOf(Results) = {}
    /\ HeldEvents \cup EventsOf(Results) = accepted

-----------------------------------------------------------------------------
(* The promise to the caller.                                              *)

Pipeline == INSTANCE EventPipeline WITH
    Capacity  <- NumBuffers,
    inside    <- HeldEvents,
    finished  <- EventsOf(solutions),
    delivered <- EventsOf(delivered)

\* Seen from outside, the manager is an EventPipeline of NumBuffers places.
ImplementsPipeline == Pipeline!Spec

\* waitUntillAllTasksCompleted returns, and then every accepted event has its
\* solutions.
DrainReturns ==
    pc = "drain" ~> pc = "idle" /\ EventsOf(Results) = accepted

=============================================================================
