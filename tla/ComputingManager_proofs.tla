----------------------- MODULE ComputingManager_proofs -----------------------
(***************************************************************************)
(* What holds of the computing manager for every number of events, buffers *)
(* and workers, with and without SYCL.  The inductive invariant IInv says  *)
(* which queue a buffer or a worker is in for each state it can be in, and *)
(* that the events of the buffers in flight are the inputs of the workers  *)
(* in flight.  Each action has a lemma showing that it preserves IInv; the *)
(* invariants of the component follow from it, and so does the refinement  *)
(* of EventPipeline, step by step.                                         *)
(***************************************************************************)
EXTENDS ComputingManager, QueueLemmas, FiniteSetTheorems

-----------------------------------------------------------------------------
(* The definitions the model is built from.                                *)

\* The constructor's loops push every index exactly once.
LEMMA IndicesFacts ==
    ASSUME NEW n \in Nat
    PROVE  /\ Indices(n) \in Seq(0 .. n - 1)
           /\ Range(Indices(n)) = 0 .. n - 1
           /\ IsInjective(Indices(n))
<1>1. Indices(n) \in Seq(0 .. n - 1)
    BY DEF Indices
<1>2. IsInjective(Indices(n))
    BY DEF Indices, IsInjective
<1>3. ASSUME NEW k \in 0 .. n - 1 PROVE k \in Range(Indices(n))
    <2>1. k + 1 \in DOMAIN Indices(n) /\ Indices(n)[k + 1] = k
        BY DEF Indices
    <2> QED BY <2>1 DEF Range
<1>4. ASSUME NEW k \in Range(Indices(n)) PROVE k \in 0 .. n - 1
    BY DEF Range, Indices
<1> QED BY <1>1, <1>2, <1>3, <1>4

\* The methods of EventBuffer and ComputingWorker map objects to objects.
LEMMA ObjectTypes ==
    /\ NewEventBuffer \in EventBufferObjects
    /\ \A buffer \in EventBufferObjects, state \in BufferStates :
           SetBufferState(buffer, state) \in EventBufferObjects
    /\ \A buffer \in EventBufferObjects, e \in Events :
           LoadEvent(buffer, e) \in EventBufferObjects
    /\ NewComputingWorker \in ComputingWorkerObjects
    /\ \A worker \in ComputingWorkerObjects :
           /\ UpdateState(worker) \in ComputingWorkerObjects
           /\ SetWorkerState(WorkerAfterTransfer(worker), "WAITING") \in ComputingWorkerObjects
           /\ [worker EXCEPT !.busy = FALSE] \in ComputingWorkerObjects
    /\ \A worker \in ComputingWorkerObjects, b \in Buffers, buffer \in EventBufferObjects :
           /\ AssignBuffer(worker, b, buffer) \in ComputingWorkerObjects
           /\ BufferAfterAssign(worker, buffer) \in EventBufferObjects
<1> USE AsyncAssumption
        DEF EventBufferObjects, ComputingWorkerObjects, BufferStates, WorkerStates
<1>1. NewEventBuffer \in EventBufferObjects /\ NewComputingWorker \in ComputingWorkerObjects
    BY DEF NewEventBuffer, NewComputingWorker
<1>2. \A buffer \in EventBufferObjects, state \in BufferStates :
          SetBufferState(buffer, state) \in EventBufferObjects
    BY DEF SetBufferState
<1>3. \A buffer \in EventBufferObjects, e \in Events :
          LoadEvent(buffer, e) \in EventBufferObjects
    BY DEF LoadEvent
<1>4. ASSUME NEW worker \in ComputingWorkerObjects
      PROVE  /\ UpdateState(worker) \in ComputingWorkerObjects
             /\ SetWorkerState(WorkerAfterTransfer(worker), "WAITING") \in ComputingWorkerObjects
             /\ [worker EXCEPT !.busy = FALSE] \in ComputingWorkerObjects
    BY DEF UpdateState, SetWorkerState, WorkerAfterTransfer
<1>5. ASSUME NEW worker \in ComputingWorkerObjects, NEW b \in Buffers,
             NEW buffer \in EventBufferObjects
      PROVE  /\ AssignBuffer(worker, b, buffer) \in ComputingWorkerObjects
             /\ BufferAfterAssign(worker, buffer) \in EventBufferObjects
    BY DEF AssignBuffer, BufferAfterAssign, SetBufferState, GetArrays
<1> QED BY <1>1, <1>2, <1>3, <1>4, <1>5

\* OnePlacePerWorker and OnePlacePerBuffer written out: sequences that have no
\* duplicates, share nothing, and together hold every index.
DealtIntoThree(p, q, r, S) ==
    /\ IsInjective(p) /\ IsInjective(q) /\ IsInjective(r)
    /\ Range(p) \cap Range(q) = {}
    /\ Range(p) \cap Range(r) = {}
    /\ Range(q) \cap Range(r) = {}
    /\ Range(p) \cup Range(q) \cup Range(r) = S

DealtIntoFour(p, q, r, s, S) ==
    /\ IsInjective(p) /\ IsInjective(q) /\ IsInjective(r) /\ IsInjective(s)
    /\ Range(p) \cap Range(q) = {}
    /\ Range(p) \cap Range(r) = {}
    /\ Range(p) \cap Range(s) = {}
    /\ Range(q) \cap Range(r) = {}
    /\ Range(q) \cap Range(s) = {}
    /\ Range(r) \cap Range(s) = {}
    /\ Range(p) \cup Range(q) \cup Range(r) \cup Range(s) = S

\* DealtOut of the three places a worker index can be in ...
LEMMA DealtOutThree ==
    ASSUME NEW p, NEW q, NEW r, NEW S
    PROVE  DealtOut(<<p, q, r>>, S) <=> DealtIntoThree(p, q, r, S)
<1> DEFINE qs == <<p, q, r>>
<1>1. DOMAIN qs = {1, 2, 3} /\ qs[1] = p /\ qs[2] = q /\ qs[3] = r
    OBVIOUS
<1>2. UNION {Range(qs[k]) : k \in DOMAIN qs} = Range(p) \cup Range(q) \cup Range(r)
    <2> HIDE DEF qs
    <2> QED BY <1>1
<1> HIDE DEF qs
<1>3. DealtOut(qs, S) <=> DealtIntoThree(p, q, r, S)
    BY <1>1, <1>2 DEF DealtOut, DealtIntoThree
<1> QED BY <1>3 DEF qs

\* ... and of the four places a buffer index can be in.
LEMMA DealtOutFour ==
    ASSUME NEW p, NEW q, NEW r, NEW s, NEW S
    PROVE  DealtOut(<<p, q, r, s>>, S) <=> DealtIntoFour(p, q, r, s, S)
<1> DEFINE qs == <<p, q, r, s>>
<1>1. DOMAIN qs = {1, 2, 3, 4} /\ qs[1] = p /\ qs[2] = q /\ qs[3] = r /\ qs[4] = s
    OBVIOUS
<1>2. UNION {Range(qs[k]) : k \in DOMAIN qs} = Range(p) \cup Range(q) \cup Range(r) \cup Range(s)
    <2> HIDE DEF qs
    <2> QED BY <1>1
<1> HIDE DEF qs
<1>3. DealtOut(qs, S) <=> DealtIntoFour(p, q, r, s, S)
    BY <1>1, <1>2 DEF DealtOut, DealtIntoFour
<1> QED BY <1>3 DEF qs

USE DEF DealtIntoThree, DealtIntoFour

-----------------------------------------------------------------------------
(* The inductive invariant.                                                *)

\* Every buffer index is in one of the four sequences of them, once ...
BuffersInPlace ==
    DealtIntoFour(freeEventBuffers, readyEventBuffers, processedEventBuffers, stillProcessed,
                  Buffers)

\* ... and every worker index in one of three.
WorkersInPlace ==
    DealtIntoThree(waitingComputingWorkers, processingComputingWorkers, stillProcessing, Workers)

\* These are the invariants the runs check.
LEMMA PlacesUnfolded ==
    /\ OnePlacePerBuffer <=> BuffersInPlace
    /\ OnePlacePerWorker <=> WorkersInPlace
    BY DealtOutThree, DealtOutFour
    DEF OnePlacePerBuffer, OnePlacePerWorker, bufferQueues, workerQueues, BuffersInPlace,
        WorkersInPlace

\* The queue a buffer is in tells its state: only buffers that can take an event
\* are free, and only buffers holding an unassigned one are ready.
BuffersByQueue ==
    /\ \A b \in Range(freeEventBuffers) : eventBuffers[b].state = "FREE"
    /\ \A b \in Range(readyEventBuffers) : eventBuffers[b].state = "READY"
    /\ \A b \in Range(processedEventBuffers) \cup Range(stillProcessed) :
           eventBuffers[b].state # "FREE"

\* A worker in the waiting queue says it is WAITING and has no kernel running.
WaitingWorkersIdle ==
    \A w \in Range(waitingComputingWorkers) :
        computingWorkers[w].state = "WAITING" /\ ~ computingWorkers[w].busy

\* A worker that is being polled has computed, or is computing, from the event that
\* is in its buffer now.
InFlight(w) ==
    /\ computingWorkers[w].state = IF Async THEN "PROCESSING" ELSE "COMPLETED"
    /\ computingWorkers[w].busy => Async
    /\ computingWorkers[w].input = eventBuffers[computingWorkers[w].buffer].event

\* All workers in the two vectors of the poll are in flight.
WorkersInFlight ==
    \A w \in Range(processingComputingWorkers) \cup Range(stillProcessing) : InFlight(w)

\* The solutions vector exists wherever the code dereferences it.
VectorAllocated == pc \in {"poll", "handOver"} => haveVector

\* The inductive invariant: TypeOK alone is not inductive, since the poll reads
\* processedEventBuffers at an index bounded by the other vector's size, and the
\* pairing of events needs the queues apart and the states by queue.
IInv ==
    /\ TypeOK
    /\ BuffersInPlace
    /\ WorkersInPlace
    /\ PairsStayAligned
    /\ BuffersByQueue
    /\ WaitingWorkersIdle
    /\ WorkersInFlight
    /\ VectorAllocated
    /\ SolutionsMatchTheirEvent
    /\ EveryEventExactlyOnce


-----------------------------------------------------------------------------
(* It holds initially, and every action preserves it.                      *)

\* The constructor establishes the invariant.
LEMMA InvInit == Init => IInv
<1> SUFFICES ASSUME Init PROVE IInv
    OBVIOUS
<1>1. TypeOK
    <2>1. /\ eventBuffers \in [Buffers -> EventBufferObjects]
          /\ computingWorkers \in [Workers -> ComputingWorkerObjects]
        BY ObjectTypes DEF Init
    <2>2. freeEventBuffers \in Seq(Buffers) /\ waitingComputingWorkers \in Seq(Workers)
        BY IndicesFacts, NumBuffersAssumption, NumWorkersAssumption DEF Init, Buffers, Workers
    <2>3. /\ <<>> \in Seq(Buffers) /\ <<>> \in Seq(Workers) /\ <<>> \in Seq(Pairs)
          /\ {} \in SUBSET Events
        OBVIOUS
    <2>4. pc \in PcLabels /\ ret \in {"idle", "handOver", "drain", "drainInner"}
        BY DEF Init, PcLabels
    <2> QED BY <2>1, <2>2, <2>3, <2>4 DEF Init, TypeOK
<1>2. BuffersInPlace /\ WorkersInPlace
    BY IndicesFacts, EmptyFacts, NumBuffersAssumption, NumWorkersAssumption
    DEF Init, BuffersInPlace, WorkersInPlace, Buffers, Workers
<1>3. PairsStayAligned
    BY DEF Init, PairsStayAligned, AlignedVectors
<1>4. BuffersByQueue /\ WaitingWorkersIdle /\ WorkersInFlight /\ VectorAllocated
    BY <1>2, EmptyFacts DEF Init, BuffersInPlace, WorkersInPlace, BuffersByQueue,
        WaitingWorkersIdle, WorkersInFlight, VectorAllocated, NewEventBuffer, NewComputingWorker
<1>5. Results = <<>> /\ OccupiedBuffers = {}
    BY DEF Init, Results, OccupiedBuffers, NewEventBuffer
<1>6. SolutionsMatchTheirEvent /\ EveryEventExactlyOnce
    BY <1>5 DEF Init, SolutionsMatchTheirEvent, EveryEventExactlyOnce, HeldEvents, EventsOf
<1> QED BY <1>1, <1>2, <1>3, <1>4, <1>6 DEF IInv

\* Steps that leave the buffers, the accepted events and the results alone keep
\* what the invariant says of the results.
LEMMA ResultsUnchanged ==
    ASSUME IInv, UNCHANGED <<eventBuffers, accepted, Results>>
    PROVE  SolutionsMatchTheirEvent' /\ EveryEventExactlyOnce'
<1>1. OccupiedBuffers' = OccupiedBuffers /\ HeldEvents' = HeldEvents
    BY DEF OccupiedBuffers, HeldEvents
<1>2. EventsOf(Results)' = EventsOf(Results)
    BY DEF EventsOf
<1> QED BY <1>1, <1>2 DEF IInv, SolutionsMatchTheirEvent, EveryEventExactlyOnce

\* Steps that only move the program counter, or allocate the solutions vector.
LEMMA InvControl ==
    ASSUME IInv,
           UNCHANGED <<objectVars, bufferQueues, workerQueues, solutions, delivered, accepted>>,
           pc' \in PcLabels, ret' \in {"idle", "handOver", "drain", "drainInner"},
           haveVector' \in BOOLEAN, VectorAllocated'
    PROVE  IInv'
<1> USE DEF objectVars, bufferQueues, workerQueues
<1>1. TypeOK'
    BY DEF IInv, TypeOK
<1>2. BuffersInPlace' /\ WorkersInPlace' /\ PairsStayAligned'
    BY DEF IInv, BuffersInPlace, WorkersInPlace, PairsStayAligned, AlignedVectors
<1>3. BuffersByQueue' /\ WaitingWorkersIdle' /\ WorkersInFlight'
    BY DEF IInv, BuffersByQueue, WaitingWorkersIdle, WorkersInFlight, InFlight
<1>4. Results' = Results
    BY DEF Results
<1>5. SolutionsMatchTheirEvent' /\ EveryEventExactlyOnce'
    BY <1>4, ResultsUnchanged
<1> QED BY <1>1, <1>2, <1>3, <1>5 DEF IInv

\* The buffer of a worker in flight is in the vector parallel to the worker's.
LEMMA BufferOfInFlight ==
    ASSUME IInv
    PROVE  /\ \A w \in Range(processingComputingWorkers) :
                  computingWorkers[w].buffer \in Range(processedEventBuffers)
           /\ \A w \in Range(stillProcessing) :
                  computingWorkers[w].buffer \in Range(stillProcessed)
<1>1. /\ DOMAIN processingComputingWorkers = DOMAIN processedEventBuffers
      /\ DOMAIN stillProcessing = DOMAIN stillProcessed
    BY DEF IInv, TypeOK, PairsStayAligned, AlignedVectors
<1> QED BY <1>1 DEF IInv, PairsStayAligned, AlignedVectors, Range

\* The worker the poll visits was given the buffer it visits.
LEMMA HeadsAligned ==
    ASSUME IInv, processingComputingWorkers # <<>>
    PROVE  /\ processedEventBuffers # <<>>
           /\ computingWorkers[Head(processingComputingWorkers)].buffer
                  = Head(processedEventBuffers)
<1>1. /\ processingComputingWorkers \in Seq(Workers) /\ processedEventBuffers \in Seq(Buffers)
      /\ Len(processingComputingWorkers) = Len(processedEventBuffers)
    BY DEF IInv, TypeOK, PairsStayAligned, AlignedVectors
<1>2. /\ processedEventBuffers # <<>>
      /\ 1 \in DOMAIN processingComputingWorkers
      /\ Head(processingComputingWorkers) = processingComputingWorkers[1]
      /\ Head(processedEventBuffers) = processedEventBuffers[1]
    BY <1>1
<1> QED BY <1>2 DEF IInv, PairsStayAligned, AlignedVectors

\* addEvent: the buffer taken is free, so the event replaces none in flight.
LEMMA InvAddEvent ==
    ASSUME IInv, NEW e \in Events \ accepted, AddEvent(e)
    PROVE  IInv' /\ HeldEvents' = HeldEvents \cup {e}
<1> DEFINE b == Head(freeEventBuffers)
<1>1. TypeOK /\ BuffersInPlace /\ BuffersByQueue
    BY DEF IInv
<1>2. /\ b \in Buffers /\ b \in Range(freeEventBuffers)
      /\ freeEventBuffers' \in Seq(Buffers)
      /\ Range(freeEventBuffers) = Range(freeEventBuffers') \cup {b}
      /\ IsInjective(freeEventBuffers') /\ b \notin Range(freeEventBuffers')
    BY <1>1, PopFacts DEF AddEvent, TypeOK, BuffersInPlace
<1>3. /\ readyEventBuffers' \in Seq(Buffers)
      /\ Range(readyEventBuffers') = Range(readyEventBuffers) \cup {b}
      /\ IsInjective(readyEventBuffers')
    BY <1>1, <1>2, PushFacts DEF AddEvent, TypeOK, BuffersInPlace
<1>4. eventBuffers' = [eventBuffers EXCEPT ![b] = [state |-> "READY", event |-> e]]
    <2>1. eventBuffers[b].state = "FREE"
        BY <1>1, <1>2 DEF BuffersByQueue
    <2>2. SetBufferState(LoadEvent(eventBuffers[b], e), "READY") = [state |-> "READY", event |-> e]
        BY <2>1 DEF LoadEvent, SetBufferState
    <2> QED BY <2>2 DEF AddEvent
<1>5. TypeOK'
    BY <1>1, <1>2, <1>3, <1>4
    DEF AddEvent, CallUpdate, TypeOK, EventBufferObjects, BufferStates, PcLabels,
        workerQueues, resultVars
<1>6. BuffersInPlace' /\ WorkersInPlace'
    BY <1>2, <1>3 DEF IInv, AddEvent, BuffersInPlace, WorkersInPlace, workerQueues
<1>7. PairsStayAligned'
    BY DEF IInv, AddEvent, PairsStayAligned, AlignedVectors, workerQueues
<1>8. BuffersByQueue'
    BY <1>1, <1>2, <1>3, <1>4
    DEF AddEvent, BuffersByQueue, BuffersInPlace, TypeOK
<1>9. WaitingWorkersIdle'
    BY DEF IInv, AddEvent, WaitingWorkersIdle, workerQueues
<1>10. \A w \in Range(processingComputingWorkers) \cup Range(stillProcessing) :
           /\ computingWorkers[w].buffer \in Buffers
           /\ computingWorkers[w].buffer # b
    BY <1>1, <1>2, BufferOfInFlight DEF BuffersInPlace
<1>11. WorkersInFlight'
    BY <1>1, <1>4, <1>10 DEF IInv, AddEvent, WorkersInFlight, InFlight, workerQueues, TypeOK
<1>12. VectorAllocated'
    BY DEF AddEvent, CallUpdate, VectorAllocated
<1>13. Results' = Results
    BY DEF AddEvent, Results, resultVars
<1>14. SolutionsMatchTheirEvent'
    BY <1>13 DEF IInv, AddEvent, SolutionsMatchTheirEvent
<1>15. OccupiedBuffers' = OccupiedBuffers \cup {b} /\ b \notin OccupiedBuffers
    BY <1>1, <1>2, <1>4 DEF OccupiedBuffers, BuffersByQueue, TypeOK
<1>16. /\ \A c \in OccupiedBuffers : eventBuffers'[c] = eventBuffers[c]
       /\ eventBuffers'[b].event = e
    BY <1>1, <1>2, <1>4, <1>15 DEF TypeOK
<1>17. HeldEvents' = HeldEvents \cup {e} /\ e \notin HeldEvents /\ e \notin EventsOf(Results)
    BY <1>15, <1>16 DEF IInv, HeldEvents, EveryEventExactlyOnce
<1>18. EveryEventExactlyOnce'
    <2>1. \A c, d \in OccupiedBuffers' : eventBuffers'[c].event = eventBuffers'[d].event => c = d
        BY <1>15, <1>16, <1>17 DEF IInv, EveryEventExactlyOnce, HeldEvents
    <2>2. EventsOf(Results)' = EventsOf(Results)
        BY <1>13 DEF EventsOf
    <2>3. accepted' = accepted \cup {e}
        BY DEF AddEvent
    <2> QED BY <1>13, <1>17, <2>1, <2>2, <2>3 DEF IInv, EveryEventExactlyOnce
<1> QED BY <1>5, <1>6, <1>7, <1>8, <1>9, <1>11, <1>12, <1>14, <1>17, <1>18 DEF IInv

\* startProcessingReadyBuffers: the assignment is accepted and pairs the worker
\* with the buffer in both vectors.
LEMMA InvStartProcessing ==
    ASSUME IInv, StartProcessing
    PROVE  IInv' /\ HeldEvents' = HeldEvents
<1> DEFINE w == Head(waitingComputingWorkers)
           b == Head(readyEventBuffers)
<1>0. /\ waitingComputingWorkers # <<>> /\ readyEventBuffers # <<>>
      /\ readyEventBuffers' = Tail(readyEventBuffers)
      /\ processedEventBuffers' = Append(processedEventBuffers, b)
      /\ waitingComputingWorkers' = Tail(waitingComputingWorkers)
      /\ processingComputingWorkers' = Append(processingComputingWorkers, w)
      /\ UNCHANGED <<freeEventBuffers, stillProcessed, stillProcessing>>
    BY DEF StartProcessing
<1>1. TypeOK /\ BuffersInPlace /\ WorkersInPlace /\ BuffersByQueue
    BY DEF IInv
<1>2. /\ b \in Buffers /\ b \in Range(readyEventBuffers)
      /\ readyEventBuffers' \in Seq(Buffers)
      /\ Range(readyEventBuffers) = Range(readyEventBuffers') \cup {b}
      /\ IsInjective(readyEventBuffers') /\ b \notin Range(readyEventBuffers')
    BY <1>0, <1>1, PopFacts DEF TypeOK, BuffersInPlace
<1>3. /\ processedEventBuffers' \in Seq(Buffers)
      /\ Range(processedEventBuffers') = Range(processedEventBuffers) \cup {b}
      /\ IsInjective(processedEventBuffers')
    BY <1>0, <1>1, <1>2, PushFacts DEF TypeOK, BuffersInPlace
<1>4. /\ w \in Workers /\ w \in Range(waitingComputingWorkers)
      /\ waitingComputingWorkers' \in Seq(Workers)
      /\ Range(waitingComputingWorkers) = Range(waitingComputingWorkers') \cup {w}
      /\ IsInjective(waitingComputingWorkers') /\ w \notin Range(waitingComputingWorkers')
    BY <1>0, <1>1, PopFacts DEF TypeOK, WorkersInPlace
<1>5. /\ processingComputingWorkers' \in Seq(Workers)
      /\ Range(processingComputingWorkers') = Range(processingComputingWorkers) \cup {w}
      /\ IsInjective(processingComputingWorkers')
    BY <1>0, <1>1, <1>4, PushFacts DEF TypeOK, WorkersInPlace
<1>6. AcceptsBuffer(computingWorkers[w], eventBuffers[b])
    BY <1>2, <1>4 DEF IInv, BuffersByQueue, WaitingWorkersIdle, AcceptsBuffer
<1>7. /\ computingWorkers' = [computingWorkers EXCEPT ![w] =
             [state |-> IF Async THEN "PROCESSING" ELSE "COMPLETED",
              buffer |-> b, busy |-> Async, input |-> eventBuffers[b].event]]
      /\ eventBuffers' = [eventBuffers EXCEPT ![b] =
             IF Async THEN [@ EXCEPT !.state = "PROCESSED"] ELSE @]
    BY <1>6 DEF StartProcessing, AssignBuffer, BufferAfterAssign, SetBufferState, GetArrays
<1>8. /\ \A c \in Buffers : eventBuffers'[c].event = eventBuffers[c].event
      /\ \A c \in Buffers : c # b => eventBuffers'[c] = eventBuffers[c]
      /\ eventBuffers[b].state = "READY" /\ eventBuffers'[b].state # "FREE"
    BY <1>1, <1>2, <1>7 DEF TypeOK, EventBufferObjects, BuffersByQueue
<1>9. TypeOK'
    <2>1. /\ AssignBuffer(computingWorkers[w], b, eventBuffers[b]) \in ComputingWorkerObjects
          /\ BufferAfterAssign(computingWorkers[w], eventBuffers[b]) \in EventBufferObjects
        BY <1>1, <1>2, <1>4, ObjectTypes DEF TypeOK
    <2> QED BY <1>1, <1>2, <1>3, <1>4, <1>5, <2>1 DEF StartProcessing, TypeOK, resultVars
<1>10. BuffersInPlace'
    BY <1>0, <1>1, <1>2, <1>3 DEF BuffersInPlace
<1>11. WorkersInPlace'
    BY <1>0, <1>1, <1>4, <1>5 DEF WorkersInPlace
<1>12. \A v \in Range(processingComputingWorkers) \cup Range(stillProcessing) :
           v \in Workers /\ v # w /\ computingWorkers'[v] = computingWorkers[v]
    BY <1>1, <1>4, <1>7 DEF WorkersInPlace, TypeOK
<1>13. PairsStayAligned'
    <2>1. AlignedVectors(processingComputingWorkers, processedEventBuffers)'
        <3>1. /\ Len(processingComputingWorkers) = Len(processedEventBuffers)
              /\ computingWorkers'[w].buffer = b
            BY <1>1, <1>4, <1>7 DEF IInv, PairsStayAligned, AlignedVectors, TypeOK
        <3>2. \A i \in DOMAIN processingComputingWorkers :
                  computingWorkers'[processingComputingWorkers[i]].buffer = processedEventBuffers[i]
            BY <1>12 DEF IInv, PairsStayAligned, AlignedVectors, Range
        <3> QED BY <1>0, <1>1, <1>2, <1>4, <3>1, <3>2 DEF AlignedVectors, TypeOK
    <2>2. AlignedVectors(stillProcessing, stillProcessed)'
        BY <1>0, <1>12 DEF IInv, PairsStayAligned, AlignedVectors, Range
    <2> QED BY <2>1, <2>2 DEF PairsStayAligned
<1>14. BuffersByQueue'
    BY <1>0, <1>1, <1>2, <1>3, <1>8 DEF BuffersByQueue, BuffersInPlace
<1>15. WaitingWorkersIdle'
    BY <1>1, <1>4, <1>7 DEF IInv, WaitingWorkersIdle, WorkersInPlace, TypeOK
<1>16. WorkersInFlight'
    <2>1. \A v \in Range(processingComputingWorkers) \cup Range(stillProcessing) :
              computingWorkers[v].buffer \in Buffers
        BY <1>1, BufferOfInFlight DEF BuffersInPlace
    <2>2. \A v \in Range(processingComputingWorkers) \cup Range(stillProcessing) : InFlight(v)'
        BY <1>8, <1>12, <2>1 DEF IInv, WorkersInFlight, InFlight
    <2>3. ASSUME NEW v \in {w} PROVE InFlight(v)'
        BY <1>1, <1>2, <1>4, <1>7, <1>8, AsyncAssumption DEF InFlight, TypeOK
    <2> QED BY <1>0, <1>5, <2>2, <2>3 DEF WorkersInFlight
<1>17. VectorAllocated'
    BY DEF StartProcessing, IInv, VectorAllocated, resultVars
<1>18. Results' = Results /\ accepted' = accepted
    BY DEF StartProcessing, Results, resultVars
<1>19. OccupiedBuffers' = OccupiedBuffers
    BY <1>1, <1>2, <1>8 DEF OccupiedBuffers, BuffersByQueue
<1>20. EventsOf(Results)' = EventsOf(Results) /\ HeldEvents' = HeldEvents
    <2>1. \A c \in OccupiedBuffers : eventBuffers'[c].event = eventBuffers[c].event
        BY <1>8 DEF OccupiedBuffers
    <2> QED BY <1>18, <1>19, <2>1 DEF EventsOf, HeldEvents
<1>21. SolutionsMatchTheirEvent'
    BY <1>18 DEF IInv, SolutionsMatchTheirEvent
<1>22. EveryEventExactlyOnce'
    <2>1. \A c, d \in OccupiedBuffers' : eventBuffers'[c].event = eventBuffers'[d].event => c = d
        BY <1>8, <1>19 DEF IInv, EveryEventExactlyOnce, OccupiedBuffers
    <2> QED BY <1>18, <1>20, <2>1 DEF IInv, EveryEventExactlyOnce
<1> QED BY <1>9, <1>10, <1>11, <1>13, <1>14, <1>15, <1>16, <1>17, <1>20, <1>21,
           <1>22 DEF IInv

\* A poll turn that finds the worker PROCESSING only moves it.
LEMMA InvPollProcessing ==
    ASSUME IInv, PollProcessing
    PROVE  IInv'
<1> DEFINE w == Head(processingComputingWorkers)
           b == Head(processedEventBuffers)
           polled == UpdateState(computingWorkers[w])
<1>0. /\ processingComputingWorkers # <<>>
      /\ processedEventBuffers' = Tail(processedEventBuffers)
      /\ stillProcessed' = Append(stillProcessed, b)
      /\ processingComputingWorkers' = Tail(processingComputingWorkers)
      /\ stillProcessing' = Append(stillProcessing, w)
      /\ UNCHANGED <<freeEventBuffers, readyEventBuffers, waitingComputingWorkers>>
    BY DEF PollProcessing
<1>1. TypeOK /\ BuffersInPlace /\ WorkersInPlace /\ BuffersByQueue
    BY DEF IInv
<1>2. processedEventBuffers # <<>>
    BY <1>0, HeadsAligned
<1>3. /\ b \in Buffers /\ b \in Range(processedEventBuffers)
      /\ processedEventBuffers' \in Seq(Buffers)
      /\ Range(processedEventBuffers) = Range(processedEventBuffers') \cup {b}
      /\ IsInjective(processedEventBuffers') /\ b \notin Range(processedEventBuffers')
    BY <1>0, <1>1, <1>2, PopFacts DEF TypeOK, BuffersInPlace
<1>4. /\ stillProcessed' \in Seq(Buffers)
      /\ Range(stillProcessed') = Range(stillProcessed) \cup {b}
      /\ IsInjective(stillProcessed')
    BY <1>0, <1>1, <1>3, PushFacts DEF TypeOK, BuffersInPlace
<1>5. /\ w \in Workers /\ w \in Range(processingComputingWorkers)
      /\ processingComputingWorkers' \in Seq(Workers)
      /\ Range(processingComputingWorkers) = Range(processingComputingWorkers') \cup {w}
      /\ IsInjective(processingComputingWorkers') /\ w \notin Range(processingComputingWorkers')
    BY <1>0, <1>1, PopFacts DEF TypeOK, WorkersInPlace
<1>6. /\ stillProcessing' \in Seq(Workers)
      /\ Range(stillProcessing') = Range(stillProcessing) \cup {w}
      /\ IsInjective(stillProcessing')
    BY <1>0, <1>1, <1>5, PushFacts DEF TypeOK, WorkersInPlace
<1>7. computingWorkers' = computingWorkers
    <2>1. computingWorkers[w].state = IF Async THEN "PROCESSING" ELSE "COMPLETED"
        BY <1>5 DEF IInv, WorkersInFlight, InFlight
    <2>2. computingWorkers[w] \in ComputingWorkerObjects /\ polled.state = "PROCESSING"
        BY <1>1, <1>5 DEF TypeOK, PollProcessing
    <2>3. polled = computingWorkers[w]
        BY <2>1, <2>2 DEF UpdateState, ComputingWorkerObjects
    <2> QED BY <1>1, <2>3 DEF PollProcessing, TypeOK
<1>8. eventBuffers' = eventBuffers
    BY DEF PollProcessing
<1>9. TypeOK'
    BY <1>1, <1>3, <1>4, <1>5, <1>6, <1>7 DEF PollProcessing, TypeOK, resultVars
<1>10. BuffersInPlace'
    BY <1>0, <1>1, <1>3, <1>4 DEF BuffersInPlace
<1>11. WorkersInPlace'
    BY <1>0, <1>1, <1>5, <1>6 DEF WorkersInPlace
<1>12. PairsStayAligned'
    <2>1. /\ AlignedVectors(processingComputingWorkers, processedEventBuffers)
          /\ AlignedVectors(stillProcessing, stillProcessed)
        BY DEF IInv, PairsStayAligned
    <2>2. AlignedVectors(processingComputingWorkers, processedEventBuffers)'
        BY <1>0, <1>1, <1>2, <1>7, <2>1 DEF AlignedVectors, TypeOK
    <2>3. computingWorkers[w].buffer = b
        BY <1>0, HeadsAligned
    <2>4. AlignedVectors(stillProcessing, stillProcessed)'
        BY <1>0, <1>1, <1>3, <1>5, <1>7, <2>1, <2>3 DEF AlignedVectors, TypeOK
    <2> QED BY <2>2, <2>4 DEF PairsStayAligned
<1>13. BuffersByQueue' /\ WaitingWorkersIdle'
    BY <1>0, <1>1, <1>3, <1>4, <1>7, <1>8
    DEF IInv, BuffersByQueue, WaitingWorkersIdle
<1>14. WorkersInFlight'
    BY <1>5, <1>6, <1>7, <1>8 DEF IInv, WorkersInFlight, InFlight
<1>15. VectorAllocated'
    BY DEF PollProcessing, IInv, VectorAllocated, resultVars
<1>16. Results' = Results /\ accepted' = accepted
    BY DEF PollProcessing, Results, resultVars
<1>17. SolutionsMatchTheirEvent' /\ EveryEventExactlyOnce'
    BY <1>8, <1>16, ResultsUnchanged
<1> QED BY <1>9, <1>10, <1>11, <1>12, <1>13, <1>14, <1>15, <1>17 DEF IInv

\* A poll turn that finds the worker COMPLETED turns the event of its buffer into
\* a result of its own and frees the buffer.
LEMMA InvPollCompleted ==
    ASSUME IInv, PollCompleted
    PROVE  /\ IInv'
           /\ \E e \in HeldEvents :
                  HeldEvents' = HeldEvents \ {e} /\ solutions' = Append(solutions, <<e, e>>)
<1> DEFINE w == Head(processingComputingWorkers)
           b == Head(processedEventBuffers)
           polled == UpdateState(computingWorkers[w])
           event == eventBuffers[b].event
<1>0. /\ processingComputingWorkers # <<>>
      /\ processedEventBuffers' = Tail(processedEventBuffers)
      /\ freeEventBuffers' = Append(freeEventBuffers, b)
      /\ processingComputingWorkers' = Tail(processingComputingWorkers)
      /\ waitingComputingWorkers' = Append(waitingComputingWorkers, w)
      /\ UNCHANGED <<readyEventBuffers, stillProcessed, stillProcessing>>
    BY DEF PollCompleted
<1>1. TypeOK /\ BuffersInPlace /\ WorkersInPlace /\ BuffersByQueue
    BY DEF IInv
<1>2. processedEventBuffers # <<>>
    BY <1>0, HeadsAligned
<1>3. /\ b \in Buffers /\ b \in Range(processedEventBuffers)
      /\ processedEventBuffers' \in Seq(Buffers)
      /\ Range(processedEventBuffers) = Range(processedEventBuffers') \cup {b}
      /\ IsInjective(processedEventBuffers') /\ b \notin Range(processedEventBuffers')
    BY <1>0, <1>1, <1>2, PopFacts DEF TypeOK, BuffersInPlace
<1>4. /\ freeEventBuffers' \in Seq(Buffers)
      /\ Range(freeEventBuffers') = Range(freeEventBuffers) \cup {b}
      /\ IsInjective(freeEventBuffers')
    BY <1>0, <1>1, <1>3, PushFacts DEF TypeOK, BuffersInPlace
<1>5. /\ w \in Workers /\ w \in Range(processingComputingWorkers)
      /\ processingComputingWorkers' \in Seq(Workers)
      /\ Range(processingComputingWorkers) = Range(processingComputingWorkers') \cup {w}
      /\ IsInjective(processingComputingWorkers') /\ w \notin Range(processingComputingWorkers')
    BY <1>0, <1>1, PopFacts DEF TypeOK, WorkersInPlace
<1>6. /\ waitingComputingWorkers' \in Seq(Workers)
      /\ Range(waitingComputingWorkers') = Range(waitingComputingWorkers) \cup {w}
      /\ IsInjective(waitingComputingWorkers')
    BY <1>0, <1>1, <1>5, PushFacts DEF TypeOK, WorkersInPlace
<1>7. /\ AlignedVectors(processingComputingWorkers, processedEventBuffers)
      /\ AlignedVectors(stillProcessing, stillProcessed)
      /\ computingWorkers[w].buffer = b
    BY <1>0, HeadsAligned DEF IInv, PairsStayAligned
<1>8. /\ polled = [computingWorkers[w] EXCEPT !.state = "COMPLETED"]
      /\ ~ polled.busy
    <2>1. /\ InFlight(w)
          /\ computingWorkers[w] \in ComputingWorkerObjects
          /\ polled.state # "PROCESSING"
        BY <1>1, <1>5 DEF IInv, WorkersInFlight, TypeOK, PollCompleted
    <2> QED BY <2>1, AsyncAssumption DEF InFlight, UpdateState, ComputingWorkerObjects
<1>9. /\ computingWorkers[w].input = event
      /\ computingWorkers[w] \in ComputingWorkerObjects
      /\ eventBuffers[b] \in EventBufferObjects
    BY <1>1, <1>3, <1>5, <1>7 DEF IInv, WorkersInFlight, InFlight, TypeOK
<1>10. computingWorkers' = [computingWorkers EXCEPT ![w] = [@ EXCEPT !.state = "WAITING"]]
    <2>1. SetWorkerState(WorkerAfterTransfer(polled), "WAITING")
              = [computingWorkers[w] EXCEPT !.state = "WAITING"]
        BY <1>8, <1>9 DEF SetWorkerState, WorkerAfterTransfer, ComputingWorkerObjects
    <2> QED BY <2>1 DEF PollCompleted
<1>11. eventBuffers' = [eventBuffers EXCEPT ![b] = [@ EXCEPT !.state = "FREE"]]
    BY DEF PollCompleted, SetBufferState
<1>12. solutions' = Append(solutions, <<event, event>>)
    BY <1>7, <1>8, <1>9 DEF PollCompleted, TransferredPair, ComputingWorkerObjects
<1>13. b \in OccupiedBuffers /\ event \in accepted /\ event \in HeldEvents
    BY <1>1, <1>3 DEF IInv, BuffersByQueue, OccupiedBuffers, EveryEventExactlyOnce, HeldEvents
<1>14. /\ \A c \in Buffers : eventBuffers'[c].event = eventBuffers[c].event
       /\ \A c \in Buffers : c # b => eventBuffers'[c] = eventBuffers[c]
       /\ eventBuffers'[b].state = "FREE"
    BY <1>1, <1>3, <1>11 DEF TypeOK, EventBufferObjects
<1>15. TypeOK'
    <2>1. computingWorkers' \in [Workers -> ComputingWorkerObjects]
        BY <1>1, <1>5, <1>10 DEF TypeOK, ComputingWorkerObjects, WorkerStates
    <2>2. eventBuffers' \in [Buffers -> EventBufferObjects]
        BY <1>1, <1>3, <1>11 DEF TypeOK, EventBufferObjects, BufferStates
    <2>3. <<event, event>> \in Pairs
        BY <1>9 DEF Pairs, EventBufferObjects
    <2>4. solutions' \in Seq(Pairs)
        BY <1>1, <1>12, <2>3 DEF TypeOK
    <2> QED BY <1>1, <1>3, <1>4, <1>5, <1>6, <2>1, <2>2, <2>4 DEF PollCompleted, TypeOK
<1>16. BuffersInPlace'
    BY <1>0, <1>1, <1>3, <1>4 DEF BuffersInPlace
<1>17. WorkersInPlace'
    BY <1>0, <1>1, <1>5, <1>6 DEF WorkersInPlace
<1>18. \A v \in Workers : /\ computingWorkers'[v].buffer = computingWorkers[v].buffer
                          /\ v # w => computingWorkers'[v] = computingWorkers[v]
    BY <1>1, <1>5, <1>10 DEF TypeOK, ComputingWorkerObjects
<1>19. PairsStayAligned'
    <2>1. \A i \in DOMAIN processingComputingWorkers : processingComputingWorkers[i] \in Workers
        BY <1>1 DEF WorkersInPlace, Range
    <2>2. \A i \in DOMAIN stillProcessing : stillProcessing[i] \in Workers
        BY <1>1 DEF WorkersInPlace, Range
    <2>3. AlignedVectors(processingComputingWorkers, processedEventBuffers)'
        BY <1>0, <1>1, <1>2, <1>7, <1>18, <2>1 DEF AlignedVectors, TypeOK
    <2>4. AlignedVectors(stillProcessing, stillProcessed)'
        BY <1>0, <1>7, <1>18, <2>2 DEF AlignedVectors
    <2> QED BY <2>3, <2>4 DEF PairsStayAligned
<1>20. BuffersByQueue'
    BY <1>0, <1>1, <1>3, <1>4, <1>14 DEF BuffersByQueue, BuffersInPlace
<1>21. WaitingWorkersIdle'
    <2>1. computingWorkers'[w].state = "WAITING" /\ ~ computingWorkers'[w].busy
        BY <1>1, <1>5, <1>8, <1>10 DEF TypeOK, ComputingWorkerObjects
    <2>2. \A v \in Range(waitingComputingWorkers) : v \in Workers /\ v # w
        BY <1>1, <1>5 DEF WorkersInPlace
    <2> QED BY <1>6, <1>18, <2>1, <2>2 DEF IInv, WaitingWorkersIdle
<1>22. WorkersInFlight'
    <2>1. \A v \in Range(processingComputingWorkers') \cup Range(stillProcessing') :
              /\ v \in Range(processingComputingWorkers) \cup Range(stillProcessing)
              /\ v \in Workers /\ v # w
        BY <1>0, <1>1, <1>5 DEF WorkersInPlace
    <2>2. \A v \in Range(processingComputingWorkers) \cup Range(stillProcessing) :
              computingWorkers[v].buffer \in Buffers
        BY <1>1, BufferOfInFlight DEF BuffersInPlace
    <2> QED BY <1>14, <1>18, <2>1, <2>2 DEF IInv, WorkersInFlight, InFlight
<1>23. VectorAllocated'
    BY DEF PollCompleted, IInv, VectorAllocated
<1>24. Results' = Append(Results, <<event, event>>) /\ Results \in Seq(Pairs)
    <2>1. <<event, event>> \in Pairs
        BY <1>9 DEF Pairs, EventBufferObjects
    <2>2. delivered \in Seq(Pairs) /\ solutions \in Seq(Pairs) /\ delivered' = delivered
        BY <1>1 DEF TypeOK, PollCompleted
    <2> QED BY <1>12, <2>1, <2>2, AppendToConcat DEF Results
<1>25. /\ DOMAIN Results' = 1 .. Len(Results) + 1 /\ DOMAIN Results = 1 .. Len(Results)
       /\ Len(Results) \in Nat
       /\ \A i \in 1 .. Len(Results) : Results'[i] = Results[i]
       /\ Results'[Len(Results) + 1] = <<event, event>>
    BY <1>24
<1>26. SolutionsMatchTheirEvent'
    BY <1>13, <1>25 DEF IInv, SolutionsMatchTheirEvent, PollCompleted
<1>27. OccupiedBuffers' = OccupiedBuffers \ {b}
    BY <1>1, <1>3, <1>14 DEF OccupiedBuffers
<1>28. HeldEvents' = HeldEvents \ {event}
    BY <1>13, <1>14, <1>27 DEF IInv, HeldEvents, EveryEventExactlyOnce, OccupiedBuffers
<1>29. EventsOf(Results') = EventsOf(Results) \cup {event}
    BY <1>25 DEF EventsOf
<1>30. EveryEventExactlyOnce'
    <2>1. \A c, d \in OccupiedBuffers' : eventBuffers'[c].event = eventBuffers'[d].event => c = d
        BY <1>14, <1>27 DEF IInv, EveryEventExactlyOnce, OccupiedBuffers
    <2>2. event \notin EventsOf(Results)
        BY <1>13 DEF IInv, EveryEventExactlyOnce
    <2>3. \A i, j \in DOMAIN Results' : Results'[i][1] = Results'[j][1] => i = j
        BY <1>25, <2>2 DEF IInv, EveryEventExactlyOnce, EventsOf
    <2>4. accepted' = accepted
        BY DEF PollCompleted
    <2> QED BY <1>13, <1>28, <1>29, <2>1, <2>2, <2>3, <2>4 DEF IInv, EveryEventExactlyOnce, EventsOf
<1> QED BY <1>12, <1>13, <1>15, <1>16, <1>17, <1>19, <1>20, <1>21, <1>22, <1>23, <1>26, <1>28,
           <1>30 DEF IInv

\* The swaps at the end of the poll.
LEMMA InvEndPoll ==
    ASSUME IInv, EndPoll
    PROVE  IInv'
<1>1. TypeOK /\ BuffersInPlace /\ WorkersInPlace /\ BuffersByQueue
    BY DEF IInv
<1>2. processingComputingWorkers = <<>> /\ processedEventBuffers = <<>>
    BY <1>1 DEF IInv, PairsStayAligned, AlignedVectors, EndPoll, TypeOK
<1>3. /\ eventBuffers' = eventBuffers /\ computingWorkers' = computingWorkers
      /\ Results' = Results /\ accepted' = accepted
    BY DEF EndPoll, objectVars, resultVars, Results
<1>4. TypeOK'
    BY <1>1, <1>3 DEF EndPoll, TypeOK, PcLabels, resultVars
<1>5. BuffersInPlace' /\ WorkersInPlace'
    BY <1>1, <1>2, EmptyFacts DEF EndPoll, BuffersInPlace, WorkersInPlace
<1>6. PairsStayAligned'
    BY <1>2, <1>3 DEF IInv, EndPoll, PairsStayAligned, AlignedVectors
<1>7. BuffersByQueue' /\ WaitingWorkersIdle'
    BY <1>2, <1>3, EmptyFacts DEF IInv, EndPoll, BuffersByQueue, WaitingWorkersIdle
<1>8. WorkersInFlight'
    BY <1>2, <1>3, EmptyFacts DEF IInv, EndPoll, WorkersInFlight, InFlight
<1>9. VectorAllocated'
    BY DEF IInv, EndPoll, VectorAllocated, resultVars
<1>10. SolutionsMatchTheirEvent' /\ EveryEventExactlyOnce'
    BY <1>3, ResultsUnchanged
<1> QED BY <1>4, <1>5, <1>6, <1>7, <1>8, <1>9, <1>10 DEF IInv

\* The move of the solutions out of the manager: as a whole, the results stay.
LEMMA InvHandOver ==
    ASSUME IInv, HandOver
    PROVE  IInv'
<1> USE DEF HandOver, objectVars, bufferQueues, workerQueues
<1>1. /\ delivered \in Seq(Pairs) /\ solutions \in Seq(Pairs)
      /\ delivered \o solutions \in Seq(Pairs) /\ <<>> \in Seq(Pairs)
    BY DEF IInv, TypeOK
<1>2. TypeOK'
    BY <1>1 DEF IInv, TypeOK, PcLabels
<1>3. BuffersInPlace' /\ WorkersInPlace' /\ PairsStayAligned'
    BY DEF IInv, BuffersInPlace, WorkersInPlace, PairsStayAligned, AlignedVectors
<1>4. BuffersByQueue' /\ WaitingWorkersIdle' /\ WorkersInFlight' /\ VectorAllocated'
    BY DEF IInv, BuffersByQueue, WaitingWorkersIdle, WorkersInFlight, InFlight, VectorAllocated
<1>5. Results' = Results
    BY <1>1, ConcatEmptySeq DEF Results
<1>6. SolutionsMatchTheirEvent' /\ EveryEventExactlyOnce'
    BY <1>5, ResultsUnchanged
<1> QED BY <1>2, <1>3, <1>4, <1>6 DEF IInv

\* A kernel completing, at any moment.
LEMMA InvDeviceComplete ==
    ASSUME IInv, NEW w \in Workers, DeviceComplete(w)
    PROVE  IInv'
<1> USE DEF DeviceComplete, bufferQueues, workerQueues, resultVars
<1>1. \A v \in Workers :
          /\ computingWorkers'[v].state = computingWorkers[v].state
          /\ computingWorkers'[v].buffer = computingWorkers[v].buffer
          /\ computingWorkers'[v].input = computingWorkers[v].input
          /\ computingWorkers'[v].busy => computingWorkers[v].busy
    BY DEF IInv, TypeOK, ComputingWorkerObjects
<1>2. TypeOK'
    BY ObjectTypes DEF IInv, TypeOK
<1>3. BuffersInPlace' /\ WorkersInPlace'
    BY DEF IInv, BuffersInPlace, WorkersInPlace
<1>4. /\ \A i \in DOMAIN processingComputingWorkers : processingComputingWorkers[i] \in Workers
      /\ \A i \in DOMAIN stillProcessing : stillProcessing[i] \in Workers
    BY DEF IInv, WorkersInPlace, Range
<1>5. PairsStayAligned'
    BY <1>1, <1>4 DEF IInv, PairsStayAligned, AlignedVectors
<1>6. BuffersByQueue' /\ WaitingWorkersIdle' /\ VectorAllocated'
    BY <1>1 DEF IInv, BuffersByQueue, WaitingWorkersIdle, WorkersInPlace, VectorAllocated
<1>7. WorkersInFlight'
    BY <1>1 DEF IInv, WorkersInFlight, InFlight, WorkersInPlace
<1>8. SolutionsMatchTheirEvent' /\ EveryEventExactlyOnce'
    BY ResultsUnchanged DEF Results
<1> QED BY <1>2, <1>3, <1>5, <1>6, <1>7, <1>8 DEF IInv

\* Every step preserves the invariant.
LEMMA InvNext == IInv /\ [Next]_vars => IInv'
<1> SUFFICES ASSUME IInv, [Next]_vars PROVE IInv'
    OBVIOUS
<1>1. ASSUME NEW e \in Events \ accepted, AddEvent(e) PROVE IInv'
    BY <1>1, InvAddEvent
<1>2. CASE Update \/ TransferSolutions \/ WaitUntillAllTasksCompleted
           \/ DrainCheck \/ DrainWait \/ DrainUpdate \/ BeginPoll
    <2>1. /\ UNCHANGED <<objectVars, bufferQueues, workerQueues, solutions, delivered, accepted>>
          /\ pc' \in PcLabels /\ ret' \in {"idle", "handOver", "drain", "drainInner"}
          /\ haveVector' \in BOOLEAN /\ VectorAllocated'
        BY <1>2 DEF IInv, TypeOK, PcLabels, VectorAllocated, CallUpdate, resultVars, Update,
            TransferSolutions, WaitUntillAllTasksCompleted, DrainCheck, DrainWait, DrainUpdate,
            BeginPoll
    <2> QED BY <2>1, InvControl
<1>3. CASE HandOver
    BY <1>3, InvHandOver
<1>4. CASE StartProcessing
    BY <1>4, InvStartProcessing
<1>5. CASE PollProcessing
    BY <1>5, InvPollProcessing
<1>6. CASE PollCompleted
    BY <1>6, InvPollCompleted
<1>7. CASE EndPoll
    BY <1>7, InvEndPoll
<1>8. ASSUME NEW w \in Workers, DeviceComplete(w) PROVE IInv'
    BY <1>8, InvDeviceComplete
<1>9. CASE UNCHANGED vars
    BY <1>9, InvControl DEF vars, IInv, TypeOK, VectorAllocated, resultVars
<1> QED BY <1>1, <1>2, <1>3, <1>4, <1>5, <1>6, <1>7, <1>8, <1>9 DEF Next, InsideMethod

-----------------------------------------------------------------------------
(* The properties of the component.                                        *)

\* The inductive invariant holds in every reachable state.
THEOREM Invariance == Spec => []IInv
    BY InvInit, InvNext, PTL DEF Spec

\* Type correctness: in particular every index the code uses is within the vectors
\* of buffers and workers.
THEOREM TypeCorrect == Spec => []TypeOK
<1>1. IInv => TypeOK
    BY DEF IInv
<1> QED BY <1>1, Invariance, PTL

\* No buffer index is lost or duplicated by the moves between the queues.
THEOREM BuffersNeverLost == Spec => []OnePlacePerBuffer
<1>1. IInv => OnePlacePerBuffer
    BY PlacesUnfolded DEF IInv
<1> QED BY <1>1, Invariance, PTL

\* No worker index is lost or duplicated.
THEOREM WorkersNeverLost == Spec => []OnePlacePerWorker
<1>1. IInv => OnePlacePerWorker
    BY PlacesUnfolded DEF IInv
<1> QED BY <1>1, Invariance, PTL

\* The parallel vectors of the poll stay aligned.
THEOREM VectorsStayParallel == Spec => []PairsStayAligned
<1>1. IInv => PairsStayAligned
    BY DEF IInv
<1> QED BY <1>1, Invariance, PTL

\* Every index of a buffer and of a worker is in its place.
THEOREM BookkeepingIsRight == Spec => []NothingMislaid
<1>1. OnePlacePerBuffer /\ OnePlacePerWorker /\ PairsStayAligned => NothingMislaid
    BY DEF NothingMislaid
<1> QED BY <1>1, BuffersNeverLost, WorkersNeverLost, VectorsStayParallel, PTL

\* The result of assignBuffer, which the manager ignores, is always true.
THEOREM AssignmentsSucceed == Spec => []AssignNeverRefused
<1>1. IInv => AssignNeverRefused
    <2> SUFFICES ASSUME IInv, waitingComputingWorkers # <<>>, readyEventBuffers # <<>>
                 PROVE  AcceptsBuffer(computingWorkers[Head(waitingComputingWorkers)],
                                      eventBuffers[Head(readyEventBuffers)])
        BY DEF AssignNeverRefused
    <2>1. /\ Head(waitingComputingWorkers) \in Range(waitingComputingWorkers)
          /\ Head(readyEventBuffers) \in Range(readyEventBuffers)
        BY PopFacts DEF IInv, TypeOK
    <2> QED BY <2>1 DEF IInv, WaitingWorkersIdle, BuffersByQueue, AcceptsBuffer
<1> QED BY <1>1, Invariance, PTL

\* No null pointer is dereferenced in the poll or at the hand-over.
THEOREM PointersAreSet == Spec => []NoNullDereference
<1>1. IInv => NoNullDereference
    <2> SUFFICES ASSUME IInv, NEW w \in Range(processingComputingWorkers)
                 PROVE  computingWorkers[w].buffer # NoBuffer
        BY DEF IInv, VectorAllocated, NoNullDereference
    <2>1. computingWorkers[w].buffer \in Buffers
        BY BufferOfInFlight DEF IInv, BuffersInPlace
    <2> QED BY <2>1, NumBuffersAssumption DEF Buffers, NoBuffer
<1> QED BY <1>1, Invariance, PTL

\* What the manager does without looking, it may do.
THEOREM UncheckedCallsAreSafe == Spec => []CallsAreSafe
<1>1. AssignNeverRefused /\ NoNullDereference => CallsAreSafe
    BY DEF CallsAreSafe
<1> QED BY <1>1, AssignmentsSucceed, PointersAreSet, PTL

\* Every pair handed over is an event with the solutions of that event.
THEOREM SolutionsAreTheirEvents == Spec => []SolutionsMatchTheirEvent
<1>1. IInv => SolutionsMatchTheirEvent
    BY DEF IInv
<1> QED BY <1>1, Invariance, PTL

\* Every accepted event is in exactly one buffer or one result, exactly once.
THEOREM NoEventLostOrDoubled == Spec => []EveryEventExactlyOnce
<1>1. IInv => EveryEventExactlyOnce
    BY DEF IInv
<1> QED BY <1>1, Invariance, PTL

\* A worker with a kernel running or solutions to collect is in flight.
LEMMA InUseIsInFlight ==
    ASSUME IInv, NEW w \in Workers, InUse(w)
    PROVE  w \in Range(processingComputingWorkers) \cup Range(stillProcessing)
    BY DEF IInv, InUse, WaitingWorkersIdle, WorkersInPlace

\* No step changes the buffer of a worker in use, or the event in it.
LEMMA KeepsInputsStep == IInv /\ [Next]_vars => [KeepsInputs]_vars
<1> SUFFICES ASSUME IInv, Next, NEW w \in Workers, InUse(w)
             PROVE  LET b == computingWorkers[w].buffer
                    IN  /\ computingWorkers'[w].buffer = b
                        /\ eventBuffers'[b].event = eventBuffers[b].event
    BY DEF KeepsInputs
<1> DEFINE b == computingWorkers[w].buffer
<1>1. w \in Range(processingComputingWorkers) \cup Range(stillProcessing)
    BY InUseIsInFlight
<1>2. b \in Buffers /\ b \in Range(processedEventBuffers) \cup Range(stillProcessed)
    BY <1>1, BufferOfInFlight DEF IInv, BuffersInPlace
<1>3. TypeOK
    BY DEF IInv
<1>4. ASSUME NEW e \in Events \ accepted, AddEvent(e)
      PROVE  computingWorkers'[w].buffer = b /\ eventBuffers'[b].event = eventBuffers[b].event
    <2>1. Head(freeEventBuffers) \in Range(freeEventBuffers)
        BY <1>3, <1>4, PopFacts DEF TypeOK, AddEvent
    <2>2. b # Head(freeEventBuffers)
        BY <1>2, <2>1 DEF IInv, BuffersInPlace
    <2> QED BY <1>3, <1>4, <2>2 DEF TypeOK, AddEvent
<1>5. CASE StartProcessing
    <2>1. Head(waitingComputingWorkers) \in Range(waitingComputingWorkers)
        BY <1>3, <1>5, PopFacts DEF TypeOK, StartProcessing
    <2>2. w # Head(waitingComputingWorkers)
        BY <1>1, <2>1 DEF IInv, WorkersInPlace
    <2>3. \A buffer \in EventBufferObjects, worker \in ComputingWorkerObjects :
              BufferAfterAssign(worker, buffer).event = buffer.event
        BY DEF EventBufferObjects, BufferAfterAssign, SetBufferState
    <2>4. /\ Head(waitingComputingWorkers) \in Workers
          /\ Head(readyEventBuffers) \in Buffers
        BY <1>3, <1>5, PopFacts DEF TypeOK, StartProcessing
    <2>5. computingWorkers'[w] = computingWorkers[w]
        BY <1>3, <1>5, <2>2 DEF TypeOK, StartProcessing
    <2>6. eventBuffers'[b].event = eventBuffers[b].event
        BY <1>2, <1>3, <1>5, <2>3, <2>4 DEF TypeOK, StartProcessing
    <2> QED BY <2>5, <2>6
<1>6. CASE PollProcessing
    <2>1. \A worker \in ComputingWorkerObjects : UpdateState(worker).buffer = worker.buffer
        BY DEF ComputingWorkerObjects, UpdateState
    <2> QED BY <1>3, <1>6, <2>1 DEF TypeOK, PollProcessing
<1>7. CASE PollCompleted
    <2>1. \A worker \in ComputingWorkerObjects :
              SetWorkerState(WorkerAfterTransfer(UpdateState(worker)), "WAITING").buffer
                  = worker.buffer
        BY DEF ComputingWorkerObjects, UpdateState, WorkerAfterTransfer, SetWorkerState
    <2>2. \A buffer \in EventBufferObjects : SetBufferState(buffer, "FREE").event = buffer.event
        BY DEF EventBufferObjects, SetBufferState
    <2>3. computingWorkers'[w].buffer = b
        BY <1>3, <1>7, <2>1 DEF TypeOK, PollCompleted
    <2>4. eventBuffers'[b].event = eventBuffers[b].event
        BY <1>2, <1>3, <1>7, <2>2 DEF TypeOK, PollCompleted
    <2> QED BY <2>3, <2>4
<1>8. ASSUME NEW v \in Workers, DeviceComplete(v)
      PROVE  computingWorkers'[w].buffer = b /\ eventBuffers'[b].event = eventBuffers[b].event
    BY <1>3, <1>8 DEF TypeOK, DeviceComplete, ComputingWorkerObjects
<1>9. CASE Update \/ TransferSolutions \/ WaitUntillAllTasksCompleted \/ HandOver
           \/ DrainCheck \/ DrainWait \/ DrainUpdate \/ BeginPoll \/ EndPoll
    BY <1>9 DEF Update, TransferSolutions, WaitUntillAllTasksCompleted, HandOver, DrainCheck,
        DrainWait, DrainUpdate, BeginPoll, EndPoll, objectVars
<1> QED BY <1>4, <1>5, <1>6, <1>7, <1>8, <1>9 DEF Next, InsideMethod

\* The buffer of a kernel that may still run is never given another event.
THEOREM InputsStay == Spec => InputNotOverwritten
    BY Invariance, KeepsInputsStep, PTL DEF Spec, InputNotOverwritten

-----------------------------------------------------------------------------
(* The refinement of EventPipeline.                                        *)

\* While there is a free buffer, fewer events are held than there are buffers.
LEMMA RoomForEvent ==
    ASSUME IInv, freeEventBuffers # <<>>
    PROVE  Cardinality(HeldEvents) < NumBuffers
<1> DEFINE b == Head(freeEventBuffers)
<1>1. b \in Buffers /\ b \notin OccupiedBuffers
    BY PopFacts DEF IInv, TypeOK, BuffersByQueue, OccupiedBuffers
<1>2. IsFiniteSet(Buffers) /\ Cardinality(Buffers) = NumBuffers
    BY FS_Interval, NumBuffersAssumption DEF Buffers
<1>3. IsFiniteSet(Buffers \ {b}) /\ Cardinality(Buffers \ {b}) = NumBuffers - 1
    BY <1>1, <1>2, FS_RemoveElement
<1>4. OccupiedBuffers \subseteq Buffers \ {b}
    BY <1>1 DEF OccupiedBuffers
<1>5. IsFiniteSet(OccupiedBuffers) /\ Cardinality(OccupiedBuffers) <= NumBuffers - 1
    BY <1>3, <1>4, FS_Subset
<1> DEFINE f == [c \in OccupiedBuffers |-> eventBuffers[c].event]
<1>6. f \in Surjection(OccupiedBuffers, HeldEvents)
    BY DEF Surjection, HeldEvents
<1>7. IsFiniteSet(HeldEvents) /\ Cardinality(HeldEvents) <= Cardinality(OccupiedBuffers)
    BY <1>5, <1>6, FS_Surjection
<1>8. Cardinality(HeldEvents) \in Nat /\ Cardinality(OccupiedBuffers) \in Nat
    BY <1>5, <1>7, FS_CardinalityType
<1> QED BY <1>5, <1>7, <1>8, NumBuffersAssumption

\* The events of a list of results with one more.
LEMMA EventsOfAppend ==
    ASSUME NEW s \in Seq(Pairs), NEW e \in Events \cup {NoEvent}
    PROVE  EventsOf(Append(s, <<e, e>>)) = EventsOf(s) \cup {e}
<1>1. <<e, e>> \in Pairs
    BY DEF Pairs
<1>2. /\ DOMAIN Append(s, <<e, e>>) = 1 .. Len(s) + 1 /\ DOMAIN s = 1 .. Len(s) /\ Len(s) \in Nat
      /\ \A i \in 1 .. Len(s) : Append(s, <<e, e>>)[i] = s[i]
      /\ Append(s, <<e, e>>)[Len(s) + 1] = <<e, e>>
    BY <1>1
<1> QED BY <1>2 DEF EventsOf

\* The events of two lists of results in a row.
LEMMA EventsOfConcat ==
    ASSUME NEW s \in Seq(Pairs), NEW t \in Seq(Pairs)
    PROVE  EventsOf(s \o t) = EventsOf(s) \cup EventsOf(t)
<1>1. /\ DOMAIN (s \o t) = 1 .. Len(s) + Len(t)
      /\ DOMAIN s = 1 .. Len(s) /\ DOMAIN t = 1 .. Len(t) /\ Len(s) \in Nat /\ Len(t) \in Nat
      /\ \A i \in 1 .. Len(s) : (s \o t)[i] = s[i]
      /\ \A i \in 1 .. Len(t) : (s \o t)[Len(s) + i] = t[i]
    OBVIOUS
<1>2. EventsOf(s) \cup EventsOf(t) \subseteq EventsOf(s \o t)
    <2>1. ASSUME NEW i \in 1 .. Len(t) PROVE t[i][1] \in EventsOf(s \o t)
        <3>1. Len(s) + i \in DOMAIN (s \o t) /\ (s \o t)[Len(s) + i] = t[i]
            BY <1>1
        <3> QED BY <3>1 DEF EventsOf
    <2>2. ASSUME NEW i \in 1 .. Len(s) PROVE s[i][1] \in EventsOf(s \o t)
        BY <1>1 DEF EventsOf
    <2> QED BY <1>1, <2>1, <2>2 DEF EventsOf
<1>3. EventsOf(s \o t) \subseteq EventsOf(s) \cup EventsOf(t)
    <2> SUFFICES ASSUME NEW i \in 1 .. Len(s) + Len(t)
                 PROVE  (s \o t)[i][1] \in EventsOf(s) \cup EventsOf(t)
        BY <1>1 DEF EventsOf
    <2>1. CASE i \in 1 .. Len(s)
        BY <1>1, <2>1 DEF EventsOf
    <2>2. CASE i \notin 1 .. Len(s)
        <3>1. i - Len(s) \in 1 .. Len(t) /\ (s \o t)[i] = t[i - Len(s)]
            BY <1>1, <2>2
        <3> QED BY <1>1, <3>1 DEF EventsOf
    <2> QED BY <2>1, <2>2
<1> QED BY <1>2, <1>3

\* Every step is a step of the pipeline or invisible in it: addEvent accepts, a
\* poll turn finishes, the hand-over delivers.
LEMMA PipelineStep ==
    IInv /\ [Next]_vars
        => [Pipeline!Next]_<<HeldEvents, EventsOf(solutions), EventsOf(delivered)>>
<1> DEFINE mapped == <<HeldEvents, EventsOf(solutions), EventsOf(delivered)>>
<1> SUFFICES ASSUME IInv, [Next]_vars PROVE [Pipeline!Next]_mapped
    OBVIOUS
<1>1. solutions \in Seq(Pairs) /\ delivered \in Seq(Pairs)
    BY DEF IInv, TypeOK
<1>2. EventsOf(Results) = EventsOf(delivered) \cup EventsOf(solutions)
    BY <1>1, EventsOfConcat DEF Results
<1>3. ASSUME UNCHANGED <<eventBuffers, solutions, delivered>> PROVE UNCHANGED mapped
    BY <1>3 DEF HeldEvents, OccupiedBuffers, EventsOf
<1>4. ASSUME NEW e \in Events \ accepted, AddEvent(e) PROVE Pipeline!Accept(e)
    <2>1. e \notin HeldEvents \cup EventsOf(solutions) \cup EventsOf(delivered)
        BY <1>2 DEF IInv, EveryEventExactlyOnce
    <2>2. Cardinality(HeldEvents) < NumBuffers
        BY <1>4, RoomForEvent DEF AddEvent
    <2>3. HeldEvents' = HeldEvents \cup {e}
        BY <1>4, InvAddEvent
    <2>4. EventsOf(solutions)' = EventsOf(solutions) /\ EventsOf(delivered)' = EventsOf(delivered)
        BY <1>4 DEF AddEvent, resultVars, EventsOf
    <2>5. Pipeline!Cardinality(HeldEvents) < NumBuffers
        BY <2>2 DEF Cardinality, Pipeline!Cardinality
    <2> QED BY <2>1, <2>3, <2>4, <2>5 DEF Pipeline!Accept
<1>5. CASE StartProcessing
    <2>1. HeldEvents' = HeldEvents
        BY <1>5, InvStartProcessing
    <2>2. EventsOf(solutions)' = EventsOf(solutions) /\ EventsOf(delivered)' = EventsOf(delivered)
        BY <1>5 DEF StartProcessing, resultVars, EventsOf
    <2> QED BY <2>1, <2>2
<1>6. ASSUME PollCompleted PROVE \E e \in Events : Pipeline!Finish(e)
    <2>1. PICK e \in HeldEvents :
              HeldEvents' = HeldEvents \ {e} /\ solutions' = Append(solutions, <<e, e>>)
        BY <1>6, InvPollCompleted
    <2>2. e \in Events
        BY DEF IInv, TypeOK, EveryEventExactlyOnce
    <2>3. EventsOf(solutions)' = EventsOf(solutions) \cup {e}
        BY <1>1, <2>1, <2>2, EventsOfAppend
    <2>4. EventsOf(delivered)' = EventsOf(delivered)
        BY <1>6 DEF PollCompleted, EventsOf
    <2> QED BY <2>1, <2>2, <2>3, <2>4 DEF Pipeline!Finish
<1>7. ASSUME HandOver PROVE Pipeline!Deliver
    <2>1. HeldEvents' = HeldEvents
        BY <1>7 DEF HandOver, objectVars, HeldEvents, OccupiedBuffers
    <2>2. EventsOf(solutions)' = {}
        BY <1>7 DEF HandOver, EventsOf
    <2>3. EventsOf(delivered)' = EventsOf(delivered) \cup EventsOf(solutions)
        BY <1>1, <1>7, EventsOfConcat DEF HandOver
    <2> QED BY <2>1, <2>2, <2>3 DEF Pipeline!Deliver
<1>8. CASE Update \/ TransferSolutions \/ WaitUntillAllTasksCompleted \/ DrainCheck
           \/ DrainWait \/ DrainUpdate \/ BeginPoll \/ PollProcessing \/ EndPoll \/ UNCHANGED vars
    <2>1. UNCHANGED <<eventBuffers, solutions, delivered>>
        BY <1>8 DEF Update, TransferSolutions, WaitUntillAllTasksCompleted, DrainCheck,
            DrainWait, DrainUpdate, BeginPoll, PollProcessing, EndPoll, vars, objectVars, resultVars
    <2> QED BY <1>3, <2>1
<1>9. ASSUME NEW w \in Workers, DeviceComplete(w) PROVE UNCHANGED mapped
    BY <1>3, <1>9 DEF DeviceComplete, resultVars
<1> QED BY <1>4, <1>5, <1>6, <1>7, <1>8, <1>9 DEF Next, InsideMethod, Pipeline!Next

\* The manager implements the pipeline it promises to its caller.
THEOREM Refinement == Spec => ImplementsPipeline
<1>1. Init => Pipeline!Init
    BY DEF Init, Pipeline!Init, HeldEvents, OccupiedBuffers, EventsOf, NewEventBuffer
<1> QED BY <1>1, PipelineStep, Invariance, PTL DEF Spec, ImplementsPipeline, Pipeline!Spec
=============================================================================
