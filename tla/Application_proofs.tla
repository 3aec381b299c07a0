-------------------------- MODULE Application_proofs --------------------------
(***************************************************************************)
(* What holds of the program as a whole, for every list of events and any  *)
(* configured number of buffers and workers.  The main thread uses the     *)
(* manager by its interface, so IInv holds of the manager it drives;       *)
(* AppIInv adds where in runOnCpu or runOnGpu the manager may be in which  *)
(* of its methods, and that it stays empty once it has been drained.       *)
(***************************************************************************)
EXTENDS Application, ComputingManager_proofs

\* The events accepted are those the loop has passed.
AddedSoFar == accepted = {EventList[i] : i \in 1 .. next - 1}

\* Where the main thread is in the manager, by where it is in run.
ControlFlow ==
    /\ phase \in {"adding", "waiting", "retry"} => ret = "idle" /\ pc \in {"idle", "start", "poll"}
    /\ phase \in {"waiting", "retry"} => pc = "idle"
    /\ phase = "draining" =>
           \/ pc \in {"idle", "drain", "drainInner"}
           \/ pc \in {"start", "poll"} /\ ret \in {"drain", "drainInner"}
    /\ phase = "collecting" =>
           \/ pc \in {"idle", "handOver"}
           \/ pc \in {"start", "poll"} /\ ret = "handOver"
    /\ phase = "done" => pc = "idle"

\* The loop is left only after its last event.
AllEventsAdded == phase \in {"draining", "collecting", "done"} => next = Len(EventList) + 1

\* The local vectors of the poll are empty outside it.
NothingBetweenPolls == pc # "poll" => stillProcessing = <<>> /\ stillProcessed = <<>>

\* No buffer is ready or processed and no worker processing.
ManagerEmpty == NothingInManager /\ stillProcessing = <<>> /\ stillProcessed = <<>>

\* waitUntillAllTasksCompleted has returned with the manager empty, and the
\* update of transferSolutions does not fill it again.
Drained ==
    /\ phase = "draining" /\ pc = "idle" => ManagerEmpty
    /\ phase \in {"collecting", "done"} => ManagerEmpty

\* After transferSolutions the manager keeps no solutions.
HandedOver ==
    /\ phase = "collecting" /\ pc = "idle" => solutions = <<>>
    /\ phase = "done" => solutions = <<>>

\* The file has the events of the pairs handed over, in order.
SavedIsDelivered == phase = "done" => saved = [i \in DOMAIN delivered |-> delivered[i][1]]

\* The inductive invariant of the application.
AppIInv ==
    /\ IInv
    /\ AppTypeOK
    /\ AddedSoFar
    /\ AllEventsAdded
    /\ ControlFlow
    /\ NothingBetweenPolls
    /\ Drained
    /\ HandedOver
    /\ SavedIsDelivered

\* The event the loop is at has not been accepted before.
LEMMA NextEventIsNew ==
    ASSUME AppTypeOK, AddedSoFar, next <= Len(EventList)
    PROVE  EventList[next] \in Events \ accepted
<1>1. /\ next \in 1 .. Len(EventList) /\ DOMAIN EventList = 1 .. Len(EventList)
      /\ EventList[next] \in Events
    BY EventListAssumption DEF AppTypeOK
<1>2. \A i \in 1 .. next - 1 : EventList[i] # EventList[next]
    BY <1>1, EventListAssumption DEF IsInjective
<1> QED BY <1>1, <1>2 DEF AddedSoFar

\* Every step of the program is a step of the manager's interface or leaves the
\* manager alone.
LEMMA ManagerStep ==
    ASSUME AppIInv, [AppNext]_allVars
    PROVE  [Next]_vars
<1>1. CASE AddNext
    BY <1>1, NextEventIsNew DEF AppIInv, AddNext, Next
<1>2. CASE RetryUpdate \/ WaitForAll \/ TakeSolutions
    BY <1>2 DEF RetryUpdate, WaitForAll, TakeSolutions, Next
<1>3. CASE AddRefused \/ WaitForWaitingWorker \/ SaveSolutions \/ Terminated \/ UNCHANGED allVars
    BY <1>3 DEF AddRefused, WaitForWaitingWorker, SaveSolutions, Terminated, allVars
<1>4. CASE ManagerRuns \/ DeviceRuns
    BY <1>4 DEF ManagerRuns, DeviceRuns, Next
<1> QED BY <1>1, <1>2, <1>3, <1>4 DEF AppNext, MainThread

\* The program starts in the invariant.
LEMMA AppInvInit == AppInit => AppIInv
<1> SUFFICES ASSUME AppInit PROVE AppIInv
    OBVIOUS
<1>1. IInv
    BY InvInit DEF AppInit
<1>2. AppTypeOK
    BY <1>1, EventListAssumption DEF IInv, AppInit, AppTypeOK
<1> QED BY <1>1, <1>2 DEF AppIInv, AppInit, Init, AddedSoFar, AllEventsAdded, ControlFlow,
           NothingBetweenPolls, Drained, HandedOver, SavedIsDelivered

\* The steps of runOnCpu and runOnGpu themselves.
LEMMA AppInvCaller ==
    ASSUME AppIInv, AddNext \/ AddRefused \/ WaitForWaitingWorker \/ RetryUpdate
                        \/ WaitForAll \/ TakeSolutions \/ SaveSolutions,
           TypeOK'
    PROVE  /\ AppTypeOK' /\ AddedSoFar' /\ AllEventsAdded' /\ ControlFlow'
           /\ NothingBetweenPolls' /\ Drained' /\ HandedOver' /\ SavedIsDelivered'
<1> USE DEF AppIInv, AppTypeOK, AddedSoFar, AllEventsAdded, ControlFlow, NothingBetweenPolls,
        Drained, ManagerEmpty, NothingInManager, HandedOver, SavedIsDelivered, CallUpdate,
        objectVars, bufferQueues, workerQueues, resultVars, vars, allVars, appVars
<1>1. Len(EventList) \in Nat
    BY EventListAssumption
<1>2. CASE AddNext
    <2>1. accepted' = accepted \cup {EventList[next]} /\ next' = next + 1 /\ next <= Len(EventList)
        BY <1>2 DEF AddNext, AddEvent
    <2>2. AddedSoFar'
        <3>1. 1 .. next' - 1 = (1 .. next - 1) \cup {next}
            BY <2>1
        <3>2. {EventList[i] : i \in 1 .. next' - 1} = accepted \cup {EventList[next]}
            BY ONLY <3>1, AddedSoFar DEF AddedSoFar
        <3> QED BY ONLY <2>1, <3>2 DEF AddedSoFar
    <2> QED BY <1>1, <1>2, <2>1, <2>2 DEF AddNext, AddEvent
<1>3. CASE AddRefused \/ WaitForWaitingWorker
    BY <1>3 DEF AddRefused, WaitForWaitingWorker
<1>4. CASE RetryUpdate
    BY <1>4 DEF RetryUpdate, Update
<1>5. CASE WaitForAll
    BY <1>1, <1>5 DEF WaitForAll, WaitUntillAllTasksCompleted
<1>6. CASE TakeSolutions
    BY <1>6 DEF TakeSolutions, TransferSolutions
<1>7. CASE SaveSolutions
    <2>1. /\ delivered \in Seq(Pairs)
          /\ DOMAIN delivered = 1 .. Len(delivered) /\ Len(delivered) \in Nat
        BY DEF TypeOK
    <2>2. saved' \in Seq(Events \cup {NoEvent})
        BY <1>7, <2>1 DEF SaveSolutions, Pairs
    <2> QED BY <1>7, <2>2 DEF SaveSolutions
<1> QED BY <1>2, <1>3, <1>4, <1>5, <1>6, <1>7

\* The steps inside the manager's methods.
LEMMA AppInvManager ==
    ASSUME AppIInv, ManagerRuns, TypeOK'
    PROVE  /\ AppTypeOK' /\ AddedSoFar' /\ AllEventsAdded' /\ ControlFlow'
           /\ NothingBetweenPolls' /\ Drained' /\ HandedOver' /\ SavedIsDelivered'
<1> USE DEF AppIInv, AppTypeOK, AddedSoFar, AllEventsAdded, ControlFlow, NothingBetweenPolls,
        Drained, ManagerEmpty, NothingInManager, HandedOver, SavedIsDelivered, CallUpdate,
        objectVars, bufferQueues, workerQueues, resultVars, appVars, ManagerRuns
<1>1. CASE HandOver
    BY <1>1 DEF HandOver
<1>2. CASE DrainCheck
    BY <1>2 DEF DrainCheck
<1>3. CASE DrainWait \/ DrainUpdate
    BY <1>3 DEF DrainWait, DrainUpdate
<1>4. CASE StartProcessing
    BY <1>4 DEF StartProcessing
<1>5. CASE BeginPoll
    BY <1>5 DEF BeginPoll
<1>6. CASE PollProcessing
    BY <1>6 DEF PollProcessing
<1>7. CASE PollCompleted
    BY <1>7 DEF PollCompleted
<1>8. CASE EndPoll
    BY <1>8 DEF EndPoll
<1> QED BY <1>1, <1>2, <1>3, <1>4, <1>5, <1>6, <1>7, <1>8 DEF InsideMethod

\* Every step of the program preserves the invariant.
LEMMA AppInvNext == AppIInv /\ [AppNext]_allVars => AppIInv'
<1> SUFFICES ASSUME AppIInv, [AppNext]_allVars PROVE AppIInv'
    OBVIOUS
<1>1. IInv' /\ TypeOK'
    BY ManagerStep, InvNext DEF AppIInv, IInv
<1>2. CASE AddNext \/ AddRefused \/ WaitForWaitingWorker \/ RetryUpdate
           \/ WaitForAll \/ TakeSolutions \/ SaveSolutions
    BY <1>1, <1>2, AppInvCaller DEF AppIInv
<1>3. CASE ManagerRuns
    BY <1>1, <1>3, AppInvManager DEF AppIInv
<1>4. CASE DeviceRuns \/ Terminated \/ UNCHANGED allVars
    BY <1>1, <1>4 DEF AppIInv, DeviceRuns, DeviceComplete, Terminated, AppTypeOK, AddedSoFar,
        AllEventsAdded, ControlFlow, NothingBetweenPolls, Drained, ManagerEmpty,
        NothingInManager, HandedOver, SavedIsDelivered, objectVars, bufferQueues, workerQueues,
        resultVars, appVars, vars, allVars
<1> QED BY <1>2, <1>3, <1>4 DEF AppNext, MainThread

\* The inductive invariant holds in every reachable state of the program.
THEOREM AppInvariance == AppSpec => []AppIInv
    BY AppInvInit, AppInvNext, PTL DEF AppSpec

\* The application uses the manager as its interface allows, so every theorem about
\* the manager holds of the manager in the program.
THEOREM UsesInterface == AppSpec => UsesManagerByItsInterface
<1>1. AppInit => Init
    BY DEF AppInit
<1>2. AppIInv /\ [AppNext]_allVars => [Next]_vars
    BY ManagerStep
<1> QED BY <1>1, <1>2, AppInvariance, PTL DEF AppSpec, UsesManagerByItsInterface, Spec

\* An empty manager has every buffer free and every worker waiting.
LEMMA EmptyManagerHoldsNothing ==
    ASSUME IInv, ManagerEmpty
    PROVE  /\ OccupiedBuffers = {}
           /\ \A w \in Workers : computingWorkers[w].state = "WAITING"
<1>1. /\ Range(readyEventBuffers) = {} /\ Range(processedEventBuffers) = {}
      /\ Range(stillProcessed) = {}
      /\ Range(processingComputingWorkers) = {} /\ Range(stillProcessing) = {}
    BY EmptyFacts DEF ManagerEmpty, NothingInManager
<1> QED BY <1>1 DEF IInv, BuffersInPlace, WorkersInPlace, BuffersByQueue, WaitingWorkersIdle,
           OccupiedBuffers, DealtIntoThree, DealtIntoFour

\* When the solutions are taken, nothing is left in a buffer or a worker.
THEOREM DrainedBeforeCollection == AppSpec => []DrainedBeforeCollecting
<1>1. AppIInv => DrainedBeforeCollecting
    BY EmptyManagerHoldsNothing
    DEF AppIInv, Drained, DrainedBeforeCollecting, OccupiedBuffers
<1> QED BY <1>1, AppInvariance, PTL

\* When the program is done, every loaded event is in the file exactly once.
THEOREM EveryEventSavedOnce == AppSpec => []SavedExactlyOnce
<1>1. AppIInv => SavedExactlyOnce
    <2> SUFFICES ASSUME AppIInv, phase = "done"
                 PROVE  IsInjective(saved) /\ Range(saved) = Events
        BY DEF SavedExactlyOnce
    <2>1. HeldEvents = {}
        BY EmptyManagerHoldsNothing DEF AppIInv, Drained, HeldEvents
    <2>2. accepted = Events
        <3>1. next - 1 = Len(EventList) /\ DOMAIN EventList = 1 .. Len(EventList)
            BY EventListAssumption DEF AppIInv, AllEventsAdded
        <3> QED BY <3>1, EventListAssumption DEF AppIInv, AddedSoFar, Range
    <2>3. Results = delivered
        BY ConcatEmptySeq DEF AppIInv, IInv, TypeOK, HandedOver, Results
    <2>4. EventsOf(delivered) = Events
        BY <2>1, <2>2, <2>3 DEF AppIInv, IInv, EveryEventExactlyOnce
    <2>5. saved = [i \in DOMAIN delivered |-> delivered[i][1]]
        BY DEF AppIInv, SavedIsDelivered
    <2>6. Range(saved) = Events
        BY <2>4, <2>5 DEF Range, EventsOf
    <2>7. IsInjective(saved)
        BY <2>3, <2>5 DEF AppIInv, IInv, EveryEventExactlyOnce, IsInjective
    <2> QED BY <2>6, <2>7
<1> QED BY <1>1, AppInvariance, PTL
=============================================================================
