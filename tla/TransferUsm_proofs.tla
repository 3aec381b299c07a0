-------------------------- MODULE TransferUsm_proofs --------------------------
(***************************************************************************)
(* What holds of the data the tasks move, for every number of tasks and    *)
(* every capacity.  The copies and kernels are steps of their own, which   *)
(* the device takes in any order while other tasks come and go; that a     *)
(* task's data arrives whole follows from what is still pending for it.    *)
(* The worker's own invariant and theorems (WorkerUsm_proofs) hold here,   *)
(* because every step is a step of the worker's specification.             *)
(***************************************************************************)
EXTENDS TransferUsm, WorkerUsm_proofs

-----------------------------------------------------------------------------
(* The inductive invariant.                                                *)

EventCopies == {"numPointsToDevice", "pointsToDevice"}
ResultCopies == {"numSolutionsToHost", "solutionsToHost"}
Kinds == EventCopies \cup {"kernel"} \cup ResultCopies

\* What uses an event group, and what uses a result group.
UsesEvent == EventCopies \cup {"kernel"}
UsesResult == ResultCopies \cup {"kernel"}

Sources == Tasks \cup {Nobody, Mixed}
Contents == [number : Sources, arrays : Sources]

DataObjects(class, groups) ==
    [class : {class}, allocated : {FALSE}, borrowed : BOOLEAN,
     queue : {Queue, NoQueue}, memory : groups \cup {NoMemory}]

\* A copy of one kind of data need not have a group of the other.
Operations ==
    {op \in [task : Tasks, kind : Kinds, eventGroup : EventGroups \cup {NoMemory},
             resultGroup : ResultGroups \cup {NoMemory}] :
        /\ op.kind \in UsesEvent => op.eventGroup \in EventGroups
        /\ op.kind \in UsesResult => op.resultGroup \in ResultGroups}

TransferTypeOK ==
    /\ events \in [Tasks -> DataObjects("EventUsm", EventGroups)]
    /\ results \in [Tasks -> DataObjects("ResultUsm", ResultGroups)]
    /\ hostResults \in [Tasks -> Contents]
    /\ deviceEvents \in [EventGroups -> Contents]
    /\ deviceResults \in [ResultGroups -> Contents]
    /\ operations \in SUBSET Operations
    /\ toSubmit \in [Tasks -> Seq(Kinds)]
    /\ awaited \in [Tasks -> SUBSET Operations]

\* An EventUsm or ResultUsm borrows the group its task holds, and nothing else.
Borrows(data, assigned, group) ==
    /\ data.borrowed <=> assigned
    /\ assigned => data.queue = Queue /\ data.memory = group

DataFollowTasks ==
    \A t \in Tasks :
        /\ Borrows(events[t], objects[t].eventAssigned, objects[t].eventGroup)
        /\ Borrows(results[t], objects[t].resultAssigned, objects[t].resultGroup)

\* The kinds of operation a thread submits in each state.
KindOf(kind, state) ==
    \/ kind \in EventCopies /\ state = "WaitingForEventTransfer"
    \/ kind = "kernel" /\ state = "WaitingForExecution"
    \/ kind \in ResultCopies /\ state = "WaitingForResultTransfer"

\* Only a thread that holds the queue has anything to submit.
SubmitsInState ==
    \A t \in Tasks :
        /\ threads[t] # "submit" => toSubmit[t] = <<>>
        /\ \A kind \in Range(toSubmit[t]) : KindOf(kind, objects[t].state)

\* What was submitted and not yet performed is waited for by its task's thread, was
\* submitted in the task's present state, and uses the groups the task holds.
OperationsAwaited ==
    \A op \in operations :
        /\ op \in awaited[op.task]
        /\ threads[op.task] \in {"submit", "wait"}
        /\ KindOf(op.kind, objects[op.task].state)
        /\ op.kind \in UsesEvent => op.eventGroup = objects[op.task].eventGroup
        /\ op.kind \in UsesResult => op.resultGroup = objects[op.task].resultGroup

\* The thread of t has begun to submit and has not yet set the next state.
AtWork(t) == threads[t] \in {"submit", "wait", "set"}

Pending(t, kind) ==
    \/ kind \in Range(toSubmit[t])
    \/ \E op \in operations : op.task = t /\ op.kind = kind

\* What a task's thread brings about is still pending or has been done, and is done
\* from then on until the group is returned.
EventsArrive ==
    \A t \in Tasks : objects[t].state = "WaitingForEventTransfer" /\ AtWork(t) =>
        LET contents == deviceEvents[objects[t].eventGroup]
        IN  /\ Pending(t, "numPointsToDevice") \/ contents.number = t
            /\ Pending(t, "pointsToDevice") \/ contents.arrays = t

SolutionsArrive ==
    \A t \in Tasks : objects[t].state = "WaitingForExecution" /\ AtWork(t) =>
        \/ Pending(t, "kernel")
        \/ deviceResults[objects[t].resultGroup] = [number |-> t, arrays |-> t]

\* As long as no copy throws.
DataArrives == OperationsAwaited /\ EventsArrive /\ SolutionsArrive /\ GroupsHoldOwnData

TransferInv ==
    /\ IInv
    /\ TransferTypeOK
    /\ DataFollowTasks
    /\ SubmitsInState
    /\ ~ SubmitMayThrow => DataArrives

-----------------------------------------------------------------------------
(* Every step is a step of the worker.                                     *)

\* The data is moved by the steps of WorkerUsm, or while its variables stand still.
LEMMA StepOfTheWorker == [TransferNext]_transferVars => [Next]_vars
<1>1. HostStep => Next
    BY DEF HostStep, Next
<1>2. ASSUME NEW t \in Tasks, ThreadStep(t) PROVE [Next]_vars
    <2>1. CASE ThreadBegins(t)
        BY <2>1 DEF ThreadBegins, Next, Thread
    <2>2. CASE ThreadSubmits(t) \/ ThreadSubmitThrows(t)
        BY <2>2 DEF ThreadSubmits, ThreadSubmitThrows
    <2>3. CASE ThreadSubmitted(t)
        BY <2>3 DEF ThreadSubmitted, Next, Thread
    <2>4. CASE ThreadWaited(t)
        BY <2>4 DEF ThreadWaited, Next, Thread
    <2>5. CASE ThreadEnds(t)
        BY <2>5 DEF ThreadEnds, Next, Thread
    <2> QED BY <1>2, <2>1, <2>2, <2>3, <2>4, <2>5 DEF ThreadStep
<1>3. DeviceStep => UNCHANGED vars
    BY DEF DeviceStep
<1>4. TransferTerminated => Next
    BY DEF TransferTerminated, Next
<1>5. UNCHANGED transferVars => UNCHANGED vars
    BY DEF transferVars
<1> QED BY <1>1, <1>2, <1>3, <1>4, <1>5 DEF TransferNext

\* Every behaviour with the data is one of the worker without it, whatever a copy
\* throws: all that WorkerUsm_proofs shows of the worker holds here too.
THEOREM UsesWorkerUnchanged == TransferSpec => Spec
<1>1. TransferInit => Init
    BY DEF TransferInit
<1> QED BY <1>1, StepOfTheWorker, PTL DEF TransferSpec, Spec

-----------------------------------------------------------------------------
(* What the host does to a task.                                           *)

\* The host starts a thread, or leaves the threads alone; it does not touch a task
\* that has one; and it never moves a task into or out of the states between which
\* the task's data is on the device.
GoesOn(t) ==
    /\ threads'[t] # threads[t] => threads[t] = "none" /\ threads'[t] = "checkout"
    /\ threads[t] # "none" => objects'[t] = objects[t]
    /\ objects[t].eventAssigned /\ objects'[t].eventAssigned =>
        objects'[t].eventGroup = objects[t].eventGroup
    /\ objects[t].resultAssigned /\ objects'[t].resultAssigned =>
        objects'[t].resultGroup = objects[t].resultGroup
    /\ objects'[t].state \in {"WaitingForExecution", "Executed"} =>
        objects[t].state = objects'[t].state
    /\ objects'[t].state \in {"WaitingForResultTransfer", "ResultTransferred"} =>
        objects[t].state \in {"Executed", "WaitingForResultTransfer", "ResultTransferred"}

\* A step that touches one task touches no other.
LEMMA OneTaskGoesOn ==
    ASSUME TypeOK, NEW t \in Tasks, NEW after \in TaskObjects,
           objects' = [objects EXCEPT ![t] = after],
           threads[t] = "none",
           threads' = threads \/ threads' = [threads EXCEPT ![t] = "checkout"],
           objects[t].eventAssigned /\ after.eventAssigned =>
               after.eventGroup = objects[t].eventGroup,
           objects[t].resultAssigned /\ after.resultAssigned =>
               after.resultGroup = objects[t].resultGroup,
           after.state \in {"WaitingForExecution", "Executed"} => objects[t].state = after.state,
           after.state \in {"WaitingForResultTransfer", "ResultTransferred"} =>
               objects[t].state \in {"Executed", "WaitingForResultTransfer", "ResultTransferred"}
    PROVE  \A u \in Tasks : GoesOn(u)
<1>1. objects'[t] = after /\ \A u \in Tasks \ {t} : objects'[u] = objects[u]
    BY OneTaskChanges
<1>2. /\ threads'[t] \in {threads[t], "checkout"}
      /\ \A u \in Tasks \ {t} : threads'[u] = threads[u]
    BY DEF TypeOK
<1>3. GoesOn(t)
    BY <1>1, <1>2 DEF GoesOn
<1>4. \A u \in Tasks \ {t} : GoesOn(u)
    BY <1>1, <1>2 DEF GoesOn
<1> QED BY <1>3, <1>4

\* Nor does one that touches none.
LEMMA NoTaskGoesOn ==
    ASSUME UNCHANGED taskVars
    PROVE  \A u \in Tasks : GoesOn(u)
    BY DEF taskVars, GoesOn

\* A task that the worker does not own has no thread.
LEMMA UnownedTask ==
    ASSUME IInv, NEW t \in Tasks, t \notin tasks
    PROVE  threads[t] = "none"
    BY DEF IInv, InOnePlace, SomePlace

\* A task that waits for resources keeps the ones it has.
LEMMA TakingGoesOn ==
    ASSUME IInv, NEW t \in Tasks, HandleWaitingForResources(t)
    PROVE  \A u \in Tasks : GoesOn(u)
<1> DEFINE after == objects'[t]
<1>1. threads[t] = "none" /\ threads' = threads
    BY HandledTask DEF HandleWaitingForResources, Handling
<1>2. /\ after \in TaskObjects
      /\ objects' = [objects EXCEPT ![t] = after]
      /\ objects[t].eventAssigned => after.eventGroup = objects[t].eventGroup
      /\ objects[t].resultAssigned => after.resultGroup = objects[t].resultGroup
      /\ after.state \in {"WaitingForEventTransfer", "WaitingForResources"}
    BY TakesWhatIsFree DEF TakesEvent, TakesResult
<1> HIDE DEF after
<1> QED BY <1>1, <1>2, OneTaskGoesOn DEF IInv

\* A handler that releases a group or assigns the queue keeps the other group.
LEMMA HandlersGoOn ==
    ASSUME IInv, NEW t \in Tasks, Handle(t)
    PROVE  \A u \in Tasks : GoesOn(u)
<1>1. CASE RefuseQueueFull(t) \/ HandleCompleted(t)
    BY <1>1, NoTaskGoesOn DEF RefuseQueueFull, HandleCompleted
<1>2. CASE QueueTask(t)
    <2>1. /\ objects[t] \in TaskObjects /\ threads[t] = "none"
          /\ objects' = [objects EXCEPT ![t] = AssignQueue(objects[t])] /\ threads' = threads
        BY <1>2, HandledTask DEF QueueTask, Handling, BecomesNotifying
    <2>2. "WaitingForResources" \in TaskStates
        BY DEF TaskStates
    <2> DEFINE after == AssignQueue(objects[t])
    <2>3. /\ after \in TaskObjects /\ after.state = "WaitingForResources"
          /\ after.eventGroup = objects[t].eventGroup
          /\ after.resultGroup = objects[t].resultGroup
        BY <2>1, <2>2, SetStateFacts DEF AssignQueue
    <2> HIDE DEF after
    <2> QED BY <2>1, <2>3, OneTaskGoesOn DEF IInv, after
<1>3. CASE HandleWaitingForResources(t)
    BY <1>3, TakingGoesOn
<1>4. CASE StartThread(t)
    <2> DEFINE after == BeginStateChange(objects[t])
    <2>1. /\ objects[t] \in TaskObjects /\ threads[t] = "none"
          /\ objects' = [objects EXCEPT ![t] = after]
          /\ threads' = [threads EXCEPT ![t] = "checkout"]
        BY <1>4, HandledTask DEF StartThread
    <2>2. /\ after \in TaskObjects /\ after.state = objects[t].state
          /\ after.eventGroup = objects[t].eventGroup
          /\ after.resultGroup = objects[t].resultGroup
        BY <2>1, ChangingFacts
    <2> HIDE DEF after
    <2> QED BY <2>1, <2>2, OneTaskGoesOn DEF IInv
<1>5. CASE HandleExecuted(t)
    <2> DEFINE after == ReleaseEventResourceGroup(objects[t])
    <2>1. /\ objects[t] \in TaskObjects /\ threads[t] = "none" /\ objects[t].state = "Executed"
          /\ objects' = [objects EXCEPT ![t] = after] /\ threads' = threads
        BY <1>5, HandledTask DEF HandleExecuted, Handling, BecomesNotifying
    <2>2. /\ after \in TaskObjects /\ after.state = "WaitingForResultTransfer"
          /\ after.eventGroup = objects[t].eventGroup
          /\ after.resultGroup = objects[t].resultGroup
        BY <2>1, ReleaseFacts
    <2> HIDE DEF after
    <2> QED BY <2>1, <2>2, OneTaskGoesOn DEF IInv
<1>6. CASE HandleResultTransferred(t)
    <2> DEFINE after == ReleaseResultResourceGroup(objects[t])
    <2>1. /\ objects[t] \in TaskObjects /\ threads[t] = "none"
          /\ objects' = [objects EXCEPT ![t] = after] /\ threads' = threads
        BY <1>6, HandledTask DEF HandleResultTransferred, Handling, BecomesNotifying
    <2>2. /\ after \in TaskObjects /\ after.state = "Completed"
          /\ after.eventGroup = objects[t].eventGroup
          /\ after.resultGroup = objects[t].resultGroup
        BY <2>1, ReleaseFacts
    <2> HIDE DEF after
    <2> QED BY <2>1, <2>2, OneTaskGoesOn DEF IInv
<1> QED BY <1>1, <1>2, <1>3, <1>4, <1>5, <1>6 DEF Handle

\* Whatever the host does, it goes on with every task as GoesOn says.
LEMMA HostGoesOn ==
    ASSUME IInv, HostStep
    PROVE  \A u \in Tasks : GoesOn(u)
<1>1. ASSUME NEW t \in Tasks, GiveEventAndResult(t) PROVE \A u \in Tasks : GoesOn(u)
    <2> DEFINE after == TakeEventAndResult(objects[t])
    <2>1. /\ objects[t] \in TaskObjects /\ objects[t].state = "Created"
          /\ objects' = [objects EXCEPT ![t] = after] /\ threads' = threads
        BY <1>1 DEF GiveEventAndResult, IInv, TypeOK
    <2>2. threads[t] = "none"
        BY <2>1, UnownedTask DEF IInv, TasksOwned
    <2>3. "EventAndResultAssigned" \in TaskStates
        BY DEF TaskStates
    <2>4. /\ after \in TaskObjects /\ after.state = "EventAndResultAssigned"
          /\ after.eventGroup = objects[t].eventGroup
          /\ after.resultGroup = objects[t].resultGroup
        BY <2>1, <2>3, SetStateFacts DEF TakeEventAndResult
    <2> HIDE DEF after
    <2> QED BY <2>1, <2>2, <2>4, OneTaskGoesOn DEF IInv
<1>2. ASSUME NEW t \in Tasks, SubmitTask(t) PROVE \A u \in Tasks : GoesOn(u)
    <2> DEFINE after == OnAssignedToWorker(objects[t])
    <2>1. /\ objects[t] \in TaskObjects /\ t \notin tasks
          /\ objects' = [objects EXCEPT ![t] = after] /\ threads' = threads
        BY <1>2 DEF SubmitTask, BecomesNotifying, IInv, TypeOK
    <2>2. threads[t] = "none"
        BY <2>1, UnownedTask
    <2>3. "ReadyToQueue" \in TaskStates
        BY DEF TaskStates
    <2>4. /\ after \in TaskObjects /\ after.state = "ReadyToQueue"
          /\ after.eventGroup = objects[t].eventGroup
          /\ after.resultGroup = objects[t].resultGroup
        BY <2>1, <2>3, SetStateFacts DEF OnAssignedToWorker
    <2> HIDE DEF after
    <2> QED BY <2>1, <2>2, <2>4, OneTaskGoesOn DEF IInv
<1>3. CASE BeginSweep \/ PopTask \/ EndSweep
    BY <1>3, NoTaskGoesOn DEF BeginSweep, PopTask, EndSweep
<1>4. ASSUME NEW t \in Tasks, Handle(t) PROVE \A u \in Tasks : GoesOn(u)
    BY <1>4, HandlersGoOn
<1> QED BY <1>1, <1>2, <1>3, <1>4 DEF HostStep, ProcessTasks

-----------------------------------------------------------------------------
(* The invariant.                                                          *)

\* A task that holds a group holds one of the queue's, and no other task holds it.
LEMMA HeldGroups ==
    ASSUME IInv, NEW t \in Tasks
    PROVE  /\ objects[t].eventAssigned =>
               /\ objects[t].eventGroup \in EventGroups
               /\ \A u \in Tasks :
                      objects[u].eventAssigned /\ objects[u].eventGroup = objects[t].eventGroup
                          => u = t
           /\ objects[t].resultAssigned =>
               /\ objects[t].resultGroup \in ResultGroups
               /\ \A u \in Tasks :
                      objects[u].resultAssigned /\ objects[u].resultGroup = objects[t].resultGroup
                          => u = t
<1>1. GroupsNotShared
    BY ResourcesOfTasks DEF ResourcesAccountedFor
<1> QED BY <1>1 DEF GroupsNotShared, HoldersOfEvent, HoldersOfResult

\* The same of the state after a step.
LEMMA HeldGroupsAfter ==
    ASSUME IInv', NEW t \in Tasks
    PROVE  /\ objects'[t].eventAssigned => objects'[t].eventGroup \in EventGroups
           /\ objects'[t].resultAssigned => objects'[t].resultGroup \in ResultGroups
<1>1. GroupsNotShared'
    BY ResourcesOfTasks, PTL DEF ResourcesAccountedFor
<1> QED BY <1>1 DEF GroupsNotShared, HoldersOfEvent, HoldersOfResult

\* What a task holds in the states in which its thread runs, and after them.
LEMMA HeldInState ==
    ASSUME IInv, NEW t \in Tasks
    PROVE  /\ objects[t].state \in {"WaitingForEventTransfer", "WaitingForExecution", "Executed"}
                => objects[t].eventAssigned /\ objects[t].resultAssigned
           /\ objects[t].state \in {"WaitingForResultTransfer", "ResultTransferred"}
                => objects[t].resultAssigned
           /\ threads[t] \in {"checkout", "submit", "wait", "set"}
                => objects[t].state \in ThreadStates
    BY DEF IInv, TasksConsistent, Consistent

\* An EventUsm or ResultUsm follows its task: it borrows what the task takes and
\* gives back what the task releases.  It has allocated nothing, so every take
\* succeeds, and it has borrowed what it releases, so every release does.
LEMMA FollowFacts ==
    ASSUME NEW class \in {"EventUsm", "ResultUsm"}, NEW groups,
           NEW object \in DataObjects(class, groups),
           NEW before \in BOOLEAN, NEW after \in BOOLEAN, NEW held, NEW group,
           Borrows(object, before, held),
           after => group \in groups,
           before /\ after => group = held
    PROVE  /\ Follow(object, before, after, group) \in DataObjects(class, groups)
           /\ Borrows(Follow(object, before, after, group), after, group)
<1>1. /\ object.class = class /\ object.allocated = FALSE
      /\ object.borrowed \in BOOLEAN
      /\ object.memory \in groups \cup {NoMemory} /\ object.queue \in {Queue, NoQueue}
    BY DEF DataObjects
<1>2. CASE ~ before /\ after
    <2>1. Follow(object, before, after, group) = Data!TakeResourceGroup(object, group, Queue)
        BY <1>1, <1>2 DEF Follow, Data!MayTakeResourceGroup
    <2> DEFINE taken == Data!TakeResourceGroup(object, group, Queue)
    <2>2. /\ taken \in DataObjects(class, groups)
          /\ taken.borrowed = TRUE /\ taken.queue = Queue /\ taken.memory = group
        BY <1>1, <1>2 DEF DataObjects, Data!TakeResourceGroup
    <2> HIDE DEF taken
    <2>3. Borrows(taken, after, group)
        BY <1>2, <2>2 DEF Borrows
    <2> QED BY <2>1, <2>2, <2>3 DEF taken
<1>3. CASE before /\ ~ after
    <2>1. Follow(object, before, after, group) = Data!ReleaseResourceGroup(object)
        BY <1>1, <1>3 DEF Follow, Data!MayReleaseResourceGroup, Borrows
    <2> DEFINE released == Data!ReleaseResourceGroup(object)
    <2>2. /\ released \in DataObjects(class, groups)
          /\ released.borrowed = FALSE
        BY <1>1 DEF DataObjects, Data!ReleaseResourceGroup
    <2> HIDE DEF released
    <2>3. Borrows(released, after, group)
        BY <1>3, <2>2 DEF Borrows
    <2> QED BY <2>1, <2>2, <2>3 DEF released
<1>4. CASE before <=> after
    <2>1. Follow(object, before, after, group) = object
        BY <1>4 DEF Follow
    <2>2. Borrows(object, after, group)
        BY <1>4 DEF Borrows
    <2> QED BY <2>1, <2>2
<1> QED BY <1>2, <1>3, <1>4

\* The invariant, without the worker's own.
DataInv ==
    /\ TransferTypeOK
    /\ DataFollowTasks
    /\ SubmitsInState
    /\ ~ SubmitMayThrow => DataArrives

\* The host takes and releases groups; what the device does it cannot see.
LEMMA HostKeepsData ==
    ASSUME TransferInv, IInv', HostStep
    PROVE  DataInv'
<1> USE DEF TransferInv
<1>1. /\ FollowTask
      /\ UNCHANGED <<hostResults, deviceEvents, deviceResults, operations, toSubmit, awaited>>
    BY DEF HostStep, contentVars, submitVars
<1>2. \A t \in Tasks : GoesOn(t)
    BY HostGoesOn
<1>3. /\ objects \in [Tasks -> TaskObjects] /\ objects' \in [Tasks -> TaskObjects]
      /\ threads \in [Tasks -> ThreadPlaces] /\ threads' \in [Tasks -> ThreadPlaces]
    BY DEF IInv, TypeOK
<1>4. ASSUME NEW t \in Tasks
      PROVE  /\ events'[t] \in DataObjects("EventUsm", EventGroups)
             /\ Borrows(events'[t], objects'[t].eventAssigned, objects'[t].eventGroup)
             /\ results'[t] \in DataObjects("ResultUsm", ResultGroups)
             /\ Borrows(results'[t], objects'[t].resultAssigned, objects'[t].resultGroup)
    <2> DEFINE before == objects[t]
               after == objects'[t]
    <2>1. /\ before.eventAssigned \in BOOLEAN /\ before.resultAssigned \in BOOLEAN
          /\ after.eventAssigned \in BOOLEAN /\ after.resultAssigned \in BOOLEAN
        BY <1>3 DEF TaskObjects
    <2>2. /\ after.eventAssigned => after.eventGroup \in EventGroups
          /\ after.resultAssigned => after.resultGroup \in ResultGroups
        BY HeldGroupsAfter
    <2>3. /\ before.eventAssigned /\ after.eventAssigned => after.eventGroup = before.eventGroup
          /\ before.resultAssigned /\ after.resultAssigned =>
                after.resultGroup = before.resultGroup
        BY <1>2 DEF GoesOn
    <2>4. /\ events[t] \in DataObjects("EventUsm", EventGroups)
          /\ Borrows(events[t], before.eventAssigned, before.eventGroup)
          /\ results[t] \in DataObjects("ResultUsm", ResultGroups)
          /\ Borrows(results[t], before.resultAssigned, before.resultGroup)
        BY DEF TransferTypeOK, DataFollowTasks
    <2>5. /\ events'[t] = Follow(events[t], before.eventAssigned, after.eventAssigned,
                                 after.eventGroup)
          /\ results'[t] = Follow(results[t], before.resultAssigned, after.resultAssigned,
                                  after.resultGroup)
        BY <1>1 DEF FollowTask
    <2> HIDE DEF before, after
    <2>6. /\ events'[t] \in DataObjects("EventUsm", EventGroups)
          /\ Borrows(events'[t], after.eventAssigned, after.eventGroup)
        <3> DEFINE object == events[t]
                   was == before.eventAssigned
                   is == after.eventAssigned
                   held == before.eventGroup
                   group == after.eventGroup
        <3>1. /\ object \in DataObjects("EventUsm", EventGroups)
              /\ was \in BOOLEAN /\ is \in BOOLEAN /\ Borrows(object, was, held)
              /\ is => group \in EventGroups
              /\ was /\ is => group = held
            BY <2>1, <2>2, <2>3, <2>4
        <3>2. events'[t] = Follow(object, was, is, group)
            BY <2>5
        <3> HIDE DEF object, was, is, held, group
        <3>3. /\ Follow(object, was, is, group) \in DataObjects("EventUsm", EventGroups)
              /\ Borrows(Follow(object, was, is, group), is, group)
            BY ONLY <3>1, FollowFacts
        <3> QED BY <3>2, <3>3 DEF is, group
    <2>7. /\ results'[t] \in DataObjects("ResultUsm", ResultGroups)
          /\ Borrows(results'[t], after.resultAssigned, after.resultGroup)
        <3> DEFINE object == results[t]
                   was == before.resultAssigned
                   is == after.resultAssigned
                   held == before.resultGroup
                   group == after.resultGroup
        <3>1. /\ object \in DataObjects("ResultUsm", ResultGroups)
              /\ was \in BOOLEAN /\ is \in BOOLEAN /\ Borrows(object, was, held)
              /\ is => group \in ResultGroups
              /\ was /\ is => group = held
            BY <2>1, <2>2, <2>3, <2>4
        <3>2. results'[t] = Follow(object, was, is, group)
            BY <2>5
        <3> HIDE DEF object, was, is, held, group
        <3>3. /\ Follow(object, was, is, group) \in DataObjects("ResultUsm", ResultGroups)
              /\ Borrows(Follow(object, was, is, group), is, group)
            BY ONLY <3>1, FollowFacts
        <3> QED BY <3>2, <3>3 DEF is, group
    <2> QED BY <2>6, <2>7 DEF after
<1>5. TransferTypeOK'
    <2>1. /\ events' \in [Tasks -> DataObjects("EventUsm", EventGroups)]
          /\ results' \in [Tasks -> DataObjects("ResultUsm", ResultGroups)]
        BY <1>1, <1>4 DEF FollowTask
    <2> QED BY <1>1, <2>1 DEF TransferTypeOK
<1>6. DataFollowTasks'
    BY <1>4 DEF DataFollowTasks
<1>7. ASSUME NEW t \in Tasks, toSubmit[t] # <<>> \/ AtWork(t) \/ AtWork(t)'
      PROVE  threads'[t] = threads[t] /\ objects'[t] = objects[t]
    BY <1>2, <1>7 DEF GoesOn, SubmitsInState, AtWork
<1>8. SubmitsInState'
    <2>1. \A t \in Tasks : threads'[t] # "submit" => toSubmit[t] = <<>>
        BY <1>7 DEF SubmitsInState
    <2>2. \A t \in Tasks : \A kind \in Range(toSubmit[t]) : KindOf(kind, objects'[t].state)
        BY <1>7, EmptyFacts DEF SubmitsInState
    <2> QED BY <1>1, <2>1, <2>2 DEF SubmitsInState
<1>9. ASSUME ~ SubmitMayThrow PROVE DataArrives'
    <2>1. OperationsAwaited /\ EventsArrive /\ SolutionsArrive /\ GroupsHoldOwnData
        BY <1>9 DEF DataArrives
    <2>2. \A op \in operations : op.task \in Tasks
        BY DEF TransferTypeOK, Operations
    <2>3. OperationsAwaited'
        BY <1>1, <1>7, <2>1, <2>2 DEF OperationsAwaited, AtWork
    <2>4. \A t \in Tasks : \A kind : Pending(t, kind)' <=> Pending(t, kind)
        BY <1>1 DEF Pending
    <2>5. EventsArrive'
        <3> SUFFICES ASSUME NEW t \in Tasks,
                            objects'[t].state = "WaitingForEventTransfer", AtWork(t)'
                     PROVE  LET contents == deviceEvents[objects'[t].eventGroup]
                            IN  /\ Pending(t, "numPointsToDevice") \/ contents.number = t
                                /\ Pending(t, "pointsToDevice") \/ contents.arrays = t
            BY <1>1, <2>4 DEF EventsArrive
        <3>1. threads'[t] = threads[t] /\ objects'[t] = objects[t]
            BY <1>7
        <3> QED BY <2>1, <3>1 DEF EventsArrive, AtWork
    <2>6. SolutionsArrive'
        <3> SUFFICES ASSUME NEW t \in Tasks,
                            objects'[t].state = "WaitingForExecution", AtWork(t)'
                     PROVE  \/ Pending(t, "kernel")
                            \/ deviceResults[objects'[t].resultGroup]
                                   = [number |-> t, arrays |-> t]
            BY <1>1, <2>4 DEF SolutionsArrive
        <3>1. threads'[t] = threads[t] /\ objects'[t] = objects[t]
            BY <1>7
        <3> QED BY <2>1, <3>1 DEF SolutionsArrive, AtWork
    <2>7. EventIsOnDevice'
        <3> SUFFICES ASSUME NEW t \in Tasks,
                            objects'[t].state \in {"WaitingForExecution", "Executed"}
                     PROVE  deviceEvents[objects'[t].eventGroup] = [number |-> t, arrays |-> t]
            BY <1>1 DEF EventIsOnDevice
        <3>1. objects[t].state = objects'[t].state
            BY <1>2 DEF GoesOn
        <3>2. objects[t].eventAssigned
            BY <3>1, HeldInState
        <3>3. objects'[t].eventAssigned
            BY DEF IInv, TasksConsistent, Consistent
        <3>4. objects'[t].eventGroup = objects[t].eventGroup
            BY <1>2, <3>2, <3>3 DEF GoesOn
        <3> QED BY <2>1, <3>1, <3>4 DEF GroupsHoldOwnData, EventIsOnDevice
    <2>8. ResultsAreOwn'
        <3> SUFFICES ASSUME NEW t \in Tasks,
                            objects'[t].state \in {"Executed", "WaitingForResultTransfer",
                                                   "ResultTransferred"}
                     PROVE  deviceResults[objects'[t].resultGroup] = [number |-> t, arrays |-> t]
            BY <1>1 DEF ResultsAreOwn
        <3>1. objects[t].state \in {"Executed", "WaitingForResultTransfer", "ResultTransferred"}
            BY <1>2 DEF GoesOn
        <3>2. objects[t].resultAssigned
            BY <3>1, HeldInState
        <3>3. objects'[t].resultAssigned
            BY DEF IInv, TasksConsistent, Consistent
        <3>4. objects'[t].resultGroup = objects[t].resultGroup
            BY <1>2, <3>2, <3>3 DEF GoesOn
        <3> QED BY <2>1, <3>1, <3>4 DEF GroupsHoldOwnData, ResultsAreOwn
    <2> QED BY <2>3, <2>5, <2>6, <2>7, <2>8 DEF DataArrives, GroupsHoldOwnData
<1> QED BY <1>5, <1>6, <1>8, <1>9 DEF DataInv

-----------------------------------------------------------------------------
(* The steps of a thread.                                                  *)

\* The lists a thread is given to submit.
LEMMA ListFacts ==
    ASSUME NEW S, NEW a \in S, NEW b \in S
    PROVE  /\ <<a, b>> \in Seq(S) /\ Range(<<a, b>>) = {a, b}
           /\ <<a>> \in Seq(S) /\ Range(<<a>>) = {a}
    BY DEF Range

\* The methods find their task's groups borrowed, so they submit everything they
\* have to.
LEMMA OperationsOfFacts ==
    ASSUME IInv, TransferTypeOK, DataFollowTasks, NEW t \in Tasks, threads[t] = "checkout"
    PROVE  /\ OperationsOf(t) \in Seq(Kinds)
           /\ \A kind \in Range(OperationsOf(t)) : KindOf(kind, objects[t].state)
           /\ \A kind \in UsesEvent :
                  KindOf(kind, objects[t].state) => kind \in Range(OperationsOf(t))
<1> DEFINE state == objects[t].state
<1>1. /\ state \in ThreadStates
      /\ state \in {"WaitingForEventTransfer", "WaitingForExecution", "Executed"}
             => objects[t].eventAssigned /\ objects[t].resultAssigned
      /\ state \in {"WaitingForResultTransfer", "ResultTransferred"} => objects[t].resultAssigned
    BY HeldInState
<1>2. /\ objects[t].eventAssigned => events[t].borrowed = TRUE /\ events[t].queue = Queue
      /\ objects[t].resultAssigned => results[t].borrowed = TRUE
      /\ results[t].class = "ResultUsm"
    BY DEF DataFollowTasks, Borrows, TransferTypeOK, DataObjects
<1>3. CASE state = "WaitingForEventTransfer"
    <2>1. OperationsOf(t) = <<"numPointsToDevice", "pointsToDevice">>
        BY <1>1, <1>2, <1>3 DEF OperationsOf, Data!MayTransferToDevice, Data!HasDeviceMemory
    <2>2. "numPointsToDevice" \in Kinds /\ "pointsToDevice" \in Kinds
        BY DEF Kinds, EventCopies
    <2>3. /\ OperationsOf(t) \in Seq(Kinds)
          /\ Range(OperationsOf(t)) = {"numPointsToDevice", "pointsToDevice"}
        <3> DEFINE first == "numPointsToDevice"
                   second == "pointsToDevice"
        <3>1. first \in Kinds /\ second \in Kinds /\ OperationsOf(t) = <<first, second>>
            BY <2>1, <2>2
        <3> HIDE DEF first, second
        <3>2. <<first, second>> \in Seq(Kinds) /\ Range(<<first, second>>) = {first, second}
            BY ONLY <3>1, ListFacts
        <3> QED BY <3>1, <3>2 DEF first, second
    <2> QED BY <1>3, <2>3 DEF KindOf, EventCopies, UsesEvent
<1>4. CASE state = "WaitingForExecution"
    <2>1. OperationsOf(t) = <<"kernel">>
        BY <1>4 DEF OperationsOf, ExecuteOnDevice
    <2>2. "kernel" \in Kinds
        BY DEF Kinds
    <2>3. OperationsOf(t) \in Seq(Kinds) /\ Range(OperationsOf(t)) = {"kernel"}
        BY <2>1, <2>2, ListFacts
    <2> QED BY <1>4, <2>3 DEF KindOf, EventCopies, UsesEvent
<1>5. CASE state = "WaitingForResultTransfer"
    <2>1. OperationsOf(t) = <<"numSolutionsToHost", "solutionsToHost">>
        BY <1>1, <1>2, <1>5 DEF OperationsOf, Data!MayTransferToHost, Data!HasDeviceMemory
    <2>2. "numSolutionsToHost" \in Kinds /\ "solutionsToHost" \in Kinds
        BY DEF Kinds, ResultCopies
    <2>3. /\ OperationsOf(t) \in Seq(Kinds)
          /\ Range(OperationsOf(t)) = {"numSolutionsToHost", "solutionsToHost"}
        <3> DEFINE first == "numSolutionsToHost"
                   second == "solutionsToHost"
        <3>1. first \in Kinds /\ second \in Kinds /\ OperationsOf(t) = <<first, second>>
            BY <2>1, <2>2
        <3> HIDE DEF first, second
        <3>2. <<first, second>> \in Seq(Kinds) /\ Range(<<first, second>>) = {first, second}
            BY ONLY <3>1, ListFacts
        <3> QED BY <3>1, <3>2 DEF first, second
    <2> QED BY <1>5, <2>3 DEF KindOf, EventCopies, ResultCopies, UsesEvent
<1> QED BY <1>1, <1>3, <1>4, <1>5 DEF ThreadStates

\* While no task changes its state or its groups and nothing arrives on the device,
\* it is enough that what is wanted stays pending.
LEMMA StillArrives ==
    ASSUME IInv, EventsArrive, SolutionsArrive, GroupsHoldOwnData,
           UNCHANGED <<deviceEvents, deviceResults>>,
           \A u \in Tasks : /\ objects'[u].state = objects[u].state
                            /\ objects'[u].eventGroup = objects[u].eventGroup
                            /\ objects'[u].resultGroup = objects[u].resultGroup,
           \A u \in Tasks : \A kind \in UsesEvent :
               KindOf(kind, objects[u].state) /\ AtWork(u)' =>
                   Pending(u, kind)' \/ (AtWork(u) /\ ~ Pending(u, kind))
    PROVE  EventsArrive' /\ SolutionsArrive' /\ GroupsHoldOwnData'
<1>1. EventsArrive'
    <2> SUFFICES ASSUME NEW u \in Tasks, objects[u].state = "WaitingForEventTransfer", AtWork(u)'
                 PROVE  LET contents == deviceEvents[objects[u].eventGroup]
                        IN  /\ Pending(u, "numPointsToDevice")' \/ contents.number = u
                            /\ Pending(u, "pointsToDevice")' \/ contents.arrays = u
        BY DEF EventsArrive
    <2>1. \A kind \in EventCopies : Pending(u, kind)' \/ (AtWork(u) /\ ~ Pending(u, kind))
        BY DEF KindOf, UsesEvent
    <2> QED BY <2>1 DEF EventCopies, EventsArrive
<1>2. SolutionsArrive'
    <2> SUFFICES ASSUME NEW u \in Tasks, objects[u].state = "WaitingForExecution", AtWork(u)'
                 PROVE  \/ Pending(u, "kernel")'
                        \/ deviceResults[objects[u].resultGroup] = [number |-> u, arrays |-> u]
        BY DEF SolutionsArrive
    <2>1. Pending(u, "kernel")' \/ (AtWork(u) /\ ~ Pending(u, "kernel"))
        BY DEF KindOf, UsesEvent
    <2> QED BY <2>1 DEF SolutionsArrive
<1>3. GroupsHoldOwnData'
    BY DEF GroupsHoldOwnData, EventIsOnDevice, ResultsAreOwn
<1> QED BY <1>1, <1>2, <1>3

\* The EventUsm and ResultUsm objects stand still while their tasks' groups do.
LEMMA StillFollow ==
    ASSUME DataFollowTasks, UNCHANGED dataVars,
           \A u \in Tasks : /\ objects'[u].eventAssigned = objects[u].eventAssigned
                            /\ objects'[u].resultAssigned = objects[u].resultAssigned
                            /\ objects'[u].eventGroup = objects[u].eventGroup
                            /\ objects'[u].resultGroup = objects[u].resultGroup
    PROVE  DataFollowTasks'
    BY DEF DataFollowTasks, Borrows, dataVars

\* The thread has the queue and knows what to submit.
LEMMA ThreadBeginsKeeps ==
    ASSUME TransferInv, NEW t \in Tasks, ThreadBegins(t)
    PROVE  DataInv'
<1> USE DEF TransferInv
<1>1. /\ threads[t] = "checkout" /\ threads' = [threads EXCEPT ![t] = "submit"]
      /\ toSubmit' = [toSubmit EXCEPT ![t] = OperationsOf(t)]
      /\ UNCHANGED <<objects, dataVars, hostResults, deviceEvents, deviceResults, operations,
                     awaited>>
    BY DEF ThreadBegins, ThreadCheckout, contentVars
<1>2. /\ threads \in [Tasks -> ThreadPlaces] /\ toSubmit \in [Tasks -> Seq(Kinds)]
    BY DEF IInv, TypeOK, TransferTypeOK
<1>3. /\ threads'[t] = "submit" /\ \A u \in Tasks \ {t} : threads'[u] = threads[u]
      /\ toSubmit'[t] = OperationsOf(t) /\ \A u \in Tasks \ {t} : toSubmit'[u] = toSubmit[u]
    BY <1>1, <1>2
<1>4. /\ OperationsOf(t) \in Seq(Kinds)
      /\ \A kind \in Range(OperationsOf(t)) : KindOf(kind, objects[t].state)
      /\ \A kind \in UsesEvent :
             KindOf(kind, objects[t].state) => kind \in Range(OperationsOf(t))
    BY <1>1, OperationsOfFacts
<1>5. TransferTypeOK'
    <2>1. toSubmit' \in [Tasks -> Seq(Kinds)]
        BY <1>1, <1>2, <1>4
    <2> QED BY <1>1, <2>1 DEF TransferTypeOK, dataVars
<1>6. DataFollowTasks'
    BY <1>1, StillFollow
<1>7. SubmitsInState'
    BY <1>1, <1>3, <1>4 DEF SubmitsInState
<1>8. ASSUME ~ SubmitMayThrow PROVE DataArrives'
    <2>1. OperationsAwaited /\ EventsArrive /\ SolutionsArrive /\ GroupsHoldOwnData
        BY <1>8 DEF DataArrives
    <2>2. OperationsAwaited'
        <3>1. \A op \in operations : op.task \in Tasks /\ op.task # t
            BY <1>1, <2>1 DEF OperationsAwaited, TransferTypeOK, Operations
        <3> QED BY <1>1, <1>3, <2>1, <3>1 DEF OperationsAwaited
    <2>3. \A u \in Tasks : \A kind \in UsesEvent :
              KindOf(kind, objects[u].state) /\ AtWork(u)' =>
                  Pending(u, kind)' \/ (AtWork(u) /\ ~ Pending(u, kind))
        BY <1>1, <1>3, <1>4 DEF Pending, AtWork
    <2> QED BY <1>1, <2>1, <2>2, <2>3, StillArrives DEF DataArrives
<1> QED BY <1>5, <1>6, <1>7, <1>8 DEF DataInv

\* One more operation is submitted, and its SYCL event kept.
LEMMA ThreadSubmitsKeeps ==
    ASSUME TransferInv, NEW t \in Tasks, ThreadSubmits(t)
    PROVE  DataInv'
<1> USE DEF TransferInv
<1> DEFINE kind == Head(toSubmit[t])
           op == Operation(t, kind, events[t].memory, results[t].memory)
           new == IF CopiesNothing(t, kind) THEN {} ELSE {op}
<1>1. /\ threads[t] = "submit" /\ toSubmit[t] # <<>>
      /\ operations' = operations \cup new
      /\ awaited' = [awaited EXCEPT ![t] = @ \cup new]
      /\ toSubmit' = [toSubmit EXCEPT ![t] = Tail(@)]
      /\ UNCHANGED <<threads, objects, dataVars, hostResults, deviceEvents, deviceResults>>
    BY DEF ThreadSubmits, vars, taskVars, contentVars
<1>2. /\ kind \in Kinds /\ Tail(toSubmit[t]) \in Seq(Kinds)
      /\ kind \in Range(toSubmit[t])
      /\ Range(toSubmit[t]) = Range(Tail(toSubmit[t])) \cup {kind}
    <2>1. toSubmit[t] \in Seq(Kinds)
        BY DEF TransferTypeOK
    <2> QED BY <1>1, <2>1, PopFacts
<1>3. KindOf(kind, objects[t].state)
    BY <1>2 DEF SubmitsInState
<1>4. /\ op.task = t /\ op.kind = kind
      /\ op.eventGroup = events[t].memory /\ op.resultGroup = results[t].memory
    BY DEF Operation
<1>5. /\ kind \in UsesEvent => /\ op.eventGroup = objects[t].eventGroup
                               /\ op.eventGroup \in EventGroups
      /\ kind \in UsesResult => /\ op.resultGroup = objects[t].resultGroup
                                /\ op.resultGroup \in ResultGroups
    <2>1. /\ kind \in UsesEvent =>
                 objects[t].state \in {"WaitingForEventTransfer", "WaitingForExecution"}
          /\ kind \in UsesResult =>
                 objects[t].state \in {"WaitingForExecution", "WaitingForResultTransfer"}
        BY <1>3 DEF KindOf, UsesEvent, UsesResult, EventCopies, ResultCopies
    <2>2. /\ kind \in UsesEvent => objects[t].eventAssigned
          /\ kind \in UsesResult => objects[t].resultAssigned
        BY <2>1, HeldInState
    <2>3. /\ objects[t].eventAssigned => events[t].memory = objects[t].eventGroup
          /\ objects[t].resultAssigned => results[t].memory = objects[t].resultGroup
        BY DEF DataFollowTasks, Borrows
    <2>4. /\ objects[t].eventAssigned => objects[t].eventGroup \in EventGroups
          /\ objects[t].resultAssigned => objects[t].resultGroup \in ResultGroups
        BY HeldGroups
    <2> QED BY <1>4, <2>2, <2>3, <2>4
<1>6. op \in Operations
    <2>1. /\ events[t].memory \in EventGroups \cup {NoMemory}
          /\ results[t].memory \in ResultGroups \cup {NoMemory}
        BY DEF TransferTypeOK, DataObjects
    <2>2. op \in [task : Tasks, kind : Kinds, eventGroup : EventGroups \cup {NoMemory},
                  resultGroup : ResultGroups \cup {NoMemory}]
        BY <1>2, <2>1 DEF Operation
    <2> HIDE DEF op, kind
    <2> QED BY <1>4, <1>5, <2>2 DEF Operations
<1>7. new \subseteq {op} /\ (kind # "solutionsToHost" => new = {op})
    BY DEF CopiesNothing
<1> HIDE DEF kind, op, new
<1>8. /\ awaited \in [Tasks -> SUBSET Operations] /\ toSubmit \in [Tasks -> Seq(Kinds)]
      /\ operations \in SUBSET Operations
    BY DEF TransferTypeOK
<1>9. /\ awaited'[t] = awaited[t] \cup new /\ \A u \in Tasks \ {t} : awaited'[u] = awaited[u]
      /\ toSubmit'[t] = Tail(toSubmit[t])
      /\ \A u \in Tasks \ {t} : toSubmit'[u] = toSubmit[u]
    BY <1>1, <1>8
<1>10. TransferTypeOK'
    <2>1. awaited' \in [Tasks -> SUBSET Operations]
        BY <1>1, <1>6, <1>7, <1>8
    <2>2. toSubmit' \in [Tasks -> Seq(Kinds)]
        BY <1>1, <1>2, <1>8
    <2>3. operations' \in SUBSET Operations
        BY <1>1, <1>6, <1>7, <1>8
    <2> QED BY <1>1, <2>1, <2>2, <2>3 DEF TransferTypeOK, dataVars
<1>11. DataFollowTasks'
    BY <1>1, StillFollow
<1>12. SubmitsInState'
    BY <1>1, <1>2, <1>9 DEF SubmitsInState
<1>13. ASSUME ~ SubmitMayThrow PROVE DataArrives'
    <2>1. OperationsAwaited /\ EventsArrive /\ SolutionsArrive /\ GroupsHoldOwnData
        BY <1>13 DEF DataArrives
    <2>2. OperationsAwaited'
        <3> SUFFICES ASSUME NEW o \in operations'
                     PROVE  /\ o \in awaited'[o.task]
                            /\ threads[o.task] \in {"submit", "wait"}
                            /\ KindOf(o.kind, objects[o.task].state)
                            /\ o.kind \in UsesEvent => o.eventGroup = objects[o.task].eventGroup
                            /\ o.kind \in UsesResult =>
                                   o.resultGroup = objects[o.task].resultGroup
            BY <1>1 DEF OperationsAwaited
        <3>1. CASE o \in new
            <4>1. o = op
                BY <1>7, <3>1
            <4> QED BY <1>1, <1>3, <1>4, <1>5, <1>9, <3>1, <4>1
        <3>2. CASE o \in operations
            <4>1. o.task \in Tasks
                BY <1>8, <3>2 DEF Operations
            <4>2. awaited[o.task] \subseteq awaited'[o.task]
                BY <1>9, <4>1
            <4> QED BY <2>1, <3>2, <4>2 DEF OperationsAwaited
        <3> QED BY <1>1, <3>1, <3>2
    <2>3. ASSUME NEW u \in Tasks, NEW k \in UsesEvent, Pending(u, k)
          PROVE  Pending(u, k)'
        <3>1. CASE \E o \in operations : o.task = u /\ o.kind = k
            BY <1>1, <3>1 DEF Pending
        <3>2. CASE k \in Range(toSubmit[u])
            <4>1. k # "solutionsToHost"
                BY DEF UsesEvent, EventCopies
            <4>2. CASE u = t
                BY <1>1, <1>2, <1>4, <1>7, <1>9, <3>2, <4>1, <4>2 DEF Pending
            <4>3. CASE u # t
                BY <1>9, <3>2, <4>3 DEF Pending
            <4> QED BY <4>2, <4>3
        <3> QED BY <2>3, <3>1, <3>2 DEF Pending
    <2>4. \A u \in Tasks : AtWork(u)' <=> AtWork(u)
        BY <1>1 DEF AtWork
    <2> QED BY <1>1, <2>1, <2>2, <2>3, <2>4, StillArrives DEF DataArrives
<1> QED BY <1>10, <1>11, <1>12, <1>13 DEF DataInv

\* A copy that throws leaves nothing to submit and nothing to wait for.
LEMMA ThreadSubmitThrowsKeeps ==
    ASSUME TransferInv, NEW t \in Tasks, ThreadSubmitThrows(t)
    PROVE  DataInv'
<1> USE DEF TransferInv
<1>1. /\ SubmitMayThrow
      /\ toSubmit' = [toSubmit EXCEPT ![t] = <<>>]
      /\ awaited' = [awaited EXCEPT ![t] = {}]
      /\ UNCHANGED <<threads, objects, dataVars, hostResults, deviceEvents, deviceResults,
                     operations>>
    BY DEF ThreadSubmitThrows, vars, taskVars, contentVars
<1>2. toSubmit \in [Tasks -> Seq(Kinds)] /\ awaited \in [Tasks -> SUBSET Operations]
    BY DEF TransferTypeOK
<1>3. toSubmit'[t] = <<>> /\ \A u \in Tasks \ {t} : toSubmit'[u] = toSubmit[u]
    BY <1>1, <1>2
<1>4. toSubmit' \in [Tasks -> Seq(Kinds)] /\ awaited' \in [Tasks -> SUBSET Operations]
    BY <1>1, <1>2
<1>5. TransferTypeOK'
    BY <1>1, <1>4 DEF TransferTypeOK, dataVars
<1>6. DataFollowTasks'
    BY <1>1, StillFollow
<1>7. SubmitsInState'
    BY <1>1, <1>3, EmptyFacts DEF SubmitsInState
<1> QED BY <1>1, <1>5, <1>6, <1>7 DEF DataInv

\* The thread gives the queue back when it has submitted everything.
LEMMA ThreadSubmittedKeeps ==
    ASSUME TransferInv, NEW t \in Tasks, ThreadSubmitted(t)
    PROVE  DataInv'
<1> USE DEF TransferInv
<1>1. /\ threads[t] = "submit" /\ threads' = [threads EXCEPT ![t] = "wait"]
      /\ toSubmit[t] = <<>>
      /\ UNCHANGED <<objects, dataVars, hostResults, deviceEvents, deviceResults, operations,
                     toSubmit, awaited>>
    BY DEF ThreadSubmitted, ThreadCheckin, contentVars, submitVars
<1>2. threads'[t] = "wait" /\ \A u \in Tasks \ {t} : threads'[u] = threads[u]
    BY <1>1 DEF IInv, TypeOK
<1>3. TransferTypeOK'
    BY <1>1 DEF TransferTypeOK, dataVars
<1>4. DataFollowTasks'
    BY <1>1, StillFollow
<1>5. SubmitsInState'
    BY <1>1, <1>2 DEF SubmitsInState
<1>6. ASSUME ~ SubmitMayThrow PROVE DataArrives'
    <2>1. OperationsAwaited /\ EventsArrive /\ SolutionsArrive /\ GroupsHoldOwnData
        BY <1>6 DEF DataArrives
    <2>2. \A op \in operations : op.task \in Tasks
        BY DEF TransferTypeOK, Operations
    <2>3. OperationsAwaited'
        BY <1>1, <1>2, <2>1, <2>2 DEF OperationsAwaited
    <2>4. \A u \in Tasks : AtWork(u)' <=> AtWork(u)
        BY <1>1, <1>2 DEF AtWork
    <2>5. \A u \in Tasks : \A kind : Pending(u, kind)' <=> Pending(u, kind)
        BY <1>1 DEF Pending
    <2> QED BY <1>1, <2>1, <2>3, <2>4, <2>5, StillArrives DEF DataArrives
<1> QED BY <1>3, <1>4, <1>5, <1>6 DEF DataInv

\* Everything the thread waits for has been performed: nothing of its task is left.
LEMMA ThreadWaitedKeeps ==
    ASSUME TransferInv, NEW t \in Tasks, ThreadWaited(t)
    PROVE  DataInv'
<1> USE DEF TransferInv
<1>1. /\ threads[t] = "wait" /\ threads' = [threads EXCEPT ![t] = "set"]
      /\ objects' = [objects EXCEPT ![t] = EndStateChange(objects[t])]
      /\ awaited[t] \cap operations = {}
      /\ awaited' = [awaited EXCEPT ![t] = {}]
      /\ UNCHANGED <<dataVars, hostResults, deviceEvents, deviceResults, operations, toSubmit>>
    BY DEF ThreadWaited, ThreadDeviceDone, contentVars
<1>2. /\ objects \in [Tasks -> TaskObjects] /\ threads \in [Tasks -> ThreadPlaces]
      /\ awaited \in [Tasks -> SUBSET Operations]
    BY DEF IInv, TypeOK, TransferTypeOK
<1>3. /\ threads'[t] = "set" /\ \A u \in Tasks \ {t} : threads'[u] = threads[u]
      /\ \A u \in Tasks \ {t} : awaited'[u] = awaited[u]
    BY <1>1, <1>2
<1>4. ASSUME NEW u \in Tasks
      PROVE  /\ objects'[u].state = objects[u].state
             /\ objects'[u].eventAssigned = objects[u].eventAssigned
             /\ objects'[u].resultAssigned = objects[u].resultAssigned
             /\ objects'[u].eventGroup = objects[u].eventGroup
             /\ objects'[u].resultGroup = objects[u].resultGroup
    <2> DEFINE after == EndStateChange(objects[t])
    <2>1. /\ after.state = objects[t].state
          /\ after.eventAssigned = objects[t].eventAssigned
          /\ after.resultAssigned = objects[t].resultAssigned
          /\ after.eventGroup = objects[t].eventGroup
          /\ after.resultGroup = objects[t].resultGroup
        BY <1>2, ChangingFacts
    <2>2. objects' = [objects EXCEPT ![t] = after]
        BY <1>1
    <2> HIDE DEF after
    <2> QED BY <1>2, <2>1, <2>2
<1>5. TransferTypeOK'
    <2>1. awaited' \in [Tasks -> SUBSET Operations]
        BY <1>1, <1>2
    <2> QED BY <1>1, <2>1 DEF TransferTypeOK, dataVars
<1>6. DataFollowTasks'
    BY <1>1, <1>4, StillFollow
<1>7. SubmitsInState'
    BY <1>1, <1>3, <1>4 DEF SubmitsInState
<1>8. ASSUME ~ SubmitMayThrow PROVE DataArrives'
    <2>1. OperationsAwaited /\ EventsArrive /\ SolutionsArrive /\ GroupsHoldOwnData
        BY <1>8 DEF DataArrives
    <2>2. \A op \in operations : op.task \in Tasks /\ op.task # t
        BY <1>1, <2>1 DEF TransferTypeOK, Operations, OperationsAwaited
    <2>3. OperationsAwaited'
        BY <1>1, <1>3, <1>4, <2>1, <2>2 DEF OperationsAwaited
    <2>4. \A u \in Tasks : AtWork(u)' <=> AtWork(u)
        BY <1>1, <1>3 DEF AtWork
    <2>5. \A u \in Tasks : \A kind : Pending(u, kind)' <=> Pending(u, kind)
        BY <1>1 DEF Pending
    <2> QED BY <1>1, <1>4, <2>1, <2>3, <2>4, <2>5, StillArrives DEF DataArrives
<1> QED BY <1>5, <1>6, <1>7, <1>8 DEF DataInv

\* The task's next state is set after everything has arrived.
LEMMA ThreadSetStateKeeps ==
    ASSUME TransferInv, NEW t \in Tasks, ThreadSetState(t),
           UNCHANGED <<dataVars, contentVars, submitVars>>
    PROVE  DataInv'
<1> USE DEF TransferInv
<1> DEFINE next == StateAfterThread(objects[t])
           after == SetState(objects[t], next)
           own == [number |-> t, arrays |-> t]
<1>1. /\ threads[t] = "set" /\ threads' = [threads EXCEPT ![t] = "notify"]
      /\ objects' = [objects EXCEPT ![t] = after]
      /\ UNCHANGED <<dataVars, hostResults, deviceEvents, deviceResults, operations, toSubmit,
                     awaited>>
    BY DEF ThreadSetState, contentVars, submitVars
<1>2. /\ objects \in [Tasks -> TaskObjects] /\ threads \in [Tasks -> ThreadPlaces]
    BY DEF IInv, TypeOK
<1>3. threads'[t] = "notify" /\ \A u \in Tasks \ {t} : threads'[u] = threads[u]
    BY <1>1, <1>2
<1>4. /\ objects[t].state \in ThreadStates
      /\ objects[t].state = "WaitingForEventTransfer" => next = "WaitingForExecution"
      /\ objects[t].state = "WaitingForExecution" => next = "Executed"
      /\ objects[t].state = "WaitingForResultTransfer" => next = "ResultTransferred"
    BY <1>1, HeldInState DEF StateAfterThread
<1> HIDE DEF next
<1>5. next \in TaskStates
    BY <1>4 DEF ThreadStates, TaskStates
<1>6. /\ after.state = next
      /\ after.eventAssigned = objects[t].eventAssigned
      /\ after.resultAssigned = objects[t].resultAssigned
      /\ after.eventGroup = objects[t].eventGroup
      /\ after.resultGroup = objects[t].resultGroup
    BY <1>2, <1>5, SetStateFacts
<1> HIDE DEF after
<1>7. /\ objects'[t] = after /\ \A u \in Tasks \ {t} : objects'[u] = objects[u]
    BY <1>1, <1>2
<1>8. TransferTypeOK'
    BY <1>1 DEF TransferTypeOK, dataVars
<1>9. DataFollowTasks'
    BY <1>1, <1>6, <1>7, StillFollow
<1>10. toSubmit[t] = <<>>
    BY <1>1 DEF SubmitsInState
<1>11. SubmitsInState'
    BY <1>1, <1>3, <1>7, <1>10, EmptyFacts DEF SubmitsInState
<1>12. ASSUME ~ SubmitMayThrow PROVE DataArrives'
    <2>1. OperationsAwaited /\ EventsArrive /\ SolutionsArrive /\ GroupsHoldOwnData
        BY <1>12 DEF DataArrives
    <2>2. \A op \in operations : op.task \in Tasks /\ op.task # t
        BY <1>1, <2>1 DEF TransferTypeOK, Operations, OperationsAwaited
    <2>3. OperationsAwaited'
        BY <1>1, <1>3, <1>7, <2>1, <2>2 DEF OperationsAwaited
    <2>4. \A kind : ~ Pending(t, kind)
        BY <1>10, <2>2, EmptyFacts DEF Pending
    <2>5. \A u \in Tasks : \A kind : Pending(u, kind)' <=> Pending(u, kind)
        BY <1>1 DEF Pending
    <2>6. EventsArrive'
        <3> SUFFICES ASSUME NEW u \in Tasks, objects'[u].state = "WaitingForEventTransfer",
                            AtWork(u)'
                     PROVE  LET contents == deviceEvents[objects'[u].eventGroup]
                            IN  /\ Pending(u, "numPointsToDevice") \/ contents.number = u
                                /\ Pending(u, "pointsToDevice") \/ contents.arrays = u
            BY <1>1, <2>5 DEF EventsArrive
        <3>1. u # t /\ threads[u] = threads'[u] /\ objects'[u] = objects[u]
            BY <1>3, <1>7 DEF AtWork
        <3> QED BY <2>1, <3>1 DEF EventsArrive, AtWork
    <2>7. SolutionsArrive'
        <3> SUFFICES ASSUME NEW u \in Tasks, objects'[u].state = "WaitingForExecution",
                            AtWork(u)'
                     PROVE  \/ Pending(u, "kernel")
                            \/ deviceResults[objects'[u].resultGroup]
                                   = [number |-> u, arrays |-> u]
            BY <1>1, <2>5 DEF SolutionsArrive
        <3>1. u # t /\ threads[u] = threads'[u] /\ objects'[u] = objects[u]
            BY <1>3, <1>7 DEF AtWork
        <3> QED BY <2>1, <3>1 DEF SolutionsArrive, AtWork
    <2>8. /\ next \in {"WaitingForExecution", "Executed"} =>
                 deviceEvents[objects[t].eventGroup] = own
          /\ next \in {"Executed", "ResultTransferred"} =>
                 deviceResults[objects[t].resultGroup] = own
        <3>1. AtWork(t)
            BY <1>1 DEF AtWork
        <3>2. CASE objects[t].state = "WaitingForEventTransfer"
            <4>1. /\ deviceEvents[objects[t].eventGroup].number = t
                  /\ deviceEvents[objects[t].eventGroup].arrays = t
                BY <2>1, <2>4, <3>1, <3>2 DEF EventsArrive
            <4>2. deviceEvents[objects[t].eventGroup] \in Contents
                BY <3>2, HeldInState, HeldGroups DEF TransferTypeOK
            <4>3. deviceEvents[objects[t].eventGroup] = own
                BY <4>1, <4>2 DEF Contents
            <4> QED BY <1>4, <3>2, <4>3
        <3>3. CASE objects[t].state = "WaitingForExecution"
            <4>1. deviceEvents[objects[t].eventGroup] = own
                BY <2>1, <3>3 DEF GroupsHoldOwnData, EventIsOnDevice
            <4>2. deviceResults[objects[t].resultGroup] = own
                BY <2>1, <2>4, <3>1, <3>3 DEF SolutionsArrive
            <4> QED BY <4>1, <4>2
        <3>4. CASE objects[t].state = "WaitingForResultTransfer"
            <4>1. deviceResults[objects[t].resultGroup] = own
                BY <2>1, <3>4 DEF GroupsHoldOwnData, ResultsAreOwn
            <4> QED BY <1>4, <3>4, <4>1
        <3> QED BY <1>4, <3>2, <3>3, <3>4 DEF ThreadStates
    <2>9. next \in {"WaitingForExecution", "Executed", "ResultTransferred"}
        BY <1>4 DEF ThreadStates
    <2> HIDE DEF own
    <2>10. EventIsOnDevice'
        <3> SUFFICES ASSUME NEW u \in Tasks,
                            objects'[u].state \in {"WaitingForExecution", "Executed"}
                     PROVE  deviceEvents[objects'[u].eventGroup] = [number |-> u, arrays |-> u]
            BY <1>1 DEF EventIsOnDevice
        <3>1. CASE u = t
            BY <1>6, <1>7, <2>8, <3>1 DEF own
        <3>2. CASE u # t
            BY <1>7, <2>1, <3>2 DEF GroupsHoldOwnData, EventIsOnDevice
        <3> QED BY <3>1, <3>2
    <2>11. ResultsAreOwn'
        <3> SUFFICES ASSUME NEW u \in Tasks,
                            objects'[u].state \in {"Executed", "WaitingForResultTransfer",
                                                   "ResultTransferred"}
                     PROVE  deviceResults[objects'[u].resultGroup] = [number |-> u, arrays |-> u]
            BY <1>1 DEF ResultsAreOwn
        <3>1. CASE u = t
            BY <1>6, <1>7, <2>8, <2>9, <3>1 DEF own
        <3>2. CASE u # t
            BY <1>7, <2>1, <3>2 DEF GroupsHoldOwnData, ResultsAreOwn
        <3> QED BY <3>1, <3>2
    <2> QED BY <2>3, <2>6, <2>7, <2>10, <2>11 DEF DataArrives, GroupsHoldOwnData
<1> QED BY <1>8, <1>9, <1>11, <1>12 DEF DataInv

\* The thread is gone; its task's data stays.
LEMMA ThreadNotifyKeepsData ==
    ASSUME TransferInv, NEW t \in Tasks, ThreadNotify(t),
           UNCHANGED <<dataVars, contentVars, submitVars>>
    PROVE  DataInv'
<1> USE DEF TransferInv
<1>1. /\ threads[t] = "notify" /\ threads' = [threads EXCEPT ![t] = "none"]
      /\ UNCHANGED <<objects, dataVars, hostResults, deviceEvents, deviceResults, operations,
                     toSubmit, awaited>>
    BY DEF ThreadNotify, contentVars, submitVars
<1>2. threads'[t] = "none" /\ \A u \in Tasks \ {t} : threads'[u] = threads[u]
    BY <1>1 DEF IInv, TypeOK
<1>3. TransferTypeOK'
    BY <1>1 DEF TransferTypeOK, dataVars
<1>4. DataFollowTasks'
    BY <1>1, StillFollow
<1>5. SubmitsInState'
    BY <1>1, <1>2 DEF SubmitsInState
<1>6. ASSUME ~ SubmitMayThrow PROVE DataArrives'
    <2>1. OperationsAwaited /\ EventsArrive /\ SolutionsArrive /\ GroupsHoldOwnData
        BY <1>6 DEF DataArrives
    <2>2. \A op \in operations : op.task \in Tasks
        BY DEF TransferTypeOK, Operations
    <2>3. OperationsAwaited'
        BY <1>1, <1>2, <2>1, <2>2 DEF OperationsAwaited
    <2>4. \A u \in Tasks : AtWork(u)' => AtWork(u)
        BY <1>1, <1>2 DEF AtWork
    <2>5. \A u \in Tasks : \A kind : Pending(u, kind)' <=> Pending(u, kind)
        BY <1>1 DEF Pending
    <2> QED BY <1>1, <2>1, <2>3, <2>4, <2>5, StillArrives DEF DataArrives
<1> QED BY <1>3, <1>4, <1>5, <1>6 DEF DataInv

\* A thread keeps the invariant whatever its step.
LEMMA ThreadKeepsData ==
    ASSUME TransferInv, NEW t \in Tasks, ThreadStep(t)
    PROVE  DataInv'
<1>1. CASE ThreadEnds(t)
    BY <1>1, ThreadSetStateKeeps, ThreadNotifyKeepsData DEF ThreadEnds
<1> QED BY <1>1, ThreadBeginsKeeps, ThreadSubmitsKeeps, ThreadSubmitThrowsKeeps,
           ThreadSubmittedKeeps, ThreadWaitedKeeps DEF ThreadStep

-----------------------------------------------------------------------------
(* The device.                                                             *)

\* What a step of the device leaves alone.
DevicePerforms(op) ==
    /\ op \in operations
    /\ operations' = operations \ {op}
    /\ UNCHANGED <<vars, dataVars, toSubmit, awaited>>

\* An operation belongs to a task, and its groups are groups of the queue.
LEMMA OperationFacts ==
    ASSUME TransferTypeOK, NEW op \in operations
    PROVE  /\ op.task \in Tasks /\ op.kind \in Kinds
           /\ op.kind \in UsesEvent => op.eventGroup \in EventGroups
           /\ op.kind \in UsesResult => op.resultGroup \in ResultGroups
    BY DEF TransferTypeOK, Operations

\* Whatever the device performs, the parts of the invariant that do not speak of
\* contents remain, and what else is pending stays pending.
LEMMA DevicePerformsFacts ==
    ASSUME TransferInv, NEW op, DevicePerforms(op)
    PROVE  /\ DataFollowTasks' /\ SubmitsInState'
           /\ operations' \in SUBSET Operations
           /\ OperationsAwaited => OperationsAwaited'
           /\ \A u \in Tasks : AtWork(u)' <=> AtWork(u)
           /\ \A u \in Tasks : \A kind :
                  u # op.task \/ kind # op.kind => (Pending(u, kind)' <=> Pending(u, kind))
<1>1. /\ UNCHANGED <<objects, threads, events, results, toSubmit, awaited>>
      /\ operations' \subseteq operations
    BY DEF DevicePerforms, vars, taskVars, dataVars
<1>2. DataFollowTasks' /\ SubmitsInState'
    BY <1>1 DEF TransferInv, DataFollowTasks, Borrows, SubmitsInState
<1>3. operations' \in SUBSET Operations
    BY <1>1 DEF TransferInv, TransferTypeOK
<1>4. OperationsAwaited => OperationsAwaited'
    BY <1>1 DEF OperationsAwaited
<1>5. \A u \in Tasks : AtWork(u)' <=> AtWork(u)
    BY <1>1 DEF AtWork
<1>6. ASSUME NEW u \in Tasks, NEW kind, u # op.task \/ kind # op.kind
      PROVE  Pending(u, kind)' <=> Pending(u, kind)
    <2>1. \A o : o.task = u /\ o.kind = kind => o # op
        BY <1>6
    <2>2. (\E o \in operations' : o.task = u /\ o.kind = kind)
              <=> (\E o \in operations : o.task = u /\ o.kind = kind)
        BY <2>1 DEF DevicePerforms
    <2> QED BY <1>1, <2>2 DEF Pending
<1> QED BY <1>2, <1>3, <1>4, <1>5, <1>6

\* A copy to the device writes into the event group of its task, which is waiting
\* for it; the groups in which other tasks' events are or arrive are others.
LEMMA EventCopyKeeps ==
    ASSUME TransferInv, NEW op, DevicePerforms(op), CopyNumPoints(op) \/ CopyPoints(op)
    PROVE  DataInv'
<1> USE DEF TransferInv
<1> DEFINE t == op.task
           g == op.eventGroup
           old == deviceEvents[g]
           new == IF op.kind = "numPointsToDevice" THEN [old EXCEPT !.number = t]
                                                   ELSE [old EXCEPT !.arrays = t]
<1>1. /\ op.kind \in EventCopies
      /\ deviceEvents' = [deviceEvents EXCEPT ![g] = new]
      /\ op \in operations
      /\ UNCHANGED <<vars, dataVars, hostResults, deviceResults, toSubmit, awaited>>
    BY DEF CopyNumPoints, CopyPoints, Performs, EventCopies, DevicePerforms
<1>2. t \in Tasks /\ g \in EventGroups
    BY <1>1, OperationFacts DEF UsesEvent
<1>3. old \in Contents
    BY <1>2 DEF TransferTypeOK
<1>4. /\ new \in Contents
      /\ op.kind = "numPointsToDevice" => new.number = t /\ new.arrays = old.arrays
      /\ op.kind = "pointsToDevice" => new.arrays = t /\ new.number = old.number
    BY <1>2, <1>3 DEF Contents, Sources
<1>5. deviceEvents' \in [EventGroups -> Contents] /\ deviceEvents'[g] = new
      /\ \A h \in EventGroups \ {g} : deviceEvents'[h] = deviceEvents[h]
    <2> HIDE DEF new
    <2> QED BY <1>1, <1>2, <1>4 DEF TransferTypeOK
<1> HIDE DEF new
<1>6. TransferTypeOK'
    BY <1>1, <1>5, DevicePerformsFacts DEF TransferTypeOK, dataVars
<1>7. UNCHANGED <<objects, threads>>
    BY <1>1 DEF vars, taskVars
<1>8. ASSUME ~ SubmitMayThrow PROVE DataArrives'
    <2>1. OperationsAwaited /\ EventsArrive /\ SolutionsArrive /\ GroupsHoldOwnData
        BY <1>8 DEF DataArrives
    <2>2. /\ objects[t].state = "WaitingForEventTransfer" /\ g = objects[t].eventGroup
        BY <1>1, <2>1 DEF OperationsAwaited, KindOf, UsesEvent, EventCopies, ResultCopies
    <2>3. ASSUME NEW u \in Tasks, u # t, objects[u].eventAssigned
          PROVE  deviceEvents'[objects[u].eventGroup] = deviceEvents[objects[u].eventGroup]
        <3>1. objects[u].eventGroup \in EventGroups /\ objects[u].eventGroup # g
            BY <1>2, <2>2, <2>3, HeldInState, HeldGroups
        <3> QED BY <1>5, <3>1
    <2>4. \A u \in Tasks : \A kind :
              u # t \/ kind # op.kind => (Pending(u, kind)' <=> Pending(u, kind))
        BY DevicePerformsFacts
    <2>5. \A u \in Tasks : AtWork(u)' <=> AtWork(u)
        BY DevicePerformsFacts
    <2>6. EventsArrive'
        <3> SUFFICES ASSUME NEW u \in Tasks, objects[u].state = "WaitingForEventTransfer", AtWork(u)
                     PROVE  /\ \/ Pending(u, "numPointsToDevice")'
                               \/ deviceEvents'[objects[u].eventGroup].number = u
                            /\ \/ Pending(u, "pointsToDevice")'
                               \/ deviceEvents'[objects[u].eventGroup].arrays = u
            BY <1>7, <2>5 DEF EventsArrive
        <3>1. /\ \/ Pending(u, "numPointsToDevice")
                 \/ deviceEvents[objects[u].eventGroup].number = u
              /\ \/ Pending(u, "pointsToDevice")
                 \/ deviceEvents[objects[u].eventGroup].arrays = u
            BY <2>1 DEF EventsArrive
        <3>2. CASE u # t
            <4>1. deviceEvents'[objects[u].eventGroup] = deviceEvents[objects[u].eventGroup]
                BY <2>3, <3>2, HeldInState
            <4> QED BY <2>4, <3>1, <3>2, <4>1
        <3>3. CASE u = t /\ op.kind = "numPointsToDevice"
            BY <1>4, <1>5, <2>2, <2>4, <3>1, <3>3
        <3>4. CASE u = t /\ op.kind = "pointsToDevice"
            BY <1>4, <1>5, <2>2, <2>4, <3>1, <3>4
        <3> QED BY <1>1, <3>2, <3>3, <3>4 DEF EventCopies
    <2>7. SolutionsArrive'
        <3>1. \A u \in Tasks : Pending(u, "kernel")' <=> Pending(u, "kernel")
            BY <1>1, <2>4 DEF EventCopies
        <3> QED BY <1>1, <1>7, <2>1, <2>5, <3>1 DEF SolutionsArrive
    <2>8. EventIsOnDevice'
        <3> SUFFICES ASSUME NEW u \in Tasks,
                            objects[u].state \in {"WaitingForExecution", "Executed"}
                     PROVE  deviceEvents'[objects[u].eventGroup] = [number |-> u, arrays |-> u]
            BY <1>7 DEF EventIsOnDevice
        <3>1. u # t /\ objects[u].eventAssigned
            BY <2>2, HeldInState
        <3> QED BY <2>1, <2>3, <3>1 DEF GroupsHoldOwnData, EventIsOnDevice
    <2>9. ResultsAreOwn'
        BY <1>1, <1>7, <2>1 DEF GroupsHoldOwnData, ResultsAreOwn
    <2> QED BY <2>1, <2>6, <2>7, <2>8, <2>9, DevicePerformsFacts DEF DataArrives, GroupsHoldOwnData
<1> QED BY <1>6, <1>8, DevicePerformsFacts DEF DataInv

\* A kernel reads the event of its task, whole, and writes the task's result group.
LEMMA KernelKeeps ==
    ASSUME TransferInv, NEW op, DevicePerforms(op), RunKernel(op)
    PROVE  DataInv'
<1> USE DEF TransferInv
<1> DEFINE t == op.task
           g == op.resultGroup
           solutions == Solutions(deviceEvents[op.eventGroup])
           new == [number |-> solutions, arrays |-> solutions]
<1>1. /\ op.kind = "kernel"
      /\ deviceResults' = [deviceResults EXCEPT ![g] = new]
      /\ op \in operations
      /\ UNCHANGED <<vars, dataVars, hostResults, deviceEvents, toSubmit, awaited>>
    BY DEF RunKernel, Performs, DevicePerforms
<1>2. t \in Tasks /\ g \in ResultGroups /\ op.eventGroup \in EventGroups
    BY <1>1, OperationFacts DEF UsesEvent, UsesResult
<1>3. deviceEvents[op.eventGroup] \in Contents
    BY <1>2 DEF TransferTypeOK
<1>4. solutions \in Sources
    BY <1>3 DEF Solutions, Contents, Sources
<1> HIDE DEF solutions
<1>5. new \in Contents
    BY <1>4 DEF Contents
<1>6. /\ deviceResults' \in [ResultGroups -> Contents] /\ deviceResults'[g] = new
      /\ \A h \in ResultGroups \ {g} : deviceResults'[h] = deviceResults[h]
    <2> HIDE DEF new
    <2> QED BY <1>1, <1>2, <1>5 DEF TransferTypeOK
<1>7. TransferTypeOK'
    BY <1>1, <1>6, DevicePerformsFacts DEF TransferTypeOK, dataVars
<1>8. UNCHANGED <<objects, threads>>
    BY <1>1 DEF vars, taskVars
<1>9. ASSUME ~ SubmitMayThrow PROVE DataArrives'
    <2>1. OperationsAwaited /\ EventsArrive /\ SolutionsArrive /\ GroupsHoldOwnData
        BY <1>9 DEF DataArrives
    <2>2. /\ objects[t].state = "WaitingForExecution"
          /\ op.eventGroup = objects[t].eventGroup /\ g = objects[t].resultGroup
        BY <1>1, <2>1
        DEF OperationsAwaited, KindOf, UsesEvent, UsesResult, EventCopies, ResultCopies
    <2>3. solutions = t
        <3>1. deviceEvents[op.eventGroup] = [number |-> t, arrays |-> t]
            BY <1>2, <2>1, <2>2 DEF GroupsHoldOwnData, EventIsOnDevice
        <3>2. Solutions([number |-> t, arrays |-> t]) = t
            BY DEF Solutions
        <3> QED BY <3>1, <3>2 DEF solutions
    <2>4. ASSUME NEW u \in Tasks, u # t, objects[u].resultAssigned
          PROVE  deviceResults'[objects[u].resultGroup] = deviceResults[objects[u].resultGroup]
        <3>1. objects[u].resultGroup \in ResultGroups /\ objects[u].resultGroup # g
            BY <1>2, <2>2, <2>4, HeldInState, HeldGroups
        <3> QED BY <1>6, <3>1
    <2>5. \A u \in Tasks : \A kind :
              u # t \/ kind # op.kind => (Pending(u, kind)' <=> Pending(u, kind))
        BY DevicePerformsFacts
    <2>6. \A u \in Tasks : AtWork(u)' <=> AtWork(u)
        BY DevicePerformsFacts
    <2>7. EventsArrive'
        <3>1. \A u \in Tasks : \A kind \in EventCopies : Pending(u, kind)' <=> Pending(u, kind)
            BY <1>1, <2>5 DEF EventCopies
        <3> QED BY <1>1, <1>8, <2>1, <2>6, <3>1 DEF EventsArrive, EventCopies
    <2>8. SolutionsArrive'
        <3> SUFFICES ASSUME NEW u \in Tasks, objects[u].state = "WaitingForExecution", AtWork(u)
                     PROVE  \/ Pending(u, "kernel")'
                            \/ deviceResults'[objects[u].resultGroup]
                                   = [number |-> u, arrays |-> u]
            BY <1>8, <2>6 DEF SolutionsArrive
        <3>1. CASE u = t
            BY <1>6, <2>2, <2>3, <3>1
        <3>2. CASE u # t
            <4>1. deviceResults'[objects[u].resultGroup] = deviceResults[objects[u].resultGroup]
                BY <2>4, <3>2, HeldInState
            <4> QED BY <2>1, <2>5, <3>2, <4>1 DEF SolutionsArrive
        <3> QED BY <3>1, <3>2
    <2>9. EventIsOnDevice'
        BY <1>1, <1>8, <2>1 DEF GroupsHoldOwnData, EventIsOnDevice
    <2>10. ResultsAreOwn'
        <3> SUFFICES ASSUME NEW u \in Tasks,
                            objects[u].state \in {"Executed", "WaitingForResultTransfer",
                                                  "ResultTransferred"}
                     PROVE  deviceResults'[objects[u].resultGroup] = [number |-> u, arrays |-> u]
            BY <1>8 DEF ResultsAreOwn
        <3>1. u # t /\ objects[u].resultAssigned
            BY <2>2, HeldInState
        <3> QED BY <2>1, <2>4, <3>1 DEF GroupsHoldOwnData, ResultsAreOwn
    <2> QED BY <2>1, <2>7, <2>8, <2>9, <2>10, DevicePerformsFacts DEF DataArrives, GroupsHoldOwnData
<1> QED BY <1>7, <1>9, DevicePerformsFacts DEF DataInv

\* A copy to the host only reads on the device.
LEMMA ResultCopyKeeps ==
    ASSUME TransferInv, NEW op, DevicePerforms(op), CopyNumSolutions(op) \/ CopySolutions(op)
    PROVE  DataInv'
<1> USE DEF TransferInv
<1> DEFINE t == op.task
           from == deviceResults[op.resultGroup]
           old == hostResults[t]
           new == IF op.kind = "numSolutionsToHost" THEN [old EXCEPT !.number = from.number]
                                                    ELSE [old EXCEPT !.arrays = from.arrays]
<1>1. /\ op.kind \in ResultCopies
      /\ hostResults' = [hostResults EXCEPT ![t] = new]
      /\ op \in operations
      /\ UNCHANGED <<vars, dataVars, deviceEvents, deviceResults, toSubmit, awaited>>
    BY DEF CopyNumSolutions, CopySolutions, Performs, ResultCopies, DevicePerforms
<1>2. t \in Tasks /\ op.resultGroup \in ResultGroups
    BY <1>1, OperationFacts DEF UsesResult
<1>3. old \in Contents /\ from \in Contents
    BY <1>2 DEF TransferTypeOK
<1>4. new \in Contents
    BY <1>3 DEF Contents
<1> HIDE DEF new
<1>5. hostResults' \in [Tasks -> Contents]
    BY <1>1, <1>4 DEF TransferTypeOK
<1>6. TransferTypeOK'
    BY <1>1, <1>5, DevicePerformsFacts DEF TransferTypeOK, dataVars
<1>7. UNCHANGED <<objects, threads>>
    BY <1>1 DEF vars, taskVars
<1>8. ASSUME ~ SubmitMayThrow PROVE DataArrives'
    <2>1. OperationsAwaited /\ EventsArrive /\ SolutionsArrive /\ GroupsHoldOwnData
        BY <1>8 DEF DataArrives
    <2>2. \A u \in Tasks : \A kind \in UsesEvent : Pending(u, kind)' <=> Pending(u, kind)
        BY <1>1, DevicePerformsFacts DEF UsesEvent, EventCopies, ResultCopies
    <2>3. \A u \in Tasks : AtWork(u)' <=> AtWork(u)
        BY DevicePerformsFacts
    <2> QED BY <1>1, <1>7, <2>1, <2>2, <2>3, StillArrives, DevicePerformsFacts DEF DataArrives
<1> QED BY <1>6, <1>8, DevicePerformsFacts DEF DataInv

\* The device keeps the invariant whatever it performs.
LEMMA DeviceKeepsData ==
    ASSUME TransferInv, DeviceStep
    PROVE  DataInv'
<1>1. PICK op \in operations : \/ CopyNumPoints(op)
                               \/ CopyPoints(op)
                               \/ RunKernel(op)
                               \/ CopyNumSolutions(op)
                               \/ CopySolutions(op)
    BY DEF DeviceStep
<1>2. DevicePerforms(op)
    BY <1>1 DEF DeviceStep, DevicePerforms, CopyNumPoints, CopyPoints, RunKernel,
                CopyNumSolutions, CopySolutions, Performs
<1> QED BY <1>1, <1>2, EventCopyKeeps, KernelKeeps, ResultCopyKeeps

-----------------------------------------------------------------------------
(* The invariant of the specification.                                     *)

\* It holds before anything has been taken or submitted.
LEMMA InitTransferInv == TransferInit => TransferInv
<1> SUFFICES ASSUME TransferInit PROVE TransferInv
    OBVIOUS
<1>1. Init /\ IInv
    BY InitIInv DEF TransferInit
<1>2. \A t \in Tasks : objects[t] = NewTask /\ threads[t] = "none" /\ toSubmit[t] = <<>>
    BY <1>1 DEF Init, TransferInit
<1>3. Unwritten \in Contents
    BY DEF Unwritten, Contents, Sources
<1>4. /\ Data!NewData("EventUsm") \in DataObjects("EventUsm", EventGroups)
      /\ Data!NewData("ResultUsm") \in DataObjects("ResultUsm", ResultGroups)
      /\ Data!NewData("EventUsm").borrowed = FALSE
      /\ Data!NewData("ResultUsm").borrowed = FALSE
    BY DEF Data!NewData, DataObjects
<1>5. TransferTypeOK
    <2>1. <<>> \in Seq(Kinds)
        OBVIOUS
    <2> QED BY <1>3, <1>4, <2>1 DEF TransferInit, TransferTypeOK
<1>6. DataFollowTasks
    BY <1>2, <1>4 DEF TransferInit, DataFollowTasks, Borrows, NewTask
<1>7. SubmitsInState
    BY <1>2, EmptyFacts DEF SubmitsInState
<1>8. DataArrives
    BY <1>2 DEF TransferInit, DataArrives, OperationsAwaited, EventsArrive, SolutionsArrive, AtWork,
                GroupsHoldOwnData, EventIsOnDevice, ResultsAreOwn, NewTask
<1> QED BY <1>1, <1>5, <1>6, <1>7, <1>8 DEF TransferInv

\* Nothing changes while nothing happens.
LEMMA StandingStill ==
    ASSUME TransferInv, UNCHANGED transferVars
    PROVE  DataInv'
    BY DEF TransferInv, DataInv, transferVars, vars, taskVars, dataVars, contentVars, submitVars,
           TransferTypeOK, DataFollowTasks, Borrows, SubmitsInState, DataArrives,
           OperationsAwaited, EventsArrive, SolutionsArrive, GroupsHoldOwnData, EventIsOnDevice,
           ResultsAreOwn, AtWork, Pending

\* The inductive invariant is one.
LEMMA TransferInvariantHolds == TransferSpec => []TransferInv
<1>1. TransferInit => TransferInv
    BY InitTransferInv
<1>2. TransferInv /\ [TransferNext]_transferVars => TransferInv'
    <2> SUFFICES ASSUME TransferInv, [TransferNext]_transferVars PROVE TransferInv'
        OBVIOUS
    <2>1. IInv'
        BY StepOfTheWorker, EveryStepSound DEF TransferInv, Sound
    <2>2. ASSUME HostStep PROVE DataInv'
        BY <2>1, <2>2, HostKeepsData
    <2>3. ASSUME NEW t \in Tasks, ThreadStep(t) PROVE DataInv'
        BY <2>3, ThreadKeepsData
    <2>4. ASSUME DeviceStep PROVE DataInv'
        BY <2>4, DeviceKeepsData
    <2>5. ASSUME UNCHANGED transferVars PROVE DataInv'
        BY <2>5, StandingStill
    <2>6. TransferTerminated => UNCHANGED transferVars
        BY DEF TransferTerminated, Terminated, transferVars
    <2>7. DataInv'
        BY <2>2, <2>3, <2>4, <2>5, <2>6 DEF TransferNext
    <2> QED BY <2>1, <2>7 DEF DataInv, TransferInv
<1> QED BY <1>1, <1>2, PTL DEF TransferSpec

-----------------------------------------------------------------------------
(* What it means for the tasks and their data.                             *)

\* Every EventUsm and ResultUsm borrows the groups its task holds, no more and no
\* less, and has no memory of its own, whether or not a copy throws: so the returns
\* of their methods, which TaskUsm ignores, are all true.
THEOREM BorrowsWhatTheTaskHolds == TransferSpec => [](TransferTypeOK /\ DataFollowTasks)
<1>1. TransferInv => TransferTypeOK /\ DataFollowTasks
    BY DEF TransferInv
<1> QED BY <1>1, TransferInvariantHolds, PTL

\* When no copy throws, a task's event is on the device, whole and its own, from the
\* end of its transfer until its group is returned, and so are its solutions from
\* the execution on, whichever tasks used the groups before.
THEOREM GroupsAlwaysHoldOwnData == ~ SubmitMayThrow => (TransferSpec => []GroupsHoldOwnData)
<1> SUFFICES ASSUME ~ SubmitMayThrow PROVE TransferSpec => []GroupsHoldOwnData
    OBVIOUS
<1>1. TransferInv => GroupsHoldOwnData
    BY DEF TransferInv, DataArrives
<1> QED BY <1>1, TransferInvariantHolds, PTL

\* When no copy throws, no operation outlives the loan of a group it uses: what the
\* device still has to do for a task, it does in groups the task holds.
THEOREM NothingEverOutlivesTheLoan ==
    ~ SubmitMayThrow => (TransferSpec => []NothingOutlivesTheLoan)
<1> SUFFICES ASSUME ~ SubmitMayThrow PROVE TransferSpec => []NothingOutlivesTheLoan
    OBVIOUS
<1>1. TransferInv => NothingOutlivesTheLoan
    <2> SUFFICES ASSUME TransferInv, NEW op \in operations
                 PROVE  /\ op.kind \in UsesEvent => /\ objects[op.task].eventAssigned
                                                    /\ objects[op.task].eventGroup = op.eventGroup
                        /\ op.kind \in UsesResult =>
                               /\ objects[op.task].resultAssigned
                               /\ objects[op.task].resultGroup = op.resultGroup
        BY DEF NothingOutlivesTheLoan, UsesEvent, UsesResult, EventCopies, ResultCopies
    <2>1. op.task \in Tasks /\ OperationsAwaited /\ IInv
        BY OperationFacts DEF TransferInv, DataArrives
    <2>2. /\ KindOf(op.kind, objects[op.task].state)
          /\ op.kind \in UsesEvent => op.eventGroup = objects[op.task].eventGroup
          /\ op.kind \in UsesResult => op.resultGroup = objects[op.task].resultGroup
        BY <2>1 DEF OperationsAwaited
    <2>3. /\ op.kind \in UsesEvent => objects[op.task].eventAssigned
          /\ op.kind \in UsesResult => objects[op.task].resultAssigned
        BY <2>1, <2>2, HeldInState DEF KindOf, UsesEvent, UsesResult, EventCopies, ResultCopies
    <2> QED BY <2>2, <2>3
<1> QED BY <1>1, TransferInvariantHolds, PTL
=============================================================================
