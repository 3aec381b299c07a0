------------------------------ MODULE WorkerUsm ------------------------------
(***************************************************************************)
(* WorkerUsm (application/experimental/usm/src/WorkerUsm.cpp) with its     *)
(* tasks and its queue.  One host thread submits tasks and calls           *)
(* processTasks over and over; every device operation of a task runs in a  *)
(* detached thread of its own that, when the device has finished, sets the *)
(* task's next state and puts its id in tasksWithChangedState_.            *)
(*                                                                         *)
(* A task's thread is at: "none" (there is none), "checkout" (it waits for *)
(* the queue's mutex), "submit" (it holds the mutex and submits), "wait"   *)
(* (it waits for the device), "set" (isStateChanging_ is false, state_ not *)
(* yet set) or "notify" (state_ is set, the observer not yet told).        *)
(***************************************************************************)
EXTENDS TaskUsm, FiniteSets, Functions

CONSTANTS
    Tasks,  \* task ids
    NoTask  \* processTasks has no task in its hands

ASSUME TasksAssumption == IsFiniteSet(Tasks) /\ NoTask \notin Tasks /\ Nobody \notin Tasks

VARIABLES
    objects,                \* the ITask object of each id
    threads,                \* where the task's thread is
    tasks,                  \* ids of tasks_, the tasks the worker owns
    completed,              \* ids handed to the controller's onTaskCompleted
    tasksWithChangedState,
    tasksToProcess,
    notProcessedTasks,
    processing,             \* the host is inside processTasks
    current                 \* the id popped from tasksToProcess_

taskVars == <<objects, threads>>
sweepVars == <<tasksToProcess, notProcessedTasks, processing, current>>
workerVars == <<tasks, completed, tasksWithChangedState, sweepVars>>
vars == <<queueVars, taskVars, workerVars>>

Init ==
    /\ QueueInit
    /\ objects = [t \in Tasks |-> NewTask]
    /\ threads = [t \in Tasks |-> "none"]
    /\ tasks = {}
    /\ completed = {}
    /\ tasksWithChangedState = {}
    /\ tasksToProcess = <<>>
    /\ notProcessedTasks = <<>>
    /\ processing = FALSE
    /\ current = NoTask

\* The object of t becomes after, and setState tells onTaskStateChange, which
\* inserts the id in the set.
BecomesNotifying(t, after) ==
    /\ objects' = [objects EXCEPT ![t] = after]
    /\ tasksWithChangedState' = IF Notifies(objects[t], after)
                                THEN tasksWithChangedState \cup {t}
                                ELSE tasksWithChangedState

-----------------------------------------------------------------------------
(* The client, on the host thread between two calls of processTasks.       *)

\* A task that is nobody's yet has no observer.
GiveEventAndResult(t) ==
    /\ ~ processing
    /\ objects[t].state = "Created"
    /\ objects' = [objects EXCEPT ![t] = TakeEventAndResult(@)]
    /\ UNCHANGED <<queueVars, threads, workerVars>>

\* submitTask; a null task, a task in another state and a known id are refused.
SubmitTask(t) ==
    /\ ~ processing
    /\ objects[t].state = "EventAndResultAssigned"
    /\ t \notin tasks
    /\ tasks' = tasks \cup {t}
    /\ BecomesNotifying(t, OnAssignedToWorker(objects[t]))
    /\ UNCHANGED <<queueVars, threads, completed, sweepVars>>

-----------------------------------------------------------------------------
(* processTasks.                                                           *)

\* The orders in which an unordered_set may be iterated.
Orders(S) == {s \in [1 .. Cardinality(S) -> S] : IsInjective(s) /\ Range(s) = S}

\* Mutant: the set is not cleared.
BeginSweepKeepingSet ==
    /\ ~ processing
    /\ tasks # {}
    /\ \E s \in Orders(tasksWithChangedState) : tasksToProcess' = tasksToProcess \o s
    /\ processing' = TRUE
    /\ UNCHANGED <<queueVars, taskVars, tasks, completed, tasksWithChangedState,
                   notProcessedTasks, current>>

\* The scope of tasksWithChangedStateMutex_.  The client calls processTasks
\* while getNumberOfTasks() > 0.
BeginSweep ==
    /\ ~ processing
    /\ tasks # {}
    /\ \E s \in Orders(tasksWithChangedState) : tasksToProcess' = tasksToProcess \o s
    /\ tasksWithChangedState' = {}
    /\ processing' = TRUE
    /\ UNCHANGED <<queueVars, taskVars, tasks, completed, notProcessedTasks, current>>

\* A task whose state is changing, or that was never submitted, is logged and
\* dropped.
Dropped(task) ==
    task.changing \/ task.state \in {"Created", "EventAndResultAssigned"}

PopTask ==
    /\ processing
    /\ current = NoTask
    /\ tasksToProcess # <<>>
    /\ LET t == Head(tasksToProcess)
       IN  current' = IF Dropped(objects[t]) THEN NoTask ELSE t
    /\ tasksToProcess' = Tail(tasksToProcess)
    /\ UNCHANGED <<queueVars, taskVars, tasks, completed, tasksWithChangedState,
                   notProcessedTasks, processing>>

\* Mutant: the tasks not processed are forgotten.
EndSweepForgetting ==
    /\ processing
    /\ current = NoTask
    /\ tasksToProcess = <<>>
    /\ notProcessedTasks' = <<>>
    /\ processing' = FALSE
    /\ UNCHANGED <<queueVars, taskVars, tasks, completed, tasksWithChangedState,
                   tasksToProcess, current>>

EndSweep ==
    /\ processing
    /\ current = NoTask
    /\ tasksToProcess = <<>>
    /\ tasksToProcess' = notProcessedTasks
    /\ notProcessedTasks' = <<>>
    /\ processing' = FALSE
    /\ UNCHANGED <<queueVars, taskVars, tasks, completed, tasksWithChangedState, current>>

\* The handler of the current task, chosen by its state.
Handling(t, state) ==
    /\ current = t
    /\ objects[t].state = state

\* What processTasks does with the handler's result.
HandlerReturns(t, processed) ==
    /\ current' = NoTask
    /\ notProcessedTasks' = IF processed THEN notProcessedTasks
                                         ELSE Append(notProcessedTasks, t)
    /\ UNCHANGED <<tasksToProcess, processing>>

\* handleTaskReadyToQueue.
RefuseQueueFull(t) ==
    /\ Handling(t, "ReadyToQueue")
    /\ workLoad = WorkCapacity
    /\ HandlerReturns(t, FALSE)
    /\ UNCHANGED <<queueVars, taskVars, tasks, completed, tasksWithChangedState>>

\* Mutant: the capacity is not looked at.
QueueTaskAlways(t) ==
    /\ Handling(t, "ReadyToQueue")
    /\ IncrementWorkLoad
    /\ BecomesNotifying(t, AssignQueue(objects[t]))
    /\ HandlerReturns(t, TRUE)
    /\ UNCHANGED <<eventPoolVars, resultPoolVars, syclQueueOwner, threads, tasks, completed>>

QueueTask(t) ==
    /\ Handling(t, "ReadyToQueue")
    /\ workLoad # WorkCapacity
    /\ IncrementWorkLoad
    /\ BecomesNotifying(t, AssignQueue(objects[t]))
    /\ HandlerReturns(t, TRUE)
    /\ UNCHANGED <<eventPoolVars, resultPoolVars, syclQueueOwner, threads, tasks, completed>>

\* handleTaskWaitingForResources: takes what is missing and free, event
\* resources first, and keeps what it has while the rest is not free.
HandleWaitingForResources(t) ==
    /\ Handling(t, "WaitingForResources")
    /\ LET task == objects[t]
           eventFree == eventResourcesLoad # EventCapacity
           resultFree == resultResourcesLoad # ResultCapacity
           takeEvent == ~ task.eventAssigned /\ eventFree
           takeResult == ~ task.resultAssigned /\ resultFree
           withEvent == IF takeEvent THEN TakeEventResources(task, NextEventGroup) ELSE task
           withBoth == IF takeResult THEN TakeResultResources(withEvent, NextResultGroup)
                                     ELSE withEvent
       IN  /\ IF takeEvent THEN GetEventResourceGroup ELSE UNCHANGED eventPoolVars
           /\ IF takeResult THEN GetResultResourceGroup ELSE UNCHANGED resultPoolVars
           /\ BecomesNotifying(t, withBoth)
           /\ HandlerReturns(t, /\ task.eventAssigned \/ eventFree
                                /\ task.resultAssigned \/ resultFree)
    /\ UNCHANGED <<workLoad, syclQueueOwner, threads, tasks, completed>>

\* Mutant: isStateChanging_ is set by the thread, later, and the handler asks to
\* see the task again.
StartThreadUnprocessed(t) ==
    /\ current = t
    /\ objects[t].state \in ThreadStates
    /\ objects' = [objects EXCEPT ![t] = BeginStateChange(@)]
    /\ threads' = [threads EXCEPT ![t] = "checkout"]
    /\ HandlerReturns(t, FALSE)
    /\ UNCHANGED <<queueVars, tasks, completed, tasksWithChangedState>>

\* handleTaskWaitingForEventTransfer, handleTaskWaitingForExecution and
\* handleTaskWaitingForResultTransfer.
StartThread(t) ==
    /\ current = t
    /\ objects[t].state \in ThreadStates
    /\ objects' = [objects EXCEPT ![t] = BeginStateChange(@)]
    /\ threads' = [threads EXCEPT ![t] = "checkout"]
    /\ HandlerReturns(t, TRUE)
    /\ UNCHANGED <<queueVars, tasks, completed, tasksWithChangedState>>

HandleExecuted(t) ==
    /\ Handling(t, "Executed")
    /\ BecomesNotifying(t, ReleaseEventResourceGroup(objects[t]))
    /\ ReturnEventResourceGroup(objects[t].eventGroup)
    /\ HandlerReturns(t, TRUE)
    /\ UNCHANGED <<resultPoolVars, workLoad, syclQueueOwner, threads, tasks, completed>>

\* Mutant: the result group is returned under the id of the event group.
HandleResultTransferredWrongGroup(t) ==
    /\ Handling(t, "ResultTransferred")
    /\ BecomesNotifying(t, ReleaseResultResourceGroup(objects[t]))
    /\ ReturnResultResourceGroup(objects[t].eventGroup)
    /\ HandlerReturns(t, TRUE)
    /\ UNCHANGED <<eventPoolVars, workLoad, syclQueueOwner, threads, tasks, completed>>

HandleResultTransferred(t) ==
    /\ Handling(t, "ResultTransferred")
    /\ BecomesNotifying(t, ReleaseResultResourceGroup(objects[t]))
    /\ ReturnResultResourceGroup(objects[t].resultGroup)
    /\ HandlerReturns(t, TRUE)
    /\ UNCHANGED <<eventPoolVars, workLoad, syclQueueOwner, threads, tasks, completed>>

\* The controller owns the task from now on.
OnTaskCompleted(t) == completed' = completed \cup {t}

\* Mutant: the work load is not decremented.
HandleCompletedKeepingLoad(t) ==
    /\ Handling(t, "Completed")
    /\ tasks' = tasks \ {t}
    /\ OnTaskCompleted(t)
    /\ HandlerReturns(t, TRUE)
    /\ UNCHANGED <<queueVars, taskVars, tasksWithChangedState>>

HandleCompleted(t) ==
    /\ Handling(t, "Completed")
    /\ DecrementWorkLoad
    /\ tasks' = tasks \ {t}
    /\ OnTaskCompleted(t)
    /\ HandlerReturns(t, TRUE)
    /\ UNCHANGED <<eventPoolVars, resultPoolVars, syclQueueOwner, taskVars,
                   tasksWithChangedState>>

-----------------------------------------------------------------------------
(* The thread of task t.                                                   *)

ThreadCheckout(t) ==
    /\ threads[t] = "checkout"
    /\ CheckoutQueue(t)
    /\ threads' = [threads EXCEPT ![t] = "submit"]
    /\ UNCHANGED <<eventPoolVars, resultPoolVars, workLoad, objects, workerVars>>

ThreadCheckin(t) ==
    /\ threads[t] = "submit"
    /\ CheckinQueue
    /\ threads' = [threads EXCEPT ![t] = "wait"]
    /\ UNCHANGED <<eventPoolVars, resultPoolVars, workLoad, objects, workerVars>>

\* Every wait() has returned.
ThreadDeviceDone(t) ==
    /\ threads[t] = "wait"
    /\ objects' = [objects EXCEPT ![t] = EndStateChange(@)]
    /\ threads' = [threads EXCEPT ![t] = "set"]
    /\ UNCHANGED <<queueVars, workerVars>>

ThreadSetState(t) ==
    /\ threads[t] = "set"
    /\ objects' = [objects EXCEPT ![t] = SetState(@, StateAfterThread(@))]
    /\ threads' = [threads EXCEPT ![t] = "notify"]
    /\ UNCHANGED <<queueVars, workerVars>>

\* onTaskStateChange, under tasksWithChangedStateMutex_.
ThreadNotify(t) ==
    /\ threads[t] = "notify"
    /\ tasksWithChangedState' = tasksWithChangedState \cup {t}
    /\ threads' = [threads EXCEPT ![t] = "none"]
    /\ UNCHANGED <<queueVars, objects, tasks, completed, sweepVars>>

-----------------------------------------------------------------------------
Handle(t) ==
    \/ RefuseQueueFull(t)
    \/ QueueTask(t)
    \/ HandleWaitingForResources(t)
    \/ StartThread(t)
    \/ HandleExecuted(t)
    \/ HandleResultTransferred(t)
    \/ HandleCompleted(t)

ProcessTasks ==
    \/ BeginSweep
    \/ PopTask
    \/ \E t \in Tasks : Handle(t)
    \/ EndSweep

Thread(t) ==
    \/ ThreadCheckout(t)
    \/ ThreadCheckin(t)
    \/ ThreadDeviceDone(t)
    \/ ThreadSetState(t)
    \/ ThreadNotify(t)

\* Every task the client has is done and the client's loop has ended.
Terminated ==
    /\ completed = Tasks
    /\ ~ processing
    /\ UNCHANGED vars

Next ==
    \/ \E t \in Tasks : GiveEventAndResult(t) \/ SubmitTask(t)
    \/ ProcessTasks
    \/ \E t \in Tasks : Thread(t)
    \/ Terminated

Spec == Init /\ [][Next]_vars

\* The client's loop keeps calling processTasks; every thread runs, so every
\* device operation ends.
FairSpec ==
    /\ Spec
    /\ WF_vars(ProcessTasks)
    /\ \A t \in Tasks : WF_vars(Thread(t))

-----------------------------------------------------------------------------
(* Safety.                                                                 *)

ThreadPlaces == {"none", "checkout", "submit", "wait", "set", "notify"}

TypeOK ==
    /\ freeEventResources \in Seq(EventGroups)
    /\ eventResourcesLoad \in Capacities
    /\ freeResultResources \in Seq(ResultGroups)
    /\ resultResourcesLoad \in Capacities
    /\ workLoad \in Capacities
    /\ syclQueueOwner \in Tasks \cup {Nobody}
    /\ objects \in [Tasks -> TaskObjects]
    /\ threads \in [Tasks -> ThreadPlaces]
    /\ tasks \in SUBSET Tasks
    /\ completed \in SUBSET Tasks
    /\ tasksWithChangedState \in SUBSET Tasks
    /\ tasksToProcess \in Seq(Tasks)
    /\ notProcessedTasks \in Seq(Tasks)
    /\ processing \in BOOLEAN
    /\ current \in Tasks \cup {NoTask}

\* The places from which something will still happen to task t.
Places(t) ==
    {p \in {"changed", "toProcess", "notProcessed", "current", "thread"} :
        CASE p = "changed"      -> t \in tasksWithChangedState
          [] p = "toProcess"    -> t \in Range(tasksToProcess)
          [] p = "notProcessed" -> t \in Range(notProcessedTasks)
          [] p = "current"      -> current = t
          [] p = "thread"       -> threads[t] # "none"}

\* A task the worker owns is always on its way somewhere: no interleaving of
\* processTasks with the threads' notifications makes the worker forget it.
NoTaskForgotten == \A t \in tasks : Places(t) # {}

\* It is in one place at a time, and only there once: the worker never handles
\* one state of a task twice, nor while a thread still works on the task.
NoTaskTwice ==
    /\ \A t \in Tasks : \A p, q \in Places(t) : p = q
    /\ IsInjective(tasksToProcess)
    /\ IsInjective(notProcessedTasks)

\* So every task the worker owns is handled once for each of its changes.
TasksAccountedFor == NoTaskForgotten /\ NoTaskTwice

\* ITask: "Indicates whether state changing operation is in progress. If true,
\* task should not be manipulated."  The task in the worker's hands has no
\* operation in progress, from the moment it is popped to the handler's end.
NotManipulatedWhileChanging ==
    \A t \in Tasks : current = t => ~ objects[t].changing /\ threads[t] = "none"

\* processTasks takes the task of an id with tasks_[id], which would create a null
\* task for an id the worker no longer owns and dereference it: no id is waiting
\* anywhere once its task has been handed back.
OnlyOwnedTasksMove == \A t \in Tasks : Places(t) # {} => t \in tasks

\* TaskUsm: "Only one state change allowed between calls to onTaskStateChange": a
\* task whose last change is still in the set does not change again.
KeepsUnseenChanges ==
    \A t \in Tasks : t \in tasksWithChangedState /\ t \in tasksWithChangedState'
                        => objects'[t].state = objects[t].state

OneChangePerNotification == [][KeepsUnseenChanges]_vars

\* A group is lent to one task at a time, and never the null group.
HoldersOfEvent == {t \in Tasks : objects[t].eventAssigned}
HoldersOfResult == {t \in Tasks : objects[t].resultAssigned}

GroupsNotShared ==
    /\ \A t \in HoldersOfEvent :
          /\ objects[t].eventGroup \in EventGroups \ Range(freeEventResources)
          /\ \A u \in HoldersOfEvent : objects[t].eventGroup = objects[u].eventGroup => t = u
    /\ \A t \in HoldersOfResult :
          /\ objects[t].resultGroup \in ResultGroups \ Range(freeResultResources)
          /\ \A u \in HoldersOfResult : objects[t].resultGroup = objects[u].resultGroup => t = u

\* Every group is free or lent, the free ones are each in the pool once, and the
\* load the worker compares with the capacity agrees with the pool it guards.
NoGroupLost ==
    /\ IsInjective(freeEventResources)
    /\ EventGroups = Range(freeEventResources)
                         \cup {objects[t].eventGroup : t \in HoldersOfEvent}
    /\ eventResourcesLoad + Len(freeEventResources) = EventCapacity
    /\ IsInjective(freeResultResources)
    /\ ResultGroups = Range(freeResultResources)
                         \cup {objects[t].resultGroup : t \in HoldersOfResult}
    /\ resultResourcesLoad + Len(freeResultResources) = ResultCapacity

\* While a thread of the task uses the device, the task holds the groups the
\* device reads and writes.
DeviceUsesHeldGroups ==
    \A t \in Tasks : threads[t] \in {"checkout", "submit", "wait"} =>
        /\ objects[t].resultAssigned
        /\ objects[t].state # "WaitingForResultTransfer" => objects[t].eventAssigned

\* The work load is the number of tasks between assignQueue and completion, and
\* stays within the capacity.
Queued == {t \in tasks : objects[t].state # "ReadyToQueue"}

WorkLoadIsQueued ==
    workLoad = Cardinality(Queued) /\ workLoad <= WorkCapacity

\* So the queue's pools and counters agree with what the tasks hold: each group is
\* lent to one task at a time and comes back, each limit is tested against a true number.
ResourcesAccountedFor == GroupsNotShared /\ NoGroupLost /\ WorkLoadIsQueued

-----------------------------------------------------------------------------
(* Progress.                                                               *)

\* Every task submitted is handed to the controller.
EveryTaskCompletes == \A t \in Tasks : t \in tasks ~> t \in completed

\* What the worker promises its client, with the queue's work capacity.
Promise == INSTANCE DeviceQueue WITH
    Capacity <- WorkCapacity,
    waiting  <- tasks \ Queued,
    inQueue  <- Queued

ImplementsDeviceQueue == Promise!FairSpec

\* IQueue: "Resource group has to be returned with returnEventResourceGroup."
EventGroupReturned ==
    \A t \in Tasks : objects[t].eventAssigned ~> ~ objects[t].eventAssigned

=============================================================================
