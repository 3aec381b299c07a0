----------------------------- MODULE TransferUsm -----------------------------
(***************************************************************************)
(* WorkerUsm with the data: the host arrays of each task's EventUsm and    *)
(* ResultUsm, the device arrays of the resource groups, and the copies and *)
(* kernels that the tasks' threads submit, which the device performs in    *)
(* any order.                                                              *)
(*                                                                         *)
(* Data is told apart by where it comes from: a number of points (or of    *)
(* solutions) and the arrays it counts are each the task they belong to,   *)
(* Nobody if they were never written, or Mixed if a kernel computed them   *)
(* from a number and points of different tasks.  The arrays of an event    *)
(* (Xs, Ys, Zs, Layers) are copied alike and are one here.                 *)
(***************************************************************************)
EXTENDS WorkerUsm

CONSTANTS
    Mixed,          \* computed from data of several tasks
    Queue,          \* the SYCL queue
    NoQueue,
    NoMemory,
    SubmitMayThrow  \* memcpy may throw a sycl::exception

ASSUME TransferAssumption == SubmitMayThrow \in BOOLEAN /\ Mixed \notin Tasks \cup {Nobody}

Data == INSTANCE DataUsm

VARIABLES
    events,         \* the EventUsm of each task
    results,        \* its ResultUsm
    hostResults,    \* the host arrays of its ResultUsm
    deviceEvents,   \* the arrays of each event group
    deviceResults,  \* the arrays of each result group
    operations,     \* submitted to the device and not yet performed
    toSubmit,       \* what the task's thread has still to submit
    awaited         \* the SYCL events the thread holds

dataVars == <<events, results>>
contentVars == <<hostResults, deviceEvents, deviceResults>>
submitVars == <<operations, toSubmit, awaited>>
transferVars == <<vars, dataVars, contentVars, submitVars>>

Unwritten == [number |-> Nobody, arrays |-> Nobody]

TransferInit ==
    /\ Init
    /\ events = [t \in Tasks |-> Data!NewData("EventUsm")]
    /\ results = [t \in Tasks |-> Data!NewData("ResultUsm")]
    /\ hostResults = [t \in Tasks |-> Unwritten]
    /\ deviceEvents = [g \in EventGroups |-> Unwritten]
    /\ deviceResults = [g \in ResultGroups |-> Unwritten]
    /\ operations = {}
    /\ toSubmit = [t \in Tasks |-> <<>>]
    /\ awaited = [t \in Tasks |-> {}]

-----------------------------------------------------------------------------
(* What the handlers do to the EventUsm and the ResultUsm.                 *)

\* object after the step in which its task takes or releases a group.
Follow(object, before, after, group) ==
    IF ~ before /\ after /\ Data!MayTakeResourceGroup(object)
    THEN Data!TakeResourceGroup(object, group, Queue)
    ELSE IF before /\ ~ after /\ Data!MayReleaseResourceGroup(object)
    THEN Data!ReleaseResourceGroup(object)
    ELSE object

\* takeEventResources, takeResultResources, releaseEventResourceGroup and
\* releaseResultResourceGroup, in the handler of task t.
FollowTask ==
    /\ events' = [t \in Tasks |->
          Follow(events[t], objects[t].eventAssigned, objects'[t].eventAssigned,
                 objects'[t].eventGroup)]
    /\ results' = [t \in Tasks |->
          Follow(results[t], objects[t].resultAssigned, objects'[t].resultAssigned,
                 objects'[t].resultGroup)]

\* Everything the host thread does.
HostStep ==
    /\ \/ \E t \in Tasks : GiveEventAndResult(t) \/ SubmitTask(t)
       \/ ProcessTasks
    /\ FollowTask
    /\ UNCHANGED <<contentVars, submitVars>>

-----------------------------------------------------------------------------
(* The threads.                                                            *)

Operation(t, kind, eventGroup, resultGroup) ==
    [task |-> t, kind |-> kind, eventGroup |-> eventGroup, resultGroup |-> resultGroup]

\* DemoTask's: one kernel, given the pointers of the groups the task has then.
ExecuteOnDevice == <<"kernel">>

\* What transferToDevice, executeOnDevice and transferToHost submit, in order.
OperationsOf(t) ==
    CASE objects[t].state = "WaitingForEventTransfer" ->
            IF Data!MayTransferToDevice(events[t], Queue)
            THEN <<"numPointsToDevice", "pointsToDevice">> ELSE <<>>
      [] objects[t].state = "WaitingForExecution" -> ExecuteOnDevice
      [] objects[t].state = "WaitingForResultTransfer" ->
            IF Data!MayTransferToHost(results[t], Queue)
            THEN <<"numSolutionsToHost", "solutionsToHost">> ELSE <<>>

ThreadBegins(t) ==
    /\ ThreadCheckout(t)
    /\ toSubmit' = [toSubmit EXCEPT ![t] = OperationsOf(t)]
    /\ UNCHANGED <<dataVars, contentVars, operations, awaited>>

\* The size of the copy of the solutions is hostNumSolutions_ when it is submitted,
\* 0 in a new ResultUsm: a copy of nothing is done at once.
CopiesNothing(t, kind) == kind = "solutionsToHost" /\ hostResults[t].number = Nobody

\* Mutant: only the SYCL event of the last copy is kept.
ThreadSubmitsKeepingLast(t) ==
    /\ threads[t] = "submit"
    /\ toSubmit[t] # <<>>
    /\ LET kind == Head(toSubmit[t])
           new == IF CopiesNothing(t, kind) THEN {}
                  ELSE {Operation(t, kind, events[t].memory, results[t].memory)}
       IN  /\ operations' = operations \cup new
           /\ awaited' = [awaited EXCEPT ![t] = new]
    /\ toSubmit' = [toSubmit EXCEPT ![t] = Tail(@)]
    /\ UNCHANGED <<vars, dataVars, contentVars>>

ThreadSubmits(t) ==
    /\ threads[t] = "submit"
    /\ toSubmit[t] # <<>>
    /\ LET kind == Head(toSubmit[t])
           new == IF CopiesNothing(t, kind) THEN {}
                  ELSE {Operation(t, kind, events[t].memory, results[t].memory)}
       IN  /\ operations' = operations \cup new
           /\ awaited' = [awaited EXCEPT ![t] = @ \cup new]
    /\ toSubmit' = [toSubmit EXCEPT ![t] = Tail(@)]
    /\ UNCHANGED <<vars, dataVars, contentVars>>

\* Mutant: the exception leaves the thread's body before checkinQueue.
ThreadSubmitThrowsOut(t) ==
    /\ SubmitMayThrow
    /\ threads[t] = "submit"
    /\ toSubmit[t] # <<>>
    /\ Head(toSubmit[t]) # "kernel"
    /\ toSubmit' = [toSubmit EXCEPT ![t] = <<>>]
    /\ awaited' = [awaited EXCEPT ![t] = {}]
    /\ threads' = [threads EXCEPT ![t] = "none"]
    /\ UNCHANGED <<queueVars, objects, workerVars, dataVars, contentVars, operations>>

\* memcpy throws: the method returns an empty set, without the copies it has
\* already submitted.
ThreadSubmitThrows(t) ==
    /\ SubmitMayThrow
    /\ threads[t] = "submit"
    /\ toSubmit[t] # <<>>
    /\ Head(toSubmit[t]) # "kernel"
    /\ toSubmit' = [toSubmit EXCEPT ![t] = <<>>]
    /\ awaited' = [awaited EXCEPT ![t] = {}]
    /\ UNCHANGED <<vars, dataVars, contentVars, operations>>

ThreadSubmitted(t) ==
    /\ toSubmit[t] = <<>>
    /\ ThreadCheckin(t)
    /\ UNCHANGED <<dataVars, contentVars, submitVars>>

\* Mutant: the thread does not wait.
ThreadDoesNotWait(t) ==
    /\ ThreadDeviceDone(t)
    /\ awaited' = [awaited EXCEPT ![t] = {}]
    /\ UNCHANGED <<dataVars, contentVars, operations, toSubmit>>

\* Every SYCL event of the set has been waited for.
ThreadWaited(t) ==
    /\ awaited[t] \cap operations = {}
    /\ ThreadDeviceDone(t)
    /\ awaited' = [awaited EXCEPT ![t] = {}]
    /\ UNCHANGED <<dataVars, contentVars, operations, toSubmit>>

ThreadEnds(t) ==
    /\ ThreadSetState(t) \/ ThreadNotify(t)
    /\ UNCHANGED <<dataVars, contentVars, submitVars>>

ThreadStep(t) ==
    \/ ThreadBegins(t)
    \/ ThreadSubmits(t)
    \/ ThreadSubmitThrows(t)
    \/ ThreadSubmitted(t)
    \/ ThreadWaited(t)
    \/ ThreadEnds(t)

-----------------------------------------------------------------------------
(* The device performs operations in any order.                            *)

\* The solutions a kernel computes from an event group.  executeOnDevice is left to
\* the subclasses of TaskUsm; this one writes both result arrays.  DemoTask's leaves
\* the number of solutions unwritten.
Solutions(event) == IF event.number = event.arrays THEN event.number ELSE Mixed

Performs(op, kind) == op.kind = kind /\ operations' = operations \ {op}

CopyNumPoints(op) ==
    /\ Performs(op, "numPointsToDevice")
    /\ deviceEvents' = [deviceEvents EXCEPT ![op.eventGroup].number = op.task]
    /\ UNCHANGED <<hostResults, deviceResults>>

CopyPoints(op) ==
    /\ Performs(op, "pointsToDevice")
    /\ deviceEvents' = [deviceEvents EXCEPT ![op.eventGroup].arrays = op.task]
    /\ UNCHANGED <<hostResults, deviceResults>>

RunKernel(op) ==
    /\ Performs(op, "kernel")
    /\ LET solutions == Solutions(deviceEvents[op.eventGroup])
       IN  deviceResults' = [deviceResults EXCEPT ![op.resultGroup] =
                                [number |-> solutions, arrays |-> solutions]]
    /\ UNCHANGED <<hostResults, deviceEvents>>

CopyNumSolutions(op) ==
    /\ Performs(op, "numSolutionsToHost")
    /\ hostResults' = [hostResults EXCEPT ![op.task].number =
                          deviceResults[op.resultGroup].number]
    /\ UNCHANGED <<deviceEvents, deviceResults>>

CopySolutions(op) ==
    /\ Performs(op, "solutionsToHost")
    /\ hostResults' = [hostResults EXCEPT ![op.task].arrays =
                          deviceResults[op.resultGroup].arrays]
    /\ UNCHANGED <<deviceEvents, deviceResults>>

DeviceStep ==
    /\ \E op \in operations :
          \/ CopyNumPoints(op)
          \/ CopyPoints(op)
          \/ RunKernel(op)
          \/ CopyNumSolutions(op)
          \/ CopySolutions(op)
    /\ UNCHANGED <<vars, dataVars, toSubmit, awaited>>

TransferTerminated ==
    /\ operations = {}
    /\ Terminated
    /\ UNCHANGED <<dataVars, contentVars, submitVars>>

TransferNext ==
    \/ HostStep
    \/ \E t \in Tasks : ThreadStep(t)
    \/ DeviceStep
    \/ TransferTerminated

TransferSpec == TransferInit /\ [][TransferNext]_transferVars

\* As WorkerUsm!FairSpec, and the device performs what it is given.
FairTransferSpec ==
    /\ TransferSpec
    /\ WF_transferVars(HostStep)
    /\ \A t \in Tasks : WF_transferVars(ThreadStep(t))
    /\ WF_transferVars(DeviceStep)

-----------------------------------------------------------------------------
\* ITask: "WaitingForExecution, // Resources transferred to device".  From then
\* until its event group is returned, the group holds the whole event of the task,
\* whoever used the group before and whatever the other threads transfer.
EventIsOnDevice ==
    \A t \in Tasks : objects[t].state \in {"WaitingForExecution", "Executed"} =>
        deviceEvents[objects[t].eventGroup] = [number |-> t, arrays |-> t]

\* From the execution on until its result group is returned, the group holds the
\* solutions of this task's event.
ResultsAreOwn ==
    \A t \in Tasks :
        objects[t].state \in {"Executed", "WaitingForResultTransfer", "ResultTransferred"} =>
            deviceResults[objects[t].resultGroup] = [number |-> t, arrays |-> t]

\* What a task reads and writes on the device is its own, in groups that go from task
\* to task and are never cleared.
GroupsHoldOwnData == EventIsOnDevice /\ ResultsAreOwn

\* No copy or kernel is still under way for a task in a group that the task no longer
\* holds: a group is clean when it goes to the next task.
NothingOutlivesTheLoan ==
    \A op \in operations :
        LET task == objects[op.task]
        IN  /\ op.kind \in {"numPointsToDevice", "pointsToDevice", "kernel"} =>
                  task.eventAssigned /\ task.eventGroup = op.eventGroup
            /\ op.kind \in {"kernel", "numSolutionsToHost", "solutionsToHost"} =>
                  task.resultAssigned /\ task.resultGroup = op.resultGroup

\* ITask: "Completed // Execution finished, event resources released, solutions
\* transferred to host, worker can release ownership".
SolutionsAreOnHost ==
    \A t \in Tasks : objects[t].state = "Completed" =>
        hostResults[t] = [number |-> t, arrays |-> t]

\* A copy that throws, whose error the methods only log, does not keep a task in the
\* queue: every task submitted is completed whatever is thrown.
ErrorsDoNotBlock == EveryTaskCompletes

=============================================================================
