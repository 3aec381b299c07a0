------------------------------- MODULE TaskUsm -------------------------------
(***************************************************************************)
(* TaskUsm (application/experimental/usm/src/TaskUsm.cpp).  A task is a    *)
(* record; a method is an operator from the task before the call to the    *)
(* task after it.  setState also tells the task's observer, which is its   *)
(* worker once it has been submitted: see Notifies.                        *)
(*                                                                         *)
(*   state            state_                                               *)
(*   changing         isStateChanging_                                     *)
(*   eventAssigned    eventResourcesAssigned_                              *)
(*   resultAssigned   resultResourcesAssigned_                             *)
(*   eventGroup       eventResourceGroupId_, kept after the release        *)
(*   resultGroup      resultResourceGroupId_, kept after the release       *)
(***************************************************************************)
EXTENDS QueueUsm

\* In the order a task passes through them.
TaskStates ==
    {"Created", "EventAndResultAssigned", "ReadyToQueue", "WaitingForResources",
     "WaitingForEventTransfer", "WaitingForExecution", "Executed",
     "WaitingForResultTransfer", "ResultTransferred", "Completed"}

TaskObjects ==
    [state : TaskStates, changing : BOOLEAN,
     eventAssigned : BOOLEAN, resultAssigned : BOOLEAN,
     eventGroup : EventGroups \cup {NullGroup},
     resultGroup : ResultGroups \cup {NullGroup}]

NewTask ==
    [state |-> "Created", changing |-> FALSE,
     eventAssigned |-> FALSE, resultAssigned |-> FALSE,
     eventGroup |-> NullGroup, resultGroup |-> NullGroup]

SetState(task, state) == [task EXCEPT !.state = state]

\* setState was called on a submitted task in the step from task to after.
Notifies(task, after) == after.state # task.state

TakeEventAndResult(task) == SetState(task, "EventAndResultAssigned")

OnAssignedToWorker(task) == SetState(task, "ReadyToQueue")

AssignQueue(task) == SetState(task, "WaitingForResources")

\* Mutant: one kind of resources is enough.
CheckAnyResourcesAssigned(task) ==
    IF task.eventAssigned \/ task.resultAssigned
    THEN SetState(task, "WaitingForEventTransfer")
    ELSE task

CheckResourcesAssigned(task) ==
    IF task.eventAssigned /\ task.resultAssigned
    THEN SetState(task, "WaitingForEventTransfer")
    ELSE task

TakeEventResources(task, group) ==
    CheckResourcesAssigned([task EXCEPT !.eventGroup = group, !.eventAssigned = TRUE])

TakeResultResources(task, group) ==
    CheckResourcesAssigned([task EXCEPT !.resultGroup = group, !.resultAssigned = TRUE])

\* The part of transferEvent, execute and transferResult before the thread starts.
BeginStateChange(task) == [task EXCEPT !.changing = TRUE]

\* The part of a thread's body after the device has finished.
EndStateChange(task) == [task EXCEPT !.changing = FALSE]

\* The state in which each of the three threads runs, and the one it sets.
ThreadStates == {"WaitingForEventTransfer", "WaitingForExecution", "WaitingForResultTransfer"}

StateAfterThread(task) ==
    CASE task.state = "WaitingForEventTransfer"  -> "WaitingForExecution"
      [] task.state = "WaitingForExecution"      -> "Executed"
      [] task.state = "WaitingForResultTransfer" -> "ResultTransferred"

ReleaseEventResourceGroup(task) ==
    SetState([task EXCEPT !.eventAssigned = FALSE], "WaitingForResultTransfer")

ReleaseResultResourceGroup(task) ==
    SetState([task EXCEPT !.resultAssigned = FALSE], "Completed")

=============================================================================
