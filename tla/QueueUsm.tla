------------------------------ MODULE QueueUsm ------------------------------
(***************************************************************************)
(* QueueUsm (application/experimental/usm/src/QueueUsm.cpp): two pools of  *)
(* preallocated device resource groups, a count of the tasks that are in   *)
(* the queue, and the SYCL queue behind a mutex.  Groups are numbered from *)
(* 1; 0 is the null group.                                                 *)
(***************************************************************************)
EXTENDS Integers, Sequences

CONSTANTS
    EventCapacity,  \* eventResourcesCapacity_
    ResultCapacity, \* resultResourcesCapacity_
    WorkCapacity,   \* workLoadCapacity_
    Nobody          \* the mutex has no owner

\* Capacity and DeviceResourceGroupId are u_int16_t.  With a capacity of 65535
\* the constructor's loop "id <= capacity" could not end.
Width == 65536

ASSUME CapacityAssumption ==
    /\ EventCapacity \in 0 .. Width - 2
    /\ ResultCapacity \in 0 .. Width - 2
    /\ WorkCapacity \in 0 .. Width - 1

VARIABLES
    freeEventResources,
    eventResourcesLoad,
    freeResultResources,
    resultResourcesLoad,
    workLoad,
    syclQueueOwner      \* who holds syclQueueMutex_

eventPoolVars == <<freeEventResources, eventResourcesLoad>>
resultPoolVars == <<freeResultResources, resultResourcesLoad>>
queueVars == <<eventPoolVars, resultPoolVars, workLoad, syclQueueOwner>>

NullGroup == 0
EventGroups == 1 .. EventCapacity
ResultGroups == 1 .. ResultCapacity

Capacities == 0 .. Width - 1
Plus(n) == (n + 1) % Width
Minus(n) == (n - 1) % Width

\* The constructor.
QueueInit ==
    /\ freeEventResources = [i \in 1 .. EventCapacity |-> i]
    /\ eventResourcesLoad = 0
    /\ freeResultResources = [i \in 1 .. ResultCapacity |-> i]
    /\ resultResourcesLoad = 0
    /\ workLoad = 0
    /\ syclQueueOwner = Nobody

\* The group a call of getEventResourceGroup returns, and what the call does.
NextEventGroup ==
    IF freeEventResources = <<>> THEN NullGroup ELSE Head(freeEventResources)

GetEventResourceGroup ==
    IF freeEventResources = <<>>
    THEN UNCHANGED eventPoolVars
    ELSE /\ freeEventResources' = Tail(freeEventResources)
         /\ eventResourcesLoad' = Plus(eventResourcesLoad)

\* Mutant: the load is not decremented.
ReturnEventGroupKeepingLoad(group) ==
    /\ freeEventResources' = Append(freeEventResources, group)
    /\ UNCHANGED eventResourcesLoad

ReturnEventResourceGroup(group) ==
    /\ freeEventResources' = Append(freeEventResources, group)
    /\ eventResourcesLoad' = Minus(eventResourcesLoad)

NextResultGroup ==
    IF freeResultResources = <<>> THEN NullGroup ELSE Head(freeResultResources)

GetResultResourceGroup ==
    IF freeResultResources = <<>>
    THEN UNCHANGED resultPoolVars
    ELSE /\ freeResultResources' = Tail(freeResultResources)
         /\ resultResourcesLoad' = Plus(resultResourcesLoad)

ReturnResultResourceGroup(group) ==
    /\ freeResultResources' = Append(freeResultResources, group)
    /\ resultResourcesLoad' = Minus(resultResourcesLoad)

IncrementWorkLoad == workLoad' = Plus(workLoad)
DecrementWorkLoad == workLoad' = Minus(workLoad)

CheckoutQueue(owner) == syclQueueOwner = Nobody /\ syclQueueOwner' = owner
CheckinQueue == syclQueueOwner' = Nobody

=============================================================================
