------------------------------- MODULE DataUsm -------------------------------
(***************************************************************************)
(* EventUsm and ResultUsm, the two classes of DataUsm (application/        *)
(* experimental/usm: include/EventUsm/DataUsm.h, src/EventUsm.cpp,         *)
(* src/ResultUsm.cpp): host arrays with a device copy in memory the object *)
(* has allocated itself or has borrowed.  An object is a record, a method  *)
(* an operator, preceded by the condition under which it does anything but *)
(* log and report failure.  The device arrays of an object stand and fall  *)
(* together: memory is the block they point to.                            *)
(*                                                                         *)
(* malloc_device and free throw only on a device without USM, at the first *)
(* call, before anything has changed; so do the methods that call them.    *)
(***************************************************************************)
CONSTANTS
    NoQueue,    \* allocationQueue_ is nullptr
    NoMemory    \* the device pointers are nullptr

Classes == {"EventUsm", "ResultUsm"}

NewData(class) ==
    [class |-> class, allocated |-> FALSE, borrowed |-> FALSE,
     queue |-> NoQueue, memory |-> NoMemory]

MayAllocate(data) == ~ data.allocated

AllocateOnDevice(data, queue, block) ==
    [data EXCEPT !.allocated = TRUE, !.queue = queue, !.memory = block]

\* The destructor only logs the leak of memory the object has allocated.
LogsLeak(data) == data.allocated

\* Mutant: EventUsm tests what ResultUsm does.
MayDeallocateBorrowed(data) == data.allocated \/ data.borrowed

MayDeallocate(data) ==
    \/ data.allocated
    \/ data.class = "ResultUsm" /\ data.borrowed

\* The pointers are left as they are.
DeallocateOnDevice(data) == [data EXCEPT !.allocated = FALSE, !.queue = NoQueue]

\* Mutant: EventUsm does not look at the queue either.
MayTransferOnAnyQueue(data, queue) == data.allocated \/ data.borrowed

HasDeviceMemory(data) == data.allocated \/ data.borrowed

\* ResultUsm's transfers look at nothing else, EventUsm's at the queue too.
MayTransferToDevice(data, queue) ==
    /\ HasDeviceMemory(data)
    /\ data.class = "EventUsm" => data.queue = queue

MayTransferToHost(data, queue) ==
    /\ HasDeviceMemory(data)
    /\ data.class = "ResultUsm" \/ data.queue = queue

\* Mutant: EventUsm does not look whether it has memory of its own.
MayTakeAlways(data) == TRUE

\* ResultUsm only checks that the group has two members.
MayTakeResourceGroup(data) == data.class = "EventUsm" => ~ data.allocated

TakeResourceGroup(data, group, queue) ==
    [data EXCEPT !.borrowed = TRUE, !.queue = queue, !.memory = group]

\* EventUsm tests allocated_, ResultUsm resourcesBorrowed_.
MayReleaseResourceGroup(data) ==
    IF data.class = "EventUsm" THEN ~ data.allocated ELSE data.borrowed

ReleaseResourceGroup(data) == [data EXCEPT !.borrowed = FALSE, !.queue = NoQueue]

=============================================================================
