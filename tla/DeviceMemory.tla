----------------------------- MODULE DeviceMemory -----------------------------
(***************************************************************************)
(* Objects of one class of DataUsm used in any order through its methods:  *)
(* they allocate device memory of their own, and borrow and give back      *)
(* groups of a pool that owns the groups' memory until its end, as         *)
(* QueueUsm does.  The client destroys objects at any time, and the pool   *)
(* when it has lent nothing.                                               *)
(***************************************************************************)
EXTENDS DataUsm, FiniteSets

CONSTANTS
    Class,      \* the class of the objects
    Objects,
    Queues,     \* SYCL queues
    Groups,     \* the pool's groups, each a block of memory
    Blocks,     \* blocks malloc_device may return: bounds the allocations
    NoGroup     \* the pool has lent nothing to the object

ASSUME MemoryAssumption ==
    /\ Class \in Classes
    /\ Groups \cap Blocks = {}
    /\ NoMemory \notin Groups \cup Blocks
    /\ NoGroup \notin Groups
    /\ NoQueue \notin Queues

VARIABLES
    data,       \* the objects
    heap,       \* what has become of each block of device memory
    lent,       \* by the pool to each object
    leaks       \* the blocks whose leak a destructor has logged

vars == <<data, heap, lent, leaks>>

\* The pool's memory, on the heap h.
allocateDeviceResources(h) == [b \in DOMAIN h |-> IF b \in Groups THEN "live" ELSE h[b]]
deallocateDeviceResources(h) == [b \in DOMAIN h |-> IF b \in Groups THEN "freed" ELSE h[b]]

Init ==
    /\ data = [o \in Objects |-> NewData(Class)]
    /\ heap = allocateDeviceResources([b \in Groups \cup Blocks |-> "unused"])
    /\ lent = [o \in Objects |-> NoGroup]
    /\ leaks = {}

Allocate(o, queue) ==
    /\ MayAllocate(data[o])
    /\ \E b \in Blocks :
          /\ heap[b] = "unused"
          /\ heap' = [heap EXCEPT ![b] = "live"]
          /\ data' = [data EXCEPT ![o] = AllocateOnDevice(@, queue, b)]
    /\ UNCHANGED <<lent, leaks>>

Deallocate(o) ==
    /\ MayDeallocate(data[o])
    /\ heap' = [heap EXCEPT ![data[o].memory] = "freed"]
    /\ data' = [data EXCEPT ![o] = DeallocateOnDevice(@)]
    /\ UNCHANGED <<lent, leaks>>

\* The pool lends a group to one object at a time.
Take(o, group, queue) ==
    /\ MayTakeResourceGroup(data[o])
    /\ lent[o] = NoGroup /\ heap[group] = "live"
    /\ \A p \in Objects : lent[p] # group
    /\ lent' = [lent EXCEPT ![o] = group]
    /\ data' = [data EXCEPT ![o] = TakeResourceGroup(@, group, queue)]
    /\ UNCHANGED <<heap, leaks>>

Release(o) ==
    /\ MayReleaseResourceGroup(data[o])
    /\ lent' = [lent EXCEPT ![o] = NoGroup]
    /\ data' = [data EXCEPT ![o] = ReleaseResourceGroup(@)]
    /\ UNCHANGED <<heap, leaks>>

\* The destructor frees nothing and gives nothing back; a new object takes the place of
\* the old one.  A group that was lent to the old one stays lent.
DestroyData(o) ==
    /\ leaks' = IF LogsLeak(data[o]) THEN leaks \cup {data[o].memory} ELSE leaks
    /\ data' = [data EXCEPT ![o] = NewData(Class)]
    /\ UNCHANGED <<heap, lent>>

\* ~QueueUsm.
DestroyPool ==
    /\ \A o \in Objects : lent[o] = NoGroup
    /\ \E group \in Groups : heap[group] = "live"
    /\ heap' = deallocateDeviceResources(heap)
    /\ UNCHANGED <<data, lent, leaks>>

Next ==
    \/ DestroyPool
    \/ \E o \in Objects :
          \/ \E queue \in Queues : Allocate(o, queue)
          \/ Deallocate(o)
          \/ \E group \in Groups, queue \in Queues : Take(o, group, queue)
          \/ Release(o)
          \/ DestroyData(o)

Spec == Init /\ [][Next]_vars

-----------------------------------------------------------------------------
\* deallocateOnDevice goes ahead only with live memory that this object alone has
\* allocated: no memory is freed twice, and none that belongs to the pool, which
\* frees that in ~QueueUsm.
FreesOwnMemoryOnly ==
    \A o \in Objects : MayDeallocate(data[o]) =>
        /\ data[o].memory \in Blocks
        /\ heap[data[o].memory] = "live"
        /\ \A p \in Objects \ {o} : data[p].memory # data[o].memory

\* No sequence of calls lets a transfer use memory that has been freed or given back
\* to the pool, or freed by it at its end, although deallocateOnDevice and
\* releaseResourceGroup leave the pointers, and deallocateOnDevice
\* resourcesBorrowed_, as they are.
TransfersUseOwnOrLentMemory ==
    \A o \in Objects, queue \in Queues :
        MayTransferToDevice(data[o], queue) \/ MayTransferToHost(data[o], queue) =>
            /\ heap[data[o].memory] = "live"
            /\ data[o].memory \in Blocks \/ lent[o] = data[o].memory

\* Whatever the order of the calls, memory is freed once, by the object that allocated
\* it, and used only while it is there and the object's own or lent to it.
MemoryIsOwnOrLent == FreesOwnMemoryOnly /\ TransfersUseOwnOrLentMemory

\* DataUsm: "Returns false when allocated. Does not take ownership of the resource
\* group when failed."  ~EventUsm: "Memory leak in EventUsm [...]. Memory was not
\* deallocated on device before destruction."  No memory is lost in silence: an object
\* keeps the pointer to what it has allocated until deallocateOnDevice frees it, or
\* until its destructor, which frees nothing, has logged the leak.
NothingLeaks ==
    \A b \in Blocks \ leaks : heap[b] = "live" =>
        \E o \in Objects : data[o].allocated /\ data[o].memory = b

=============================================================================
