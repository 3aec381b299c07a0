# TLA+ models of helix-solver

helix-solver finds helical tracks in detector events with an adaptive Hough
transform on SYCL devices. This directory holds TLA+ modules for what the program
does: how events are loaded and move through buffers, workers and device queues,
how the host code runs against devices and threads that finish in any order, what
the kernel does with an event, and the smaller programs and libraries around it.

Paths below are relative to the repository; `HS` is `application/HelixSolver`,
`USM` is `application/experimental/usm` and `X` is `application/experimental`.

## 1. Inventory

| component | state | operations | hard behaviour | what makes it correct |
|---|---|---|---|---|
| `EventBuffer` (`HS/src/EventBuffer.cpp`) | FREE / READY / PROCESSED, the event | `loadEvent`, `setState`, `getEvent` | the caller ignores `loadEvent`'s result | an event is not overwritten while it is needed |
| `ComputingWorker` (`HS/src/ComputingWorker.cpp`) | WAITING / PROCESSING / COMPLETED, its buffer, solutions, the SYCL event | `assignBuffer`, `updateAndGetState`, `transferSolutions`, `waitUntillCompleted` | the kernel completes on its own; the state is only a cached view of it | the solutions are those of the event they are filed under |
| `ComputingManager` (`HS/src/ComputingManager.cpp`) | buffers, workers, three queues and two parallel vectors of indices, the collected pairs | `addEvent`, `update`, `transferSolutions`, `waitUntillAllTasksCompleted`, `waitForWaitingWorker` | the vectors are rebuilt while kernels complete out of order | no index lost or doubled; every event accepted comes out once |
| `Application` (`HS/src/Application.cpp`) | the list of events, the loop | `runOnCpu`, `runOnGpu`, `loadEvents`, `saveSolutionsInRootFile` | full pools, the drain | the output has every event once; the program ends |
| event loading (`HS/src/Application.cpp`, `Event.cpp`) | points per event id, the list | `run`, `loadEvents`, `selector` | entries in any order, two exclusions one after the other | exactly the selected events with exactly the selected points |
| `AdaptiveHoughGpuKernel` (`HS/src`, `old/src`) | a stack of sections, counted indices, the solution slots | wedges, splitting, two ways of counting, the peak test, `addSolution` | fixed-size arrays that nothing checks in the SYCL build, indices marked instead of removed | every part of the accumulator is searched once, tracks reach the peak test, no solution overwrites another, the search ends |
| `Sorting`, `ZPhiPartitioning`, `AccumulatorSection` (`HS/include`) | none | orders of crossings, geometry of lines and wedges | angles that wrap, boundaries | sorted permutations; every point in a wedge; parts that tile |
| `QueueUsm` (`USM/src/QueueUsm.cpp`) | two pools of device resource groups, three 16-bit counters, a mutex around the SYCL queue | get / return a group, work load, `checkoutQueue`, `checkinQueue` | counters and pools changed side by side, limits tested with `==` | every group is free or lent to one task |
| `TaskUsm` (`USM/src/TaskUsm.cpp`) | ten states, `isStateChanging_`, the groups it holds | one method per transition; three detached threads | a thread sets the flag, the state and the notification in three steps | one operation at a time, each once |
| `WorkerUsm` (`USM/src/WorkerUsm.cpp`) | the tasks it owns, the set of changed ids (under a mutex), the queue of ids to process | `submitTask`, `processTasks` with nine handlers, `onTaskStateChange` | lost or repeated notifications, hold and wait on the pools | every task submitted completes |
| `EventUsm`, `ResultUsm` (`USM/src`) | host arrays, device pointers, allocated / borrowed | allocate, free, take and release a group, copy to and from the device | copies are asynchronous, errors are swallowed | memory is freed by its owner, once; results reach the host |
| `ConstSizeVector` (`framework`) | array and size | vector operations | no bounds checks | within its capacity it is a `std::vector` |
| `Logger` (`framework`) | the global instance, open files | make, destroy and swap loggers, `LOG` | loggers that come and go with the same path | every file is framed and has the messages of its logger |
| `Splitter` (`X/Splitter`) | points, local arrays and a counter per region | two kernels | work items share a counter that they use in three steps | each point is counted once in its region |
| `GpuDataTransferTest` (`X`) | queues, buffers, times | three ways of running two kernels | kernels overlap | a time covers whole kernels and no other |
| `old/2d-acc.py`, `3d-acc.py` | an accumulator | two ways of filling one; sharing radii among threads | boundaries of cells | the clever way counts what the plain one does |
| `run_test.py` | lists of suites | run the suites listed, sort them, save logs, summary | suites that are missing, repeated or write to stderr | every suite is accounted for |
| `Debug`, `UtSyclHelpers`, `AvailableDevicesInfo`, plots in `old/tools` | - | - | - | - |

How they interact: `Application` loads the events and calls one
`ComputingManager` from the main thread; the manager owns the buffers and the
workers and shares each buffer with the worker that processes it; a worker submits a
kernel to its SYCL queue, which completes at any time and is only observed by polling
or by a blocking wait. In the experimental rewrite a client calls `WorkerUsm` from
one thread; a task runs each device operation in a detached thread which checks the
shared SYCL queue out under a mutex, waits for the device and calls the worker back;
the worker puts the id in a set under a second mutex, and `processTasks` handles it
later. The other parts share no state with these.

`PROJECT.json` lists under "hazards", at their lines, the behaviours of this code
that are hard to test, with the properties that would catch each.

## 2. Modules

    EventBuffer  <-  ComputingWorker  <-  ComputingManager  <-  Application
                                          |  INSTANCE EventPipeline
    QueueUsm  <-  TaskUsm  <-  WorkerUsm  <-  TransferUsm
                               |              |  INSTANCE DataUsm
                               |  INSTANCE DeviceQueue

    AccumulatorSection, Wedge  <-  CrossingsSorter  <-  AdaptiveHoughGpuKernel

    EventLoading, DataUsm <- DeviceMemory, Wedge <- Splitter, GpuDataTransfer,
    HoughAccumulators, JsonLogging, TestRunner,
    ConstSizeVector (INSTANCE StdVector)                      <-  MCParts

(`A <- B`: B extends A.) `MC*` modules add the constants of the runs; `*_proofs` the
proofs. `TransferUsm_proofs` extends `WorkerUsm_proofs` as `TransferUsm` does `WorkerUsm`,
and `Application_proofs` extends `ComputingManager_proofs`; `QueueLemmas`, on moving ids
and indices between queues, serves several of them. `HostParts_proofs` has the parts that
run on the host (`EventLoading`, `DeviceMemory`, `ConstSizeVector`, `JsonLogging`,
`TestRunner`), `DeviceParts_proofs` those with work items and the accumulators
(`Splitter`, `GpuDataTransfer`, `HoughAccumulators`). `EventPipeline`,
`DeviceQueue` and `StdVector` are abstract specifications.

**Objects.** `EventBuffer`, `ComputingWorker`, `TaskUsm` and `DataUsm` model objects: a
record per object, a method as an operator from the object before the call to the
object after it. The composing module holds them in a function variable
(`eventBuffers`, `computingWorkers`, `objects`, `data`). `QueueUsm` is a module of
variables whose operations are sub-actions of `WorkerUsm`.

**ComputingManager.** The variables are the members of the class. Each public
method is an action that enters it (`AddEvent`, `Update`, `TransferSolutions`,
`WaitUntillAllTasksCompleted`); inside, `pc` is the place of the host thread, and
there is one action per turn of each loop (`StartProcessing`, `PollProcessing`,
`PollCompleted`, `DrainWait`, ...), so that a kernel may complete
(`DeviceComplete`) between any two turns. `waitForWaitingWorker` only waits and is
the predicate `MayReturnFromWait`. During the poll the code walks
`processingComputingWorkers` by index and swaps in what it kept at the end; the
model removes each visited entry instead, so the variables are the part not yet
visited and `stillProcessing`, `stillProcessed` what was kept. Two ghosts are
added: `accepted` (the events `addEvent` returned true for) and a worker's
`input` (the event whose points its kernel reads); `delivered` is what the caller
was handed. `loadEvent`'s and `assignBuffer`'s results are ignored, as in the
code. The `Async` constant selects the build: at this commit
`ComputingWorker.cpp:7` defines `USE_SYCL` itself, so the SYCL branch is the one
compiled there; the other is kept because the sources and the build files support
it.

In the SYCL branch the local `OptionsBuffer optbuff` (`ComputingWorker.cpp:99`)
is destroyed at the end of `scheduleTasksToQueue`, and a SYCL implementation may
block there until the kernel has read it. The model lets the kernel be still
running when the call returns: it has these behaviours and more.

**Application, EventLoading.** `EventLoading` is the constructor, which exits without an
argument and reads the configuration, and `run` up to the loop: the choice of platform, the entries of the tree one by one, then the ids of the map in ascending
order, then the copies. `Application` starts from the list it ends with: `phase` is the
place in `runOnCpu` / `runOnGpu`, `next` the event of the loop. Its actions conjoin an
action of the manager with their own part; `AddRefused` is `addEvent` returning
false. The loaded events are distinct objects (also the copies of
`MULTIPLY_EVENTS`), hence the assumption that `EventList` has no repetition. `onGpu` is
the choice `Application::run` makes from the configuration; it never changes.

**WorkerUsm.** The host thread is `processing` (inside `processTasks`) with
`current` the id it has popped, or between two calls, where the client submits
tasks. A handler is one action: it runs on the host thread, and everything it
touches (the task, the queue's counters, the work load) belongs to that thread
until the handler starts a task's thread. What the threads do is five actions per
thread (`ThreadCheckout` ... `ThreadNotify`), with `isStateChanging_ = false`,
`state_ = ...` and the notification as separate steps. `setState` tells the
observer, so a handler that changes the state of a task also puts its id in
`tasksWithChangedState` (`BecomesNotifying`). The order in which an
`unordered_set` is copied is arbitrary (`Orders`). `isStateChanging_` and `state_`
are plain members written by a thread and read by the host; the host only reads
them for an id it took from the set after the thread released the mutex
(`NotManipulatedWhileChanging` is what makes that so), hence no torn or stale
reads. `submitTask` takes its task by value: a refused task is destroyed, so a
refusal leaves nothing to model. Device operations always succeed in this model.

**DataUsm, DeviceMemory.** The two classes of `DataUsm` do the same with different
conditions, and these are what matters: `MayDeallocate`, `MayTransferToDevice`,
`MayTransferToHost`, `MayTakeResourceGroup`, `MayReleaseResourceGroup` are the early
returns of each class. `DeviceMemory` lets objects of one class call the methods in
any order against a heap of blocks and a pool that, as `QueueUsm`, allocates its groups
first (`allocateDeviceResources`), lends a group to one object at a time and, once none
is lent, frees all of them itself (`DestroyPool`, its destructor). An object may be
destroyed at any time (`DestroyData`): its destructor frees nothing and gives nothing back,
and only logs the leak of memory of its own (`leaks`).

**TransferUsm** adds to `WorkerUsm` what is in the arrays. Every action of the worker
is kept, with its effect on the task's `EventUsm` and `ResultUsm` (`FollowTask`). A
thread, between checking the SYCL queue out and in, submits its copies one by one
(`ThreadSubmits`), keeps their SYCL events and later waits for exactly those
(`ThreadWaited`); the device performs what was submitted in any order
(`CopyPoints`, `RunKernel`, ...). The size of the copy of the solutions is what the
host array says when the copy is submitted (`CopiesNothing`), as in the code. With
`SubmitMayThrow` a `memcpy` may throw: the method then returns the empty set
although some copies are under way. An array's contents are the task they stem from.
The four arrays of an event are one. `ExecuteOnDevice` is pure virtual in `ITask`; as
`DemoTask`'s it submits one kernel with the pointers the task has then, but the modelled
kernel writes both result arrays, where `DemoTask`'s leaves the number unwritten.

**The kernel.** `AdaptiveHoughGpuKernel` is the search of one event: `EnterWedge` is a
turn of the loop over the wedges, `fillAccumulatorSection` what becomes of the section
on top of the stack, with one disjunct per way out: `Reject`, `SplitIntoFour`,
`SplitInX`, `SplitInY`, `ExamineCell`. The methods are those of
`HS/src/AdaptiveHoughGpuKernel.cpp`; the body of its `operator()` is commented out at
this commit, so the loop that calls them is the one of `old/src`, whose other methods
are the same up to layout (one constant, the spread of phi, is real there and 1 in the
new copy). What the model does with the data:

- Coordinates are integers, in units in which every slope, every halved size and, times
  `Scale` or `DistanceUnit`, every crossing point and distance is an integer; means and
  standard deviations are compared multiplied out, never divided. Rounding is not in
  the model. A line of pseudorapidity eta has the slope 1/sinh(eta); the model's is
  `Tilt`/eta, odd and falling like it.
- Points are records instead of three arrays; a section's `indices` array is a sequence.
- One work item: `ADAPTIVE_KERNEL_INITIAL_DIVISIONS` is 1 in this code.
- `assures` is the build: with SYCL `ASSURE_THAT` is empty, without it throws.
- Where the code reads what it never wrote, the outcome is arbitrary
  (`RotatedOutcomes`, `PeakOutcomes`): the copy of rotated angles stops one short of
  the highest index, and a line rejected as parallel leaves -100 in the indices, which
  is then used as an index.
- `WithoutOutliers` is the loop whose bound its own body decrements (no wedge of this copy,
  with its deviation of 1, is wide enough for an outlier), `Threshold` the
  comparison of phi with a momentum, `Crossings` the test of the curvature that is given
  the radius for the angle: as written.

`AccumulatorSection` and `Wedge` are the geometry, `CrossingsSorter` the sorts, the
crossings and the statistics of `Sorting.h`, with the two tests of linearity whose calls
are commented out.

**MCParts.** Eight parts share no state with anything else. `MCParts` extends all of
them; the part is chosen in the initial state and the others stay where they are, so
one run explores each in turn.

- `EventLoading` and `DeviceMemory`: above.
- `Splitter`: the first kernel's work items each convert every `ConvertItems`-th point;
  in the second, a work item tests a point, reads the counter for one array, writes,
  reads it again for the other, writes, increments it: five steps, interleaved with
  those of the other items. One region is followed, any of them; groups share nothing
  they write.
- `GpuDataTransfer`: `calls` is what the host has still to do in an iteration; the
  device runs the work items of the submitted kernels in any order; `timed` is a ghost,
  the kernels at work since the clock was read.
- `ConstSizeVector`: one action per method, over vectors that are copied to one
  another. That callers keep within the capacity is a guard, since no method looks.
- `HoughAccumulators`: `naive_imlementation.py` and `2d-acc.py` fill their accumulators
  from the same points in any order.
- `JsonLogging`: `Loggers` are the places of `JsonLogger` objects, made, destroyed and made
  again with any path; a file is the sequence of its brackets and records, a record the
  severity and message that were logged (the time and place are left out).
- `TestRunner`: an environment that is missing (`check_environment`), or the suites the
  lines of the list name in order (`suites_list_element_to_suite`), each with any result,
  a log under the suite's name, and the lists the summary is printed from.

**EventPipeline, DeviceQueue, StdVector** are what three of the machines promise their
callers: an event is accepted, finished and handed over once, at most as many inside as
there are buffers; a task waits, is in the queue with at most its capacity of
others, and completes, once; a vector is the sequence of what was put in.
`ImplementsPipeline`, `ImplementsDeviceQueue` and `ImplementsStdVector` map the
detailed state to them.

## 3. Runs

| run | question | bounds | states |
|---|---|---|---|
| `manager_sycl` | is the manager's bookkeeping right under every order of calls and completions, does it implement the pipeline, and does the drain return? | 4 events, 3 buffers, 2 workers | 83 433 |
| `manager_nosycl` | and in the build without SYCL? | 4 events, 2 buffers, 3 workers | 165 |
| `app` | do `runOnCpu` and `runOnGpu` save every event once, and end? | 4 events, 3 buffers, 2 workers | 1 332 |
| `usm_safety` | is a task or a group ever lost, repeated, shared or disturbed? | 4 tasks, 2 event groups, 1 result group, work capacity 3 | 10 719 |
| `usm_progress` | does every task complete? | 3 tasks, 2 event groups, 1 result group, work capacity 2 | 13 467 |
| `usm_hold_and_wait` | is a borrowed group always returned? **No** | 3 tasks, 1 group of each kind, work capacity 3 | - |
| `memory_result_take` | can a `ResultUsm` lose memory it must free, and nothing log it? **Yes** | 2 objects, 2 groups, 2 queues, 3 allocations | - |
| `transfer_safety` | does each task's kernel read its own event, and is a group at rest when it goes to the next task? | 3 tasks, 2 event groups, 1 result group, work capacity 2 | 6 000 |
| `transfer_errors` | do copies that throw keep a task from completing? | 2 tasks, 2 event groups, 1 result group, work capacity 2 | 24 339 |
| `transfer_results` | are a completed task's solutions on the host? **No** | 2 tasks, 1 group of each kind, work capacity 1 | - |
| `kernel` | does the search visit every place once, within its arrays, find the cells where a track's lines meet, keep each solution, and end? | 25 events of 4 or 5 points, 8 wedges, cells of two shapes, 3 levels of division, 2 solution slots | 5 895 |
| `parts` | do the parts that run on their own keep their promises? | below | 212 108 |

**Why these bounds.** The manager's hazards need a full pool of buffers (more events
than buffers), buffers waiting for a worker and workers waiting for a buffer
(both inequalities occur), and two kernels completing in the wrong order (two
workers). In the USM runs the queue must fill up (more tasks than work capacity),
a pool must run dry while tasks are admitted (more admitted than groups) and two
threads must compete for the mutex. In the transfer runs a group must go from one
task to another, and copies of two tasks be under way at once. The 16-bit counters are
modelled modulo 2^16.

The events of `kernel` are tracks that bend either way, one of them across phi = PI
(so that a wedge moves angles), a double hit in a layer (so that a line is rejected as
parallel and the rotated copy is used) and points in falling order of radius. The
precisions give cells that need divisions in both coordinates, in x only and in y only.
Two wedges overlap at every place, so a track is found more often than there are slots.
With 5 lines to a section the recorded number reaches `OUT_OF_RANGE_COUNTS` and the cut at
`MAX_COUNT_PER_SECTION`. The order of crossings is checked at the last level, as in the
code (level 10 of about 11). The code's numbers are 100 sections, 16 lines, thresholds 6
and 7: `SectionsFitBuffer` is about the depth-first order, which
leaves at most three sections a level, whatever their numbers, and 8 places do for the
levels here. `InstanceSuits`, `WedgesSuit` and `LinesSuit` say that this instance fits what
the proofs assume of one (section 4), and that it needs all 8 places.

In `parts`: two objects compete for two groups, and the allocations outnumber the
objects; the tree has up to four entries of three events, not in the order of their
ids, with seven configurations, of which two are unusable; four points lie in up to four of six regions, for two
work items; arrays have 2 and 3 elements, with 2 iterations; two vectors of capacity 2;
a 5 x 6 grid with three lines; two loggers, two paths and two messages to each; lists
of three lines naming two executables.

`MCAdaptiveHoughGpuKernel` and `MCParts` also evaluate assumptions about pure functions:
`SortSorts` (the sort that marks what it has placed, on up to four distances; section 4 has
it for any number),
`LinesAreLinear` and `VsAreNotLinear` (the two tests of linearity), `ClipsLikeNaive` (the
unused clipping of `2d-acc.py`, for falling lines, ends on the grid's bounds included where
one of its conditions takes them), `RadiiAreShared` (the sharing out of radii in
`3d-acc.py`; proved for all numbers as `EveryRadiusHasOneThread`).

Deadlock is checked in every run: the only states where nothing happens are the
explicit final ones, and the manager, the memory, the vectors and the loggers can
always be called again.

**Fairness.** `ComputingManager!FairSpec`: the host thread keeps running once it
is inside a method, and every submitted kernel completes; nothing is assumed
about when the caller calls. `Application!FairAppSpec`: the main thread runs and
kernels complete. `WorkerUsm!FairSpec`: the client's loop keeps calling
`processTasks` while there are tasks (`UsmWorkflowDemo.cpp:124-129`), and every
detached thread is scheduled, gets the mutex and sees its device operation end;
weak fairness of a thread suffices because a task starts at most three threads, each
of which hands the mutex back, so the mutex is in the end continuously free for the
last that waits. No fairness is given to the submission of tasks.
`TransferUsm!FairTransferSpec` is the same with the device performing what it is given.
`FairKernelSpec`: the kernel, once called, runs. `KernelRuns` is weak fairness of
`KernelStep` with its enabling condition (the kernel is searching) written out.

**What the violation runs show.** `usm_hold_and_wait`: `IQueue.h:20` says of a borrowed
group: "Resource group has to be returned with returnEventResourceGroup."
`handleTaskWaitingForResources` takes whichever kind is free and keeps it while the
other is not. In the run a task t2 has both groups, t3 and t1 are admitted. In one sweep
t3 is visited (both pools empty), then t2 returns the event group, then t1 takes it;
when t2 returns its result group t3, which comes first, takes it. t1 and t3 now hold one
kind each and no group will ever be returned. It takes a work capacity above the
capacity of both pools: with the work capacity within one pool's capacity
(`usm_progress`, and the 10/10/5 of `UsmWorkflowDemo`) a task in the queue never waits
for that kind, and all tasks complete.

`transfer_results`: `ITask.h:31` calls a completed task one with "solutions
transferred to host". `ResultUsm::transferToHost` submits the copy of the number of
solutions and, without waiting for it, uses the host's number as the size of the
second copy (`ResultUsm.cpp:98-99`). Until the first copy has been performed that
number is 0, so nothing is copied, and the task completes without its solutions.
(`EventUsm::transferToHost` is written the same way, `EventUsm.cpp:119-123`.)

`memory_result_take`: `DataUsm.h:25` promises of `takeResourceGroup` "Returns false
when allocated". `ResultUsm` does not look: its own memory becomes unreachable, and
a later `deallocateOnDevice` frees the group of the pool instead.

Where copies throw, the kernel need not have its own event:
`transferEventToDeviceThread` sets `WaitingForExecution` whatever `transferToDevice`
returned, and the kernel computes on what the group had before. `transfer_errors` shows
that such a task still completes.

## 4. Proofs

TLAPS checks:

- `ComputingManager_proofs`, for all numbers of events, buffers and workers and both
  builds: every invariant of `manager_sycl` (`TypeCorrect`, `BookkeepingIsRight`,
  `UncheckedCallsAreSafe`, `SolutionsAreTheirEvents`, `NoEventLostOrDoubled`), the action
  property `InputsStay`, and `Refinement`: the manager implements `EventPipeline`.
- `Application_proofs`: `UsesInterface` (each behaviour of the application is one
  of the manager, so the manager's theorems carry over), `DrainedBeforeCollection`
  and `EveryEventSavedOnce`.
- `HostParts_proofs`. For all vectors, values and capacities: `VectorsStaySound` (no
  element is read that nobody wrote) and `VectorRefinement` (`ConstSizeVector` implements
  `StdVector`). For any number of `EventUsm` objects, groups, queues and blocks, up to and
  including the end of the pool and of the objects: `EventsUseTheirMemory` and
  `EventsLoseNoMemory`, which says that no memory is lost without a log of it (for
  `ResultUsm` neither holds, see `memory_result_take`). For all trees and configurations:
  `AlwaysLoadsSelectedEvents`. For all loggers, paths and messages: `LogsAlwaysFramed`.
  For all lists of suites and all results: `SuitesAlwaysAccountedFor`.
- `DeviceParts_proofs`, for any number of work items, points, regions, array elements and
  cells: `AlwaysSplitsRegion`, `AlwaysMeasuresWholeKernels`, `AccumulatorsAlwaysAgree`;
  and `EveryRadiusHasOneThread`.
- `WorkerUsm_proofs`, for any number of tasks and all capacities a 16-bit count allows: every
  safety property of `usm_safety` (`TypeCorrect`, `TasksAlwaysAccountedFor`,
  `OnlyOwnedTasksAreLookedUp`, `NeverManipulatedWhileChanging`,
  `ResourcesAlwaysAccountedFor`, `DeviceAlwaysUsesHeldGroups`, `ChangesAreSeenOneByOne`), that
  the branch of `processTasks` which drops a task is never taken (`NothingIsDropped`), and the
  safety half of the refinement (`KeepsItsPromise`: the worker implements `DeviceQueue`
  without its fairness).
- `TransferUsm_proofs`, likewise: `UsesWorkerUnchanged` and `BorrowsWhatTheTaskHolds`, also where
  copies throw; `GroupsAlwaysHoldOwnData` and `NothingEverOutlivesTheLoan` where none does.
- `AdaptiveHoughGpuKernel_proofs`, for all events, wedges, precisions and thresholds:
  `SectionsNeverOverlap`, `SlotsAlwaysHoldAcceptedCells`, `SectionsAlwaysFitBuffer`,
  `SearchAlwaysTilesRegion`, `EveryPointIsAlwaysSearched`, and of the operators it calls
  `SortIsSorting` and `OrderCheckKeepsTracks`.

The assumptions are those the modules name: at least one worker and one buffer
(`ComputingManager.cpp:28`: "Expects at leas one worker"), `NoEvent` is not an
event, `EventList` lists the events without repetition, a vector's capacity above 0, points
and sizes that are integers, radii above 0 and angles within a turn, at most
65534 groups in a pool (with 65535 the constructor's 16-bit loop would not end), and model
values that are not data (`NoMemory`, `Garbage`, ...).

*The manager's inductive invariant.* None of the properties is inductive. That
`assignBuffer` never refuses needs to know that a buffer in the ready queue is
READY and a worker in the waiting queue WAITING; that is kept by the poll only
because the two vectors are aligned; alignment is kept by removing entries only
because an index is in one place. `IInv` therefore states, besides the types,
where every index is (`BuffersInPlace`, `WorkersInPlace`), that the vectors are
parallel, what a place means for the object (`BuffersByQueue`,
`WaitingWorkersIdle`, `WorkersInFlight`: a worker in flight has its buffer, its
buffer has the event the kernel reads), when the solutions vector exists, and
which events are held and collected. `InvNext` has one lemma per action.
`Refinement` then needs that a free buffer leaves room in the pipeline
(`RoomForEvent`, by cardinalities).

*The memory's.* The methods leave pointers and flags behind: after `deallocateOnDevice`
the pointer, and `resourcesBorrowed_` if a group was taken before. What saves an
`EventUsm` is that both `deallocateOnDevice` and `releaseResourceGroup` clear the queue, which
every transfer compares. So `IInv` says that a pointer to a block is nobody else's even
when it is stale (`PointersAreOwn`), and that an object without memory of its own but
with a queue points to the group lent to it (`QueueMeansLent`).

*The worker's* (`WorkerUsm_proofs`). `IInv` says in which one place a task is (`InOnePlace`:
the set of changed ids, the two queues, the host's hands, or with a thread of its own), what
a task holds in each state and where its thread can be then (`TasksConsistent`), and that the
pools and the work load agree with what the tasks hold (`EventPool`, `ResultPool`,
`WorkLoadIsQueued`). Each needs the others: that a notification finds no second copy of its
id needs the thread to have been the task's one place; that a group handed back was lent
needs the task's state to say that it holds it; that a 16-bit counter does not wrap needs
the pool to lack a group whenever the load is above zero. The pool is one predicate `Pool`
of a queue, a load and its holders, with lemmas for taking and for returning a group that
serve both kinds. `NotManipulatedWhileChanging` then says why the host may read a state
that another thread writes without a lock. For `OneChangePerNotification` and the
refinement each action's lemma also shows that it changes no task whose last change is
unseen, and is a step of `DeviceQueue` or none.

*The data's* (`TransferUsm_proofs`). Every step is a step of the worker or leaves it as it is
(`UsesWorkerUnchanged`), so all that is proved of the worker holds here. On top of `IInv`,
`TransferInv` says that an `EventUsm` borrows the group its task holds and nothing else
(`DataFollowTasks`), that what was submitted is awaited by a thread of a task still in the state
it was submitted in and uses that task's groups (`OperationsAwaited`), and that what a thread
is to bring about is still pending or has been done (`EventsArrive`, `SolutionsArrive`).
Groups are at rest when they are returned because the thread that awaited the operations
has to end before the host looks at the task again. The first part holds whatever throws; the rest
needs `~ SubmitMayThrow`: a `memcpy` that throws after others were submitted makes the
method return an empty set, and the copies under way are then awaited by nobody.

*The kernel's* (`AdaptiveHoughGpuKernel_proofs`). `KernelInv` says that the sections on the
stack and those done with do not overlap and lie in the region of the wedge (`StackIsTiled`),
that a section is on one side of q/pt = 0 unless it is the whole range
(`SidesAreSeparate`, without which a cut at the sign would not cut at zero), and that the
accepted cells fill the slots in order. It holds for all points, precisions, wedges and
thresholds. Four theorems assume more of the constants or of their arguments:

- `SectionsAlwaysFitBuffer` assumes `BufferSuffices`. A section that can still be halved x
  times in phi and y times in q/pt needs `Needs(x, y)` places above it: three for each cut in
  four, one for each in two. The buffer suffices when it has one more than what the
  region needs. `Constants.h:48` says of its size, 100, "need to be checked experimentally";
  the theorem gives the number: with h halvings of both coordinates the stack holds at
  most 1 + 3h sections, so 100 places do up to 33 halvings.
- `SearchAlwaysTilesRegion` assumes `HalvingIsExact`. The code halves doubles, which loses
  nothing; halving integers does, unless the unit is a small enough part of the region.
  Without it the sections still never overlap (`SectionsNeverOverlap`).
- `EveryPointIsAlwaysSearched` assumes `WedgesFill`: the wedges cut the ranges of phi and eta
  into equal parts (with integer halves); the range of phi reaches PI on both sides and
  stays within one turn of it, so that no angle is missing and moving one by a turn
  cannot leave the wedge; no wedge ends exactly at +-PI, where `MovedPhi` would not move
  what `phi_wrap` does; and a wedge is at least as wide in eta as its edges are kept away
  from 0. The constants of `Constants.h` (3.1416 for the range, wedges widened by 0.12)
  are of this kind. The proof splits by which side of 0 the two edges are on, and shows for
  each of the three shapes of a wedge that a point on the far side of one edge is on the near
  side of the next wedge's; the products and quotients are taken one at a time.
- `SortIsSorting` and `OrderCheckKeepsTracks` assume that distances stay below the number
  `sort` marks placed lines with, and that slopes divide `DistanceUnit`.

`InstanceSuits`, `WedgesSuit` and `LinesSuit` have TLC check these on the instance of the run
`kernel`, the first with the least buffer it allows.

*The sort and the check of the order of crossings.* `sort` is a loop over two arrays; after k
turns the first k places have the k nearest lines in order, the others have the rest and no
distance of theirs is below (`IsSortedUpTo`, kept by `TurnSorts`). The induction over the
turns uses `SetInduction`, which speaks of a set and not of an operator and follows from the
well-foundedness of the naturals. `OrderCheckKeepsTracks` is the promise of
`countHits_checkOrder` to a track: lines that cross pairwise in a cell enter and leave every
section around it in opposite orders (`CrossingTurnsOrder`, by cases on which edge each line
passes), so at most one of them can have the same place in both orders (`ReversedOrders`),
whatever other lines pass the section.

*The small parts'* (`HostParts_proofs`, `DeviceParts_proofs`). Each has an invariant of its
own; they share no state.

- Event loading (`LoadInv`): the map holds the accepted points of the entries read so far, by
  id, each at the place its entry has among the accepted ones (`Rank`); while ids are visited
  the list has the chosen of those visited, by ascending id, with what the map holds of them.
- Loggers (`LogInv`): a path has at most one open logger, and a file is what its messages
  give when they are framed, without the closing bracket as long as the logger is there.
- Test runner (`RunnerInv`): a turn of the loop puts the suite it ran into one list, and no
  suite runs before the list of suites is read.
- Splitter (`SplitInv`): what the work items have done is a function of where they are.
  An item takes every w-th point, so the points counted are those with a number below
  the place of their item (`Reached`), and an item between its test and its increment is at
  one that is not counted yet.
- Data transfers (`TestInv`): the host is at a place of one of three scripts (`FollowsScript`);
  what is submitted and not read yet is under way or done (`KernelsFollow`), and what the
  clock covers follows from the place in the script (`TimedFollows`).
- Accumulators (`AccInv`): each is a function of the points filled so far. `PassedIsHit` and
  `HitIsPassed` are the arithmetic: off the corners, rounding the two edges of a column gives
  the rows whose cells the line passes.

Only model-checked:

- Liveness (`DrainReturns`, `Finishes`, `EveryTaskCompletes`, `ErrorsDoNotBlock`, `SearchEnds` and
  the fairness part of `ImplementsDeviceQueue`), which is out of the prover's reach.
- `CandidatesAreExamined`, that a track's cell is examined. The theorems have its two
  halves that hold everywhere: the search looks at every place (`SearchAlwaysTilesRegion`)
  and the check of the order of crossings does not reject a track as parallel
  (`OrderCheckKeepsTracks`). As a whole it is not true of every geometry: before that check
  points are dropped that are far from the mean angle of all lines of the section
  (`WithoutOutliers`) or on the wrong side of it (`isPhiOnTheRightSide`, section 5), and either
  can take a track's points if the check is made in a section much larger than the cell.
  The run shows it for a check at the last level.
- What the linearity tests and `prepare_y_idx` compute (sums over sequences; a helper the
  code no longer calls).

## 5. What was noticed in the code

Besides the findings of the violation runs, the models contain what the code does where
a reader of its comments might expect something else:

- Kernel (`HS/src/AdaptiveHoughGpuKernel.cpp`): the comment at 508-509 says the line
  further from the centre of the section is rejected, 517-526 reject the nearer one
  (`RejectOne`); 511 compares a signed difference of angles; 555 gives
  `isCurvatureRight` a radius where it takes an angle; 451 and 578 leave the last line
  out of the rotated copy; 418 records one line less than the maximum as 111; 176 compares
  an angle with a momentum threshold; 622 asserts one place less than the array has.
- `Sorting.h:60-92`: `isPhiOnTheRightSide` compares a point with the left edge of the section for
  either charge. For a negative one a point that is on the right side of a cell is so of every
  section around it; for a positive one it need not be, so only a check at the last
  levels keeps it.
- `ZPhiPartitioning.h:57-58` computes a line's offset as -a / z0, not -a * z0 as the
  comment at 4-8 has it; `Wedge` keeps that, with `ZUnitSquared` for the unit this mixes up.
- Event loading: an event is excluded for its hits in a region only if those hits
  have survived the exclusion of points; a file type other than `root_spacepoints` gives a
  null pointer that the loop dereferences; a platform without a loop returns silently.
- `Splitter`: two work items may read the same count, so places are overwritten and others
  left unwritten (`FragmentsWithinCount` says what is true); the assertion of `setup` would
  reject the split `main` uses, and is compiled out.
- `GpuDataTransferTest` assigns new vectors to the storage its buffers were built on (149,
  163), and prints exactly ten times, whatever the number of iterations.
- `JsonLogger` ends every record with a comma, the last one too, so a file is not quite JSON.
- `2d-acc.py` (148-149) turns indices back into coordinates with `x_dpi` where the forward
  direction has `x_dpi - 1`.
- `run_test.py`: an exception other than `FileNotFoundError` ends it without a summary; the
  result `process_error` cannot occur; its exit code is always 0.
- The tasks' threads of the USM programs log through one global logger without a lock.

## 6. Not modelled, and the plan

Left out: `malloc_device` or `free` failing half way, the iterators of
`ConstSizeVector`, more than one work item of the kernel, floating-point rounding, ROOT
files, device selection and the programs that print device properties, the macros of
`Debug`, the plotting macros in `old/tools/TBoxPlot`, and the rest of `old/`, whose sources
are earlier copies of those in `HS`. `EventUsm::transferToHost` and
`ResultUsm::transferToDevice`, which no task calls, appear only as the conditions under
which they go ahead.

What a next step would add:

1. `CandidatesAreExamined` from conditions on the geometry: how large a section may be, for
   given thresholds, before `WithoutOutliers` or `isPhiOnTheRightSide` can drop a track.
2. More than one work item of the kernel (`ADAPTIVE_KERNEL_INITIAL_DIVISIONS` above 1), where
   the items share the buffer of solutions.
