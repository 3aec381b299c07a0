--------------------------- MODULE WorkerUsm_proofs ---------------------------
(***************************************************************************)
(* What holds of a worker for every number of tasks and every capacity of  *)
(* its queue.  The inductive invariant says in which one place a task is,  *)
(* what it holds in each of its states, and that the two pools of groups   *)
(* and the work load agree with what the tasks hold.  Each action has a    *)
(* lemma: it preserves the invariant, it changes no task whose last change *)
(* is still unseen, and it is a step of DeviceQueue or no step of it.      *)
(***************************************************************************)
EXTENDS WorkerUsm, QueueLemmas, FiniteSetTheorems

-----------------------------------------------------------------------------
(* The inductive invariant.                                                *)

\* NoTaskTwice without the set of places: each place excludes those after it.
OnePlace ==
    /\ \A t \in Tasks :
        /\ t \in tasksWithChangedState =>
            /\ t \notin Range(tasksToProcess)
            /\ t \notin Range(notProcessedTasks)
            /\ current # t
            /\ threads[t] = "none"
        /\ t \in Range(tasksToProcess) =>
            /\ t \notin Range(notProcessedTasks)
            /\ current # t
            /\ threads[t] = "none"
        /\ t \in Range(notProcessedTasks) => current # t /\ threads[t] = "none"
        /\ current = t => threads[t] = "none"
    /\ IsInjective(tasksToProcess)
    /\ IsInjective(notProcessedTasks)

\* NoTaskForgotten and OnlyOwnedTasksMove in one: the worker's tasks are those
\* that are somewhere.
SomePlace ==
    \A t \in Tasks :
        t \in tasks <=> \/ t \in tasksWithChangedState
                        \/ t \in Range(tasksToProcess)
                        \/ t \in Range(notProcessedTasks)
                        \/ current = t
                        \/ threads[t] # "none"

\* Between two calls of processTasks nothing is left over.
BetweenSweeps == ~ processing => notProcessedTasks = <<>> /\ current = NoTask

\* What a task holds in each state, and where its thread can be then.
Consistent(task, thread) ==
    /\ task.state \in {"Created", "EventAndResultAssigned", "ReadyToQueue", "Completed"} =>
        ~ task.eventAssigned /\ ~ task.resultAssigned
    /\ task.state = "WaitingForResources" => ~ (task.eventAssigned /\ task.resultAssigned)
    /\ task.state \in {"WaitingForEventTransfer", "WaitingForExecution", "Executed"} =>
        task.eventAssigned /\ task.resultAssigned
    /\ task.state \in {"WaitingForResultTransfer", "ResultTransferred"} =>
        ~ task.eventAssigned /\ task.resultAssigned
    /\ task.changing <=> thread \in {"checkout", "submit", "wait"}
    /\ thread \in {"checkout", "submit", "wait", "set"} => task.state \in ThreadStates

TasksConsistent == \A t \in Tasks : Consistent(objects[t], threads[t])

\* The worker owns what was submitted, and hands back what is completed.
TasksOwned ==
    /\ \A t \in tasks : objects[t].state \notin {"Created", "EventAndResultAssigned"}
    /\ \A t \in completed : objects[t].state = "Completed"

\* A pool of groups: every group is free, once, or lent, to one holder; the load
\* is the number of those lent.
Pool(free, load, capacity, holders, group) ==
    /\ \A t \in holders :
        /\ group[t] \in (1 .. capacity) \ Range(free)
        /\ \A u \in holders : group[t] = group[u] => t = u
    /\ IsInjective(free)
    /\ 1 .. capacity = Range(free) \cup {group[t] : t \in holders}
    /\ load + Len(free) = capacity

EventGroupOf == [t \in Tasks |-> objects[t].eventGroup]
ResultGroupOf == [t \in Tasks |-> objects[t].resultGroup]

EventPool ==
    Pool(freeEventResources, eventResourcesLoad, EventCapacity, HoldersOfEvent, EventGroupOf)

ResultPool ==
    Pool(freeResultResources, resultResourcesLoad, ResultCapacity, HoldersOfResult,
         ResultGroupOf)

InOnePlace == OnePlace /\ SomePlace /\ BetweenSweeps

IInv ==
    /\ TypeOK
    /\ InOnePlace
    /\ TasksConsistent
    /\ TasksOwned
    /\ EventPool
    /\ ResultPool
    /\ WorkLoadIsQueued

-----------------------------------------------------------------------------
(* The pools.                                                              *)

\* All the proofs need to know of the width.
LEMMA WidthFacts == Width \in Nat /\ Width > 2
    BY DEF Width

\* Within the width of its type a counter is an integer.
LEMMA CounterFacts ==
    /\ \A n \in 0 .. Width - 2 : Plus(n) = n + 1
    /\ \A n \in 1 .. Width - 1 : Minus(n) = n - 1
    BY WidthFacts DEF Plus, Minus

\* The numbers of n groups, or n places.
LEMMA UpTo ==
    ASSUME NEW n \in Nat
    PROVE  IsFiniteSet(1 .. n) /\ Cardinality(1 .. n) = n
<1>1. 1 \in Int /\ n \in Int
    OBVIOUS
<1> QED BY <1>1, FS_Interval

\* A pool that lacks one of its groups, and has none twice, is not full.
LEMMA NotFull ==
    ASSUME NEW capacity \in Nat, NEW s \in Seq(1 .. capacity), IsInjective(s),
           NEW g \in 1 .. capacity, g \notin Range(s)
    PROVE  Len(s) < capacity
<1> DEFINE S == (1 .. capacity) \ {g}
<1>1. IsFiniteSet(1 .. capacity) /\ Cardinality(1 .. capacity) = capacity
    BY UpTo
<1>2. IsFiniteSet(S) /\ Cardinality(S) = capacity - 1
    BY <1>1, FS_RemoveElement
<1>3. IsFiniteSet(1 .. Len(s)) /\ Cardinality(1 .. Len(s)) = Len(s)
    <2>1. Len(s) \in Nat
        OBVIOUS
    <2> QED BY <2>1, UpTo
<1>4. /\ s \in [1 .. Len(s) -> S]
      /\ \A i, j \in 1 .. Len(s) : s[i] = s[j] => i = j
    BY DEF Range, IsInjective
<1>5. ~ Cardinality(S) < Cardinality(1 .. Len(s))
    <2> HIDE DEF S
    <2> SUFFICES ASSUME Cardinality(S) < Cardinality(1 .. Len(s)) PROVE FALSE
        OBVIOUS
    <2> DEFINE D == 1 .. Len(s)
    <2>1. s \in [D -> S] /\ IsFiniteSet(D) /\ IsFiniteSet(S)
        BY <1>2, <1>3, <1>4
    <2>2. Cardinality(S) < Cardinality(D)
        OBVIOUS
    <2> HIDE DEF D
    <2>3. \E i, j \in D : i # j /\ s[i] = s[j]
        BY <2>1, <2>2, FS_PigeonHole
    <2> QED BY <1>4, <2>3 DEF D
<1> QED BY <1>2, <1>3, <1>5

\* get...ResourceGroup from a pool whose load is not its capacity: the pool has a
\* group, and the task that takes it is its only holder.
LEMMA PoolTake ==
    ASSUME NEW capacity \in 0 .. Width - 2, NEW free \in Seq(1 .. capacity),
           NEW load \in Capacities, load # capacity,
           NEW holders, NEW t, t \notin holders, NEW group, NEW group2,
           Pool(free, load, capacity, holders, group),
           group2[t] = Head(free),
           \A u \in holders : group2[u] = group[u]
    PROVE  /\ free # <<>>
           /\ Head(free) \in 1 .. capacity
           /\ Tail(free) \in Seq(1 .. capacity)
           /\ Plus(load) \in Capacities
           /\ Pool(Tail(free), Plus(load), capacity, holders \cup {t}, group2)
<1>1. load + Len(free) = capacity /\ Len(free) \in Nat
    BY DEF Pool
<1>2. free # <<>> /\ Len(Tail(free)) = Len(free) - 1 /\ Plus(load) = load + 1
    BY <1>1, CounterFacts, WidthFacts DEF Capacities
<1>3. /\ Head(free) \in 1 .. capacity
      /\ Tail(free) \in Seq(1 .. capacity)
      /\ Range(free) = Range(Tail(free)) \cup {Head(free)}
      /\ IsInjective(Tail(free)) /\ Head(free) \notin Range(Tail(free))
    BY <1>2, PopFacts DEF Pool
<1>4. Plus(load) \in Capacities /\ Plus(load) + Len(Tail(free)) = capacity
    BY <1>1, <1>2, WidthFacts DEF Capacities
<1>5. {group2[u] : u \in holders \cup {t}} = {group[u] : u \in holders} \cup {Head(free)}
    OBVIOUS
<1>6. \A u \in holders \cup {t} :
          /\ group2[u] \in (1 .. capacity) \ Range(Tail(free))
          /\ \A v \in holders \cup {t} : group2[u] = group2[v] => u = v
    <2>1. \A u \in holders : group2[u] \in (1 .. capacity) \ Range(free)
        BY DEF Pool
    <2>2. \A u, v \in holders : group2[u] = group2[v] => u = v
        BY DEF Pool
    <2>3. \A u \in holders : group2[u] # group2[t]
        BY <1>3, <2>1
    <2> QED BY <1>3, <2>1, <2>2, <2>3
<1>7. 1 .. capacity = Range(Tail(free)) \cup {group2[u] : u \in holders \cup {t}}
    BY <1>3, <1>5 DEF Pool
<1> QED BY <1>2, <1>3, <1>4, <1>6, <1>7 DEF Pool

\* return...ResourceGroup of the group a task holds.
LEMMA PoolReturn ==
    ASSUME NEW capacity \in 0 .. Width - 2, NEW free \in Seq(1 .. capacity),
           NEW load \in Capacities,
           NEW holders, NEW t \in holders, NEW group, NEW group2,
           Pool(free, load, capacity, holders, group),
           \A u \in holders : group2[u] = group[u]
    PROVE  /\ Append(free, group[t]) \in Seq(1 .. capacity)
           /\ Minus(load) \in Capacities
           /\ Pool(Append(free, group[t]), Minus(load), capacity, holders \ {t}, group2)
<1>1. load + Len(free) = capacity /\ Len(free) \in Nat /\ capacity \in Nat
    BY WidthFacts DEF Pool
<1>2. group[t] \in 1 .. capacity /\ group[t] \notin Range(free) /\ IsInjective(free)
    BY DEF Pool
<1>3. Len(free) < capacity
    BY <1>1, <1>2, NotFull
<1>4. load \in 1 .. Width - 1
    BY <1>1, <1>3, WidthFacts DEF Capacities
<1>5. Minus(load) = load - 1 /\ Len(Append(free, group[t])) = Len(free) + 1
    BY <1>2, <1>4, CounterFacts
<1>6. Minus(load) \in Capacities /\ Minus(load) + Len(Append(free, group[t])) = capacity
    BY <1>1, <1>4, <1>5, WidthFacts DEF Capacities
<1>7. /\ Append(free, group[t]) \in Seq(1 .. capacity)
      /\ Range(Append(free, group[t])) = Range(free) \cup {group[t]}
      /\ IsInjective(Append(free, group[t]))
    BY <1>2, PushFacts
<1>8. \A u \in holders \ {t} :
          /\ group2[u] \in (1 .. capacity) \ (Range(free) \cup {group[t]})
          /\ \A v \in holders \ {t} : group2[u] = group2[v] => u = v
    BY DEF Pool
<1>9. 1 .. capacity = Range(free) \cup {group[t]} \cup {group2[u] : u \in holders \ {t}}
    <2>1. {group[u] : u \in holders} = {group[t]} \cup {group2[u] : u \in holders \ {t}}
        OBVIOUS
    <2> QED BY <2>1 DEF Pool
<1> QED BY <1>6, <1>7, <1>8, <1>9 DEF Pool

-----------------------------------------------------------------------------
(* The tasks.                                                              *)

\* setState keeps what the task holds.
LEMMA SetStateFacts ==
    ASSUME NEW task \in TaskObjects, NEW state \in TaskStates
    PROVE  /\ SetState(task, state) \in TaskObjects
           /\ SetState(task, state).state = state
           /\ SetState(task, state).changing = task.changing
           /\ SetState(task, state).eventAssigned = task.eventAssigned
           /\ SetState(task, state).resultAssigned = task.resultAssigned
           /\ SetState(task, state).eventGroup = task.eventGroup
           /\ SetState(task, state).resultGroup = task.resultGroup
    BY DEF SetState, TaskObjects

\* A thread that starts or ends changes isStateChanging_ and nothing else.
LEMMA ChangingFacts ==
    ASSUME NEW task \in TaskObjects
    PROVE  /\ BeginStateChange(task) \in TaskObjects
           /\ BeginStateChange(task).changing = TRUE
           /\ BeginStateChange(task).state = task.state
           /\ BeginStateChange(task).eventAssigned = task.eventAssigned
           /\ BeginStateChange(task).resultAssigned = task.resultAssigned
           /\ BeginStateChange(task).eventGroup = task.eventGroup
           /\ BeginStateChange(task).resultGroup = task.resultGroup
           /\ EndStateChange(task) \in TaskObjects
           /\ EndStateChange(task).changing = FALSE
           /\ EndStateChange(task).state = task.state
           /\ EndStateChange(task).eventAssigned = task.eventAssigned
           /\ EndStateChange(task).resultAssigned = task.resultAssigned
           /\ EndStateChange(task).eventGroup = task.eventGroup
           /\ EndStateChange(task).resultGroup = task.resultGroup
    BY DEF BeginStateChange, EndStateChange, TaskObjects

\* A release gives up one kind of group, keeps its number and moves the task on.
LEMMA ReleaseFacts ==
    ASSUME NEW task \in TaskObjects
    PROVE  /\ ReleaseEventResourceGroup(task) \in TaskObjects
           /\ ReleaseEventResourceGroup(task).state = "WaitingForResultTransfer"
           /\ ReleaseEventResourceGroup(task).changing = task.changing
           /\ ReleaseEventResourceGroup(task).eventAssigned = FALSE
           /\ ReleaseEventResourceGroup(task).resultAssigned = task.resultAssigned
           /\ ReleaseEventResourceGroup(task).eventGroup = task.eventGroup
           /\ ReleaseEventResourceGroup(task).resultGroup = task.resultGroup
           /\ ReleaseResultResourceGroup(task) \in TaskObjects
           /\ ReleaseResultResourceGroup(task).state = "Completed"
           /\ ReleaseResultResourceGroup(task).changing = task.changing
           /\ ReleaseResultResourceGroup(task).eventAssigned = task.eventAssigned
           /\ ReleaseResultResourceGroup(task).resultAssigned = FALSE
           /\ ReleaseResultResourceGroup(task).eventGroup = task.eventGroup
           /\ ReleaseResultResourceGroup(task).resultGroup = task.resultGroup
    BY DEF ReleaseEventResourceGroup, ReleaseResultResourceGroup, SetState, TaskObjects,
           TaskStates

\* A take records the group and, once the task has both kinds, moves it on.
LEMMA TakeEventFacts ==
    ASSUME NEW task \in TaskObjects, NEW g \in EventGroups
    PROVE  /\ TakeEventResources(task, g) \in TaskObjects
           /\ TakeEventResources(task, g).state = IF task.resultAssigned
                                                 THEN "WaitingForEventTransfer"
                                                 ELSE task.state
           /\ TakeEventResources(task, g).changing = task.changing
           /\ TakeEventResources(task, g).eventAssigned = TRUE
           /\ TakeEventResources(task, g).resultAssigned = task.resultAssigned
           /\ TakeEventResources(task, g).eventGroup = g
           /\ TakeEventResources(task, g).resultGroup = task.resultGroup
<1> DEFINE with == [task EXCEPT !.eventGroup = g, !.eventAssigned = TRUE]
<1>1. /\ with \in TaskObjects
      /\ with.state = task.state
      /\ with.changing = task.changing
      /\ with.eventAssigned = TRUE
      /\ with.resultAssigned = task.resultAssigned
      /\ with.eventGroup = g
      /\ with.resultGroup = task.resultGroup
    BY DEF TaskObjects
<1>2. TakeEventResources(task, g) = CheckResourcesAssigned(with)
    BY DEF TakeEventResources
<1>3. "WaitingForEventTransfer" \in TaskStates
    BY DEF TaskStates
<1> HIDE DEF with
<1> QED BY <1>1, <1>2, <1>3, SetStateFacts DEF CheckResourcesAssigned

\* The same of a result group.
LEMMA TakeResultFacts ==
    ASSUME NEW task \in TaskObjects, NEW g \in ResultGroups
    PROVE  /\ TakeResultResources(task, g) \in TaskObjects
           /\ TakeResultResources(task, g).state = IF task.eventAssigned
                                                  THEN "WaitingForEventTransfer"
                                                  ELSE task.state
           /\ TakeResultResources(task, g).changing = task.changing
           /\ TakeResultResources(task, g).resultAssigned = TRUE
           /\ TakeResultResources(task, g).eventAssigned = task.eventAssigned
           /\ TakeResultResources(task, g).resultGroup = g
           /\ TakeResultResources(task, g).eventGroup = task.eventGroup
<1> DEFINE with == [task EXCEPT !.resultGroup = g, !.resultAssigned = TRUE]
<1>1. /\ with \in TaskObjects
      /\ with.state = task.state
      /\ with.changing = task.changing
      /\ with.resultAssigned = TRUE
      /\ with.eventAssigned = task.eventAssigned
      /\ with.resultGroup = g
      /\ with.eventGroup = task.eventGroup
    BY DEF TaskObjects
<1>2. TakeResultResources(task, g) = CheckResourcesAssigned(with)
    BY DEF TakeResultResources
<1>3. "WaitingForEventTransfer" \in TaskStates
    BY DEF TaskStates
<1> HIDE DEF with
<1> QED BY <1>1, <1>2, <1>3, SetStateFacts DEF CheckResourcesAssigned

\* A step that gives one task another value leaves the others alone.
LEMMA OneTaskChanges ==
    ASSUME TypeOK, NEW t \in Tasks, NEW after \in TaskObjects,
           objects' = [objects EXCEPT ![t] = after]
    PROVE  /\ objects' \in [Tasks -> TaskObjects]
           /\ objects'[t] = after
           /\ \A u \in Tasks \ {t} : objects'[u] = objects[u]
    BY DEF TypeOK

-----------------------------------------------------------------------------
(* What the action lemmas share.                                           *)

\* The two pools, when no task takes or gives up anything.
LEMMA PoolsKept ==
    ASSUME EventPool, ResultPool, UNCHANGED <<eventPoolVars, resultPoolVars>>,
           \A u \in Tasks : /\ objects'[u].eventAssigned = objects[u].eventAssigned
                            /\ objects'[u].eventGroup = objects[u].eventGroup
                            /\ objects'[u].resultAssigned = objects[u].resultAssigned
                            /\ objects'[u].resultGroup = objects[u].resultGroup
    PROVE  EventPool' /\ ResultPool'
<1>1. HoldersOfEvent' = HoldersOfEvent /\ HoldersOfResult' = HoldersOfResult
    BY DEF HoldersOfEvent, HoldersOfResult
<1>2. EventGroupOf' = EventGroupOf /\ ResultGroupOf' = ResultGroupOf
    BY DEF EventGroupOf, ResultGroupOf
<1>3. UNCHANGED <<freeEventResources, eventResourcesLoad, freeResultResources,
                  resultResourcesLoad>>
    BY DEF eventPoolVars, resultPoolVars
<1> QED BY <1>1, <1>2, <1>3 DEF EventPool, ResultPool, Pool

\* The work load, when no task enters or leaves the queue.
LEMMA LoadKept ==
    ASSUME WorkLoadIsQueued, UNCHANGED <<workLoad, tasks>>,
           \A u \in tasks : objects'[u].state = "ReadyToQueue"
                                <=> objects[u].state = "ReadyToQueue"
    PROVE  Queued' = Queued /\ WorkLoadIsQueued'
<1>1. Queued' = Queued
    BY DEF Queued
<1> QED BY <1>1 DEF WorkLoadIsQueued

\* The task in the worker's hands is its own, and nothing else is about to
\* happen to it.
LEMMA HandledTask ==
    ASSUME IInv, NEW t \in Tasks, current = t
    PROVE  /\ t \in tasks
           /\ t \notin tasksWithChangedState
           /\ t \notin Range(tasksToProcess)
           /\ t \notin Range(notProcessedTasks)
           /\ threads[t] = "none"
           /\ processing = TRUE
           /\ objects[t] \in TaskObjects
           /\ Consistent(objects[t], "none")
           /\ objects[t].state \notin {"Created", "EventAndResultAssigned"}
<1>1. /\ t \in tasks
      /\ t \notin tasksWithChangedState
      /\ t \notin Range(tasksToProcess)
      /\ t \notin Range(notProcessedTasks)
      /\ threads[t] = "none"
    BY DEF IInv, InOnePlace, OnePlace, SomePlace
<1>2. processing = TRUE
    BY TasksAssumption DEF IInv, InOnePlace, BetweenSweeps, TypeOK, TasksAssumption
<1>3. /\ objects[t] \in TaskObjects /\ Consistent(objects[t], threads[t])
      /\ t \in tasks => objects[t].state \notin {"Created", "EventAndResultAssigned"}
    BY DEF IInv, TypeOK, TasksConsistent, TasksOwned
<1> QED BY <1>1, <1>2, <1>3

\* Where the tasks are, with the types of the variables that say so.
Moves ==
    /\ InOnePlace
    /\ threads \in [Tasks -> ThreadPlaces]
    /\ tasks \in SUBSET Tasks
    /\ tasksWithChangedState \in SUBSET Tasks
    /\ tasksToProcess \in Seq(Tasks)
    /\ notProcessedTasks \in Seq(Tasks)
    /\ processing \in BOOLEAN
    /\ current \in Tasks \cup {NoTask}

\* What a handler does to the places: the task goes back to the ones not
\* processed, its change is to be seen, its thread starts, or it is handed back.
LEMMA HandlerMoves ==
    ASSUME IInv, NEW t \in Tasks, current = t,
           NEW processed \in BOOLEAN, HandlerReturns(t, processed),
           \/ /\ ~ processed
              /\ UNCHANGED <<tasksWithChangedState, threads, tasks>>
           \/ /\ processed
              /\ tasksWithChangedState' = tasksWithChangedState \cup {t}
              /\ UNCHANGED <<threads, tasks>>
           \/ /\ processed
              /\ threads' = [threads EXCEPT ![t] = "checkout"]
              /\ UNCHANGED <<tasksWithChangedState, tasks>>
           \/ /\ processed
              /\ tasks' = tasks \ {t}
              /\ UNCHANGED <<tasksWithChangedState, threads>>
    PROVE  Moves'
<1> USE DEF IInv, TypeOK, InOnePlace
<1>1. /\ t \in tasks
      /\ t \notin tasksWithChangedState
      /\ t \notin Range(tasksToProcess)
      /\ t \notin Range(notProcessedTasks)
      /\ threads[t] = "none"
      /\ processing = TRUE
    BY HandledTask
<1>2. /\ current' = NoTask /\ NoTask \notin Tasks
      /\ tasksToProcess' = tasksToProcess /\ processing' = TRUE
    BY <1>1, TasksAssumption DEF HandlerReturns, TasksAssumption
<1>3. /\ Range(notProcessedTasks') = IF processed THEN Range(notProcessedTasks)
                                                 ELSE Range(notProcessedTasks) \cup {t}
      /\ notProcessedTasks' \in Seq(Tasks)
      /\ IsInjective(notProcessedTasks')
    <2>1. notProcessedTasks \in Seq(Tasks) /\ IsInjective(notProcessedTasks)
        BY DEF OnePlace
    <2>2. /\ Append(notProcessedTasks, t) \in Seq(Tasks)
          /\ Range(Append(notProcessedTasks, t)) = Range(notProcessedTasks) \cup {t}
          /\ IsInjective(Append(notProcessedTasks, t))
        BY <1>1, <2>1, PushFacts
    <2>3. notProcessedTasks' = IF processed THEN notProcessedTasks
                                            ELSE Append(notProcessedTasks, t)
        BY DEF HandlerReturns
    <2> QED BY <2>1, <2>2, <2>3
<1>4. /\ threads' \in [Tasks -> ThreadPlaces]
      /\ \A u \in Tasks \ {t} : threads'[u] = threads[u]
      /\ tasks' \in SUBSET Tasks
      /\ tasksWithChangedState' \in SUBSET Tasks
    BY DEF ThreadPlaces
<1>5. BetweenSweeps'
    BY <1>2 DEF BetweenSweeps
<1>6. OnePlace'
    BY <1>1, <1>2, <1>3, <1>4 DEF OnePlace
<1>7. SomePlace'
    BY <1>1, <1>2, <1>3, <1>4 DEF SomePlace
<1> QED BY <1>2, <1>3, <1>4, <1>5, <1>6, <1>7 DEF Moves

-----------------------------------------------------------------------------
\* What each action is shown to do: it preserves the invariant, overwrites no
\* change that is still to be seen, and does nothing the client was not promised.
Sound == IInv' /\ KeepsUnseenChanges /\ [Promise!Next]_(Promise!vars)

\* A step that leaves tasks_, the device queue and the completed tasks alone is
\* nothing to the client.
LEMMA ClientSeesNothing ==
    ASSUME UNCHANGED <<tasks, completed>>, Queued' = Queued
    PROVE  [Promise!Next]_(Promise!vars)
<1>1. UNCHANGED Promise!vars
    BY DEF Promise!vars
<1> QED BY <1>1

-----------------------------------------------------------------------------
(* The client's calls.                                                     *)

\* The task is nobody's yet: the worker does not see the change.
LEMMA GiveEventAndResultKeeps ==
    ASSUME IInv, NEW t \in Tasks, GiveEventAndResult(t)
    PROVE  Sound
<1> DEFINE after == TakeEventAndResult(objects[t])
<1>1. /\ objects' = [objects EXCEPT ![t] = after]
      /\ UNCHANGED <<queueVars, threads, workerVars>>
    BY DEF GiveEventAndResult
<1>2. /\ objects[t] \in TaskObjects /\ objects[t].state = "Created"
      /\ Consistent(objects[t], threads[t])
    BY DEF IInv, TypeOK, TasksConsistent, GiveEventAndResult
<1>3. "EventAndResultAssigned" \in TaskStates
    BY DEF TaskStates
<1>4. /\ after \in TaskObjects /\ after.state = "EventAndResultAssigned"
      /\ after.changing = objects[t].changing
      /\ after.eventAssigned = objects[t].eventAssigned
      /\ after.resultAssigned = objects[t].resultAssigned
      /\ after.eventGroup = objects[t].eventGroup
      /\ after.resultGroup = objects[t].resultGroup
    BY <1>2, <1>3, SetStateFacts DEF TakeEventAndResult
<1> HIDE DEF after
<1>5. /\ objects' \in [Tasks -> TaskObjects] /\ objects'[t] = after
      /\ \A u \in Tasks \ {t} : objects'[u] = objects[u]
    BY <1>1, <1>4, OneTaskChanges DEF IInv
<1>6. TypeOK'
    BY <1>1, <1>5 DEF IInv, TypeOK, queueVars, eventPoolVars, resultPoolVars, workerVars,
                      sweepVars
<1>7. InOnePlace'
    BY <1>1 DEF IInv, InOnePlace, OnePlace, SomePlace, BetweenSweeps, workerVars, sweepVars
<1>8. t \notin tasks /\ t \notin completed
    BY <1>2 DEF IInv, TasksOwned
<1>9. TasksConsistent' /\ TasksOwned'
    <2>1. Consistent(after, threads[t])
        BY <1>2, <1>4, <1>8 DEF Consistent, ThreadStates
    <2>2. UNCHANGED <<threads, tasks, completed>>
        BY <1>1 DEF workerVars
    <2> QED BY <1>5, <1>8, <2>1, <2>2 DEF IInv, TypeOK, TasksConsistent, TasksOwned
<1>10. EventPool' /\ ResultPool'
    BY <1>1, <1>4, <1>5, PoolsKept DEF IInv, queueVars
<1>11. Queued' = Queued /\ WorkLoadIsQueued'
    <2>1. \A u \in tasks : objects'[u] = objects[u]
        BY <1>5, <1>8 DEF IInv, TypeOK
    <2> QED BY <1>1, <2>1, LoadKept DEF IInv, queueVars, workerVars
<1>12. KeepsUnseenChanges
    BY <1>5, <1>8 DEF KeepsUnseenChanges, IInv, InOnePlace, SomePlace
<1>13. [Promise!Next]_(Promise!vars)
    BY <1>1, <1>11, ClientSeesNothing DEF workerVars
<1> QED BY <1>6, <1>7, <1>9, <1>10, <1>11, <1>12, <1>13 DEF Sound, IInv

\* The task becomes the worker's, and its first change is to be seen: a submission.
LEMMA SubmitTaskKeeps ==
    ASSUME IInv, NEW t \in Tasks, SubmitTask(t)
    PROVE  Sound
<1> DEFINE after == OnAssignedToWorker(objects[t])
<1>1. /\ t \notin tasks /\ tasks' = tasks \cup {t}
      /\ objects' = [objects EXCEPT ![t] = after]
      /\ UNCHANGED <<queueVars, threads, completed, sweepVars>>
    BY DEF SubmitTask, BecomesNotifying
<1>2. /\ objects[t] \in TaskObjects /\ objects[t].state = "EventAndResultAssigned"
      /\ Consistent(objects[t], threads[t])
    BY DEF IInv, TypeOK, TasksConsistent, SubmitTask
<1>3. "ReadyToQueue" \in TaskStates
    BY DEF TaskStates
<1>4. /\ after \in TaskObjects /\ after.state = "ReadyToQueue"
      /\ after.changing = objects[t].changing
      /\ after.eventAssigned = objects[t].eventAssigned
      /\ after.resultAssigned = objects[t].resultAssigned
      /\ after.eventGroup = objects[t].eventGroup
      /\ after.resultGroup = objects[t].resultGroup
    BY <1>2, <1>3, SetStateFacts DEF OnAssignedToWorker
<1>5. tasksWithChangedState' = tasksWithChangedState \cup {t}
    BY <1>2, <1>4 DEF SubmitTask, BecomesNotifying, Notifies
<1> HIDE DEF after
<1>6. /\ objects' \in [Tasks -> TaskObjects] /\ objects'[t] = after
      /\ \A u \in Tasks \ {t} : objects'[u] = objects[u]
    BY <1>1, <1>4, OneTaskChanges DEF IInv
<1>7. TypeOK'
    BY <1>1, <1>5, <1>6 DEF IInv, TypeOK, queueVars, eventPoolVars, resultPoolVars, sweepVars
<1>8. /\ t \notin tasksWithChangedState
      /\ t \notin Range(tasksToProcess)
      /\ t \notin Range(notProcessedTasks)
      /\ current # t
      /\ threads[t] = "none"
    BY <1>1 DEF IInv, InOnePlace, SomePlace
<1>9. InOnePlace'
    BY <1>1, <1>5, <1>8 DEF IInv, InOnePlace, OnePlace, SomePlace, BetweenSweeps, sweepVars
<1>10. t \notin completed
    BY <1>2 DEF IInv, TasksOwned
<1>11. TasksConsistent' /\ TasksOwned'
    <2>1. Consistent(after, threads[t])
        BY <1>2, <1>4, <1>8 DEF Consistent, ThreadStates
    <2> QED BY <1>1, <1>4, <1>6, <1>10, <2>1 DEF IInv, TypeOK, TasksConsistent, TasksOwned
<1>12. EventPool' /\ ResultPool'
    BY <1>1, <1>4, <1>6, PoolsKept DEF IInv, queueVars
<1>13. Queued' = Queued
    <2>1. \A u \in tasks : objects'[u] = objects[u]
        BY <1>1, <1>6 DEF IInv, TypeOK
    <2> QED BY <1>1, <1>4, <1>6, <2>1 DEF Queued
<1>14. WorkLoadIsQueued'
    BY <1>1, <1>13 DEF IInv, WorkLoadIsQueued, queueVars
<1>15. KeepsUnseenChanges
    BY <1>6, <1>8 DEF KeepsUnseenChanges
<1>16. Promise!Submit(t)
    <2>1. t \notin (tasks \ Queued) \cup Queued \cup completed
        BY <1>1, <1>10 DEF Queued
    <2>2. tasks' \ Queued' = (tasks \ Queued) \cup {t}
        BY <1>1, <1>13 DEF Queued
    <2> QED BY <1>1, <1>13, <2>1, <2>2 DEF Promise!Submit
<1>17. Promise!Next
    BY <1>16 DEF Promise!Next
<1> QED BY <1>7, <1>9, <1>11, <1>12, <1>14, <1>15, <1>17 DEF Sound, IInv

-----------------------------------------------------------------------------
(* processTasks, between the handlers.                                     *)

\* One sequence after another: what it holds, and without duplicates if neither
\* has one and they share nothing.
LEMMA ConcatFacts ==
    ASSUME NEW S, NEW s \in Seq(S), NEW r \in Seq(S)
    PROVE  /\ s \o r \in Seq(S)
           /\ Range(s \o r) = Range(s) \cup Range(r)
           /\ IsInjective(s) /\ IsInjective(r) /\ Range(s) \cap Range(r) = {}
                  => IsInjective(s \o r)
<1>1. /\ s \o r \in Seq(S)
      /\ DOMAIN (s \o r) = 1 .. Len(s) + Len(r)
      /\ \A i \in 1 .. Len(s) + Len(r) :
             (s \o r)[i] = IF i <= Len(s) THEN s[i] ELSE r[i - Len(s)]
      /\ Len(s) \in Nat /\ Len(r) \in Nat
      /\ DOMAIN s = 1 .. Len(s) /\ DOMAIN r = 1 .. Len(r)
    OBVIOUS
<1>2. Range(s \o r) \subseteq Range(s) \cup Range(r)
    BY <1>1 DEF Range
<1>3. ASSUME NEW i \in 1 .. Len(s) PROVE s[i] \in Range(s \o r)
    <2>1. i \in DOMAIN (s \o r) /\ (s \o r)[i] = s[i]
        BY <1>1
    <2> QED BY <2>1 DEF Range
<1>4. ASSUME NEW i \in 1 .. Len(r) PROVE r[i] \in Range(s \o r)
    <2>1. i + Len(s) \in DOMAIN (s \o r) /\ (s \o r)[i + Len(s)] = r[i]
        BY <1>1
    <2> QED BY <2>1 DEF Range
<1>5. Range(s) \cup Range(r) \subseteq Range(s \o r)
    BY <1>1, <1>3, <1>4 DEF Range
<1>6. ASSUME IsInjective(s), IsInjective(r), Range(s) \cap Range(r) = {}
      PROVE  IsInjective(s \o r)
    <2> SUFFICES ASSUME NEW i \in 1 .. Len(s) + Len(r), NEW j \in 1 .. Len(s) + Len(r),
                        (s \o r)[i] = (s \o r)[j]
                 PROVE  i = j
        BY <1>1 DEF IsInjective
    <2>1. CASE i <= Len(s) /\ j <= Len(s)
        BY <1>1, <1>6, <2>1 DEF IsInjective
    <2>2. CASE i > Len(s) /\ j > Len(s)
        <3>1. i - Len(s) \in 1 .. Len(r) /\ j - Len(s) \in 1 .. Len(r)
            BY <1>1, <2>2
        <3>2. r[i - Len(s)] = r[j - Len(s)]
            BY <1>1, <2>2
        <3>3. i - Len(s) = j - Len(s)
            BY <1>1, <1>6, <3>1, <3>2 DEF IsInjective
        <3> QED BY <1>1, <3>3
    <2>3. ASSUME NEW k \in 1 .. Len(s), NEW l \in 1 .. Len(s) + Len(r), l > Len(s)
          PROVE  (s \o r)[k] # (s \o r)[l]
        <3>1. l - Len(s) \in 1 .. Len(r) /\ (s \o r)[l] = r[l - Len(s)] /\ (s \o r)[k] = s[k]
            BY <1>1, <2>3
        <3>2. s[k] \in Range(s) /\ r[l - Len(s)] \in Range(r)
            BY <1>1, <3>1 DEF Range
        <3> QED BY <1>6, <3>1, <3>2
    <2> QED BY <1>1, <2>1, <2>2, <2>3
<1> QED BY <1>1, <1>2, <1>5, <1>6

\* An array of ids is a sequence of ids.
LEMMA ArrayIsSequence ==
    ASSUME NEW S, NEW n \in Nat, NEW s \in [1 .. n -> S]
    PROVE  s \in Seq(S)
    OBVIOUS

\* Steps that only move ids between the set, the queues and the hands.
LEMMA MovingIdsKeeps ==
    ASSUME IInv, UNCHANGED <<queueVars, taskVars, tasks, completed>>, InOnePlace',
           tasksWithChangedState' \in SUBSET Tasks,
           tasksToProcess' \in Seq(Tasks), notProcessedTasks' \in Seq(Tasks),
           processing' \in BOOLEAN, current' \in Tasks \cup {NoTask}
    PROVE  Sound
<1>1. UNCHANGED <<queueVars, objects, threads, tasks, completed>>
    BY DEF taskVars
<1>2. TypeOK'
    BY <1>1 DEF IInv, TypeOK, queueVars, eventPoolVars, resultPoolVars
<1>3. TasksConsistent' /\ TasksOwned'
    BY <1>1 DEF IInv, TasksConsistent, TasksOwned
<1>4. EventPool' /\ ResultPool'
    BY <1>1, PoolsKept DEF IInv, queueVars
<1>5. Queued' = Queued /\ WorkLoadIsQueued'
    BY <1>1, LoadKept DEF IInv, queueVars
<1>6. KeepsUnseenChanges
    BY <1>1 DEF KeepsUnseenChanges
<1>7. [Promise!Next]_(Promise!vars)
    BY <1>1, <1>5, ClientSeesNothing
<1> QED BY <1>2, <1>3, <1>4, <1>5, <1>6, <1>7 DEF Sound, IInv

\* The ids in the set are appended to the queue, which holds none of them.
LEMMA BeginSweepKeeps ==
    ASSUME IInv, BeginSweep
    PROVE  Sound
<1> USE DEF IInv, TypeOK, InOnePlace
<1>1. PICK s \in Orders(tasksWithChangedState) : tasksToProcess' = tasksToProcess \o s
    BY DEF BeginSweep
<1>2. /\ tasksWithChangedState' = {} /\ processing' = TRUE /\ processing = FALSE
      /\ UNCHANGED <<queueVars, taskVars, tasks, completed, notProcessedTasks, current>>
    BY DEF BeginSweep
<1>3. s \in Seq(Tasks) /\ IsInjective(s) /\ Range(s) = tasksWithChangedState
    <2>1. IsFiniteSet(tasksWithChangedState)
        BY TasksAssumption, FS_Subset DEF TasksAssumption
    <2>2. Cardinality(tasksWithChangedState) \in Nat
        BY <2>1, FS_CardinalityType
    <2>3. s \in [1 .. Cardinality(tasksWithChangedState) -> Tasks]
        BY DEF Orders
    <2>4. s \in Seq(Tasks)
        BY <2>2, <2>3, ArrayIsSequence
    <2>5. IsInjective(s) /\ Range(s) = tasksWithChangedState
        BY DEF Orders
    <2> QED BY <2>4, <2>5
<1>4. Range(tasksToProcess) \cap Range(s) = {} /\ IsInjective(tasksToProcess)
    BY <1>3 DEF OnePlace
<1>5. /\ tasksToProcess' \in Seq(Tasks) /\ IsInjective(tasksToProcess')
      /\ Range(tasksToProcess') = Range(tasksToProcess) \cup tasksWithChangedState
    BY <1>1, <1>3, <1>4, ConcatFacts
<1>6. OnePlace'
    BY <1>2, <1>5 DEF OnePlace, taskVars
<1>7. SomePlace'
    BY <1>2, <1>5 DEF SomePlace, taskVars
<1>8. BetweenSweeps'
    BY <1>2 DEF BetweenSweeps
<1> QED BY <1>2, <1>5, <1>6, <1>7, <1>8, MovingIdsKeeps

\* The task popped has no operation in progress and was submitted: the branch
\* that drops it is never taken.
LEMMA NotDropped ==
    ASSUME IInv, NEW t \in Tasks, t \in Range(tasksToProcess)
    PROVE  ~ Dropped(objects[t])
<1>1. threads[t] = "none" /\ t \in tasks
    BY DEF IInv, InOnePlace, OnePlace, SomePlace
<1>2. Consistent(objects[t], threads[t])
    BY DEF IInv, TasksConsistent
<1> QED BY <1>1, <1>2 DEF IInv, TasksOwned, Consistent, Dropped

\* The id at the front comes into the worker's hands.
LEMMA PopTaskKeeps ==
    ASSUME IInv, PopTask
    PROVE  Sound
<1> DEFINE t == Head(tasksToProcess)
<1> USE DEF IInv, TypeOK, InOnePlace
<1>1. /\ processing /\ current = NoTask /\ tasksToProcess # <<>>
      /\ tasksToProcess' = Tail(tasksToProcess)
      /\ UNCHANGED <<queueVars, taskVars, tasks, completed, tasksWithChangedState,
                     notProcessedTasks, processing>>
    BY DEF PopTask
<1>2. /\ t \in Tasks /\ t \in Range(tasksToProcess)
      /\ tasksToProcess' \in Seq(Tasks)
      /\ Range(tasksToProcess) = Range(tasksToProcess') \cup {t}
      /\ IsInjective(tasksToProcess') /\ t \notin Range(tasksToProcess')
    BY <1>1, PopFacts DEF OnePlace
<1>3. current' = t
    BY <1>2, NotDropped DEF PopTask
<1> HIDE DEF t
<1>4. OnePlace'
    BY <1>1, <1>2, <1>3 DEF OnePlace, taskVars
<1>5. SomePlace'
    BY <1>1, <1>2, <1>3, TasksAssumption DEF SomePlace, taskVars, TasksAssumption
<1>6. BetweenSweeps'
    BY <1>1 DEF BetweenSweeps
<1> QED BY <1>1, <1>2, <1>3, <1>4, <1>5, <1>6, MovingIdsKeeps

\* The ids not processed are the next queue; the one worked through is empty.
LEMMA EndSweepKeeps ==
    ASSUME IInv, EndSweep
    PROVE  Sound
<1> USE DEF IInv, TypeOK, InOnePlace
<1>1. /\ current = NoTask /\ tasksToProcess = <<>>
      /\ tasksToProcess' = notProcessedTasks /\ notProcessedTasks' = <<>> /\ processing' = FALSE
      /\ UNCHANGED <<queueVars, taskVars, tasks, completed, tasksWithChangedState, current>>
    BY DEF EndSweep
<1>2. /\ Range(tasksToProcess) = {} /\ Range(notProcessedTasks') = {}
      /\ IsInjective(notProcessedTasks') /\ notProcessedTasks' \in Seq(Tasks)
    BY <1>1, EmptyFacts
<1>3. OnePlace'
    BY <1>1, <1>2 DEF OnePlace, taskVars
<1>4. SomePlace'
    BY <1>1, <1>2 DEF SomePlace, taskVars
<1>5. BetweenSweeps'
    BY <1>1 DEF BetweenSweeps
<1> QED BY <1>1, <1>2, <1>3, <1>4, <1>5, MovingIdsKeeps

-----------------------------------------------------------------------------
(* The handlers.                                                           *)

\* The queue is full: the task is looked at again in the next sweep.
LEMMA RefuseQueueFullKeeps ==
    ASSUME IInv, NEW t \in Tasks, RefuseQueueFull(t)
    PROVE  Sound
<1>1. /\ current = t /\ HandlerReturns(t, FALSE)
      /\ UNCHANGED <<queueVars, taskVars, tasks, completed, tasksWithChangedState>>
    BY DEF RefuseQueueFull, Handling
<1>2. UNCHANGED <<tasksWithChangedState, threads, tasks>>
    BY <1>1 DEF taskVars
<1>3. Moves'
    BY <1>1, <1>2, HandlerMoves
<1> QED BY <1>1, <1>3, MovingIdsKeeps DEF Moves

\* The task enters the queue, which is not full: an entry.
LEMMA QueueTaskKeeps ==
    ASSUME IInv, NEW t \in Tasks, QueueTask(t)
    PROVE  Sound
<1> DEFINE after == AssignQueue(objects[t])
<1>1. /\ current = t /\ workLoad # WorkCapacity /\ workLoad' = Plus(workLoad)
      /\ objects' = [objects EXCEPT ![t] = after]
      /\ HandlerReturns(t, TRUE)
      /\ UNCHANGED <<eventPoolVars, resultPoolVars, syclQueueOwner, threads, tasks, completed>>
    BY DEF QueueTask, Handling, BecomesNotifying, IncrementWorkLoad
<1>2. /\ objects[t] \in TaskObjects /\ objects[t].state = "ReadyToQueue"
      /\ Consistent(objects[t], "none") /\ threads[t] = "none"
      /\ t \in tasks /\ t \notin tasksWithChangedState
    BY <1>1, HandledTask DEF QueueTask, Handling
<1>3. "WaitingForResources" \in TaskStates
    BY DEF TaskStates
<1>4. /\ after \in TaskObjects /\ after.state = "WaitingForResources"
      /\ after.changing = objects[t].changing
      /\ after.eventAssigned = objects[t].eventAssigned
      /\ after.resultAssigned = objects[t].resultAssigned
      /\ after.eventGroup = objects[t].eventGroup
      /\ after.resultGroup = objects[t].resultGroup
    BY <1>2, <1>3, SetStateFacts DEF AssignQueue
<1>5. tasksWithChangedState' = tasksWithChangedState \cup {t}
    BY <1>2, <1>4 DEF QueueTask, BecomesNotifying, Notifies
<1> HIDE DEF after
<1>6. /\ objects' \in [Tasks -> TaskObjects] /\ objects'[t] = after
      /\ \A u \in Tasks \ {t} : objects'[u] = objects[u]
    BY <1>1, <1>4, OneTaskChanges DEF IInv
<1>7. Moves'
    BY <1>1, <1>5, HandlerMoves
<1>8. /\ IsFiniteSet(Queued) /\ t \notin Queued /\ Queued \in SUBSET Tasks
      /\ workLoad = Cardinality(Queued) /\ workLoad \in 0 .. WorkCapacity - 1
    <2>1. IsFiniteSet(Queued)
        BY TasksAssumption, FS_Subset DEF TasksAssumption, Queued, IInv, TypeOK
    <2>2. workLoad = Cardinality(Queued) /\ workLoad <= WorkCapacity /\ workLoad \in Nat
        BY <2>1, FS_CardinalityType DEF IInv, WorkLoadIsQueued
    <2>3. WorkCapacity \in Nat
        BY CapacityAssumption, WidthFacts DEF CapacityAssumption
    <2> QED BY <1>1, <1>2, <2>1, <2>2, <2>3 DEF Queued, IInv, TypeOK
<1>9. workLoad' = workLoad + 1
    BY <1>1, <1>8, CapacityAssumption, CounterFacts, WidthFacts DEF CapacityAssumption
<1>10. workLoad' \in Capacities /\ workLoad' <= WorkCapacity
    BY <1>8, <1>9, CapacityAssumption, WidthFacts DEF CapacityAssumption, Capacities
<1>11. Queued' = Queued \cup {t}
    BY <1>1, <1>2, <1>4, <1>6 DEF Queued, IInv, TypeOK
<1>12. WorkLoadIsQueued'
    BY <1>8, <1>9, <1>10, <1>11, FS_AddElement DEF WorkLoadIsQueued
<1>13. TypeOK'
    BY <1>1, <1>6, <1>7, <1>10 DEF IInv, TypeOK, Moves, eventPoolVars, resultPoolVars
<1>14. TasksConsistent' /\ TasksOwned'
    <2>1. Consistent(after, "none")
        BY <1>2, <1>4 DEF Consistent, ThreadStates
    <2> QED BY <1>1, <1>2, <1>4, <1>6, <2>1 DEF IInv, TypeOK, TasksConsistent, TasksOwned
<1>15. EventPool' /\ ResultPool'
    BY <1>1, <1>4, <1>6, PoolsKept DEF IInv
<1>16. KeepsUnseenChanges
    BY <1>2, <1>6 DEF KeepsUnseenChanges
<1>17. Promise!Enter(t)
    <2>1. Cardinality(Queued) < WorkCapacity
        BY <1>8, CapacityAssumption, WidthFacts DEF CapacityAssumption
    <2>2. tasks' \ Queued' = (tasks \ Queued) \ {t} /\ t \in tasks \ Queued
        BY <1>1, <1>2, <1>8, <1>11
    <2>3. (tasks \ Queued)' = (tasks \ Queued) \ {t}
        BY <2>2
    <2>4. Queued' = Queued \cup {t} /\ completed' = completed
        BY <1>1, <1>11
    <2> QED BY <2>1, <2>2, <2>3, <2>4 DEF Promise!Enter, Promise!Cardinality, Cardinality
<1>18. Promise!Next
    BY <1>17 DEF Promise!Next
<1> QED BY <1>7, <1>12, <1>13, <1>14, <1>15, <1>16, <1>18 DEF Sound, IInv, Moves

\* The task's thread starts, and the id is in none of the worker's queues until it ends.
LEMMA StartThreadKeeps ==
    ASSUME IInv, NEW t \in Tasks, StartThread(t)
    PROVE  Sound
<1> DEFINE after == BeginStateChange(objects[t])
<1>1. /\ current = t /\ objects[t].state \in ThreadStates
      /\ objects' = [objects EXCEPT ![t] = after]
      /\ threads' = [threads EXCEPT ![t] = "checkout"]
      /\ HandlerReturns(t, TRUE)
      /\ UNCHANGED <<queueVars, tasks, completed, tasksWithChangedState>>
    BY DEF StartThread
<1>2. /\ objects[t] \in TaskObjects
      /\ Consistent(objects[t], "none") /\ threads[t] = "none"
      /\ t \in tasks /\ t \notin tasksWithChangedState
    BY <1>1, HandledTask
<1>3. /\ after \in TaskObjects /\ after.state = objects[t].state /\ after.changing = TRUE
      /\ after.eventAssigned = objects[t].eventAssigned
      /\ after.resultAssigned = objects[t].resultAssigned
      /\ after.eventGroup = objects[t].eventGroup
      /\ after.resultGroup = objects[t].resultGroup
    BY <1>2, ChangingFacts
<1> HIDE DEF after
<1>4. /\ objects' \in [Tasks -> TaskObjects] /\ objects'[t] = after
      /\ \A u \in Tasks \ {t} : objects'[u] = objects[u]
    BY <1>1, <1>3, OneTaskChanges DEF IInv
<1>5. Moves'
    BY <1>1, HandlerMoves
<1>6. TypeOK'
    BY <1>1, <1>4, <1>5 DEF IInv, TypeOK, Moves, queueVars, eventPoolVars, resultPoolVars
<1>7. threads'[t] = "checkout" /\ \A u \in Tasks \ {t} : threads'[u] = threads[u]
    BY <1>1 DEF IInv, TypeOK
<1>8. TasksConsistent' /\ TasksOwned'
    <2>1. Consistent(after, "checkout")
        BY <1>1, <1>2, <1>3 DEF Consistent
    <2> QED BY <1>1, <1>3, <1>4, <1>7, <2>1 DEF IInv, TypeOK, TasksConsistent, TasksOwned
<1>9. EventPool' /\ ResultPool'
    BY <1>1, <1>3, <1>4, PoolsKept DEF IInv, queueVars
<1>10. \A u \in Tasks : objects'[u].state = objects[u].state
    BY <1>3, <1>4
<1>11. Queued' = Queued /\ WorkLoadIsQueued'
    BY <1>1, <1>10, LoadKept DEF IInv, TypeOK, queueVars
<1>12. KeepsUnseenChanges
    BY <1>10 DEF KeepsUnseenChanges
<1>13. [Promise!Next]_(Promise!vars)
    BY <1>1, <1>11, ClientSeesNothing
<1> QED BY <1>5, <1>6, <1>8, <1>9, <1>11, <1>12, <1>13 DEF Sound, IInv, Moves

\* What handleTaskWaitingForResources leaves in the task, whichever groups it
\* takes: at least one kind was missing, so when none is missing any more it has
\* moved on.
LEMMA TakingFacts ==
    ASSUME NEW task \in TaskObjects, task.state = "WaitingForResources",
           ~ (task.eventAssigned /\ task.resultAssigned),
           NEW takeEvent \in BOOLEAN, NEW takeResult \in BOOLEAN,
           NEW e, takeEvent => e \in EventGroups /\ ~ task.eventAssigned,
           NEW r, takeResult => r \in ResultGroups /\ ~ task.resultAssigned,
           NEW withEvent,
           withEvent = IF takeEvent THEN TakeEventResources(task, e) ELSE task,
           NEW withBoth,
           withBoth = IF takeResult THEN TakeResultResources(withEvent, r) ELSE withEvent
    PROVE  /\ withBoth \in TaskObjects
           /\ withBoth.changing = task.changing
           /\ withBoth.eventAssigned <=> (task.eventAssigned \/ takeEvent)
           /\ withBoth.resultAssigned <=> (task.resultAssigned \/ takeResult)
           /\ withBoth.eventGroup = IF takeEvent THEN e ELSE task.eventGroup
           /\ withBoth.resultGroup = IF takeResult THEN r ELSE task.resultGroup
           /\ withBoth.state = IF /\ task.eventAssigned \/ takeEvent
                                  /\ task.resultAssigned \/ takeResult
                               THEN "WaitingForEventTransfer"
                               ELSE "WaitingForResources"
<1>1. task.eventAssigned \in BOOLEAN /\ task.resultAssigned \in BOOLEAN
    BY DEF TaskObjects
<1>2. /\ withEvent \in TaskObjects
      /\ withEvent.state = IF takeEvent /\ task.resultAssigned
                           THEN "WaitingForEventTransfer" ELSE "WaitingForResources"
      /\ withEvent.changing = task.changing
      /\ withEvent.eventAssigned <=> (task.eventAssigned \/ takeEvent)
      /\ withEvent.resultAssigned = task.resultAssigned
      /\ withEvent.eventGroup = IF takeEvent THEN e ELSE task.eventGroup
      /\ withEvent.resultGroup = task.resultGroup
    <2>1. CASE takeEvent
        <3>1. e \in EventGroups
            BY <2>1
        <3>2. /\ withEvent \in TaskObjects
              /\ withEvent.state = IF task.resultAssigned THEN "WaitingForEventTransfer"
                                                         ELSE task.state
              /\ withEvent.changing = task.changing
              /\ withEvent.eventAssigned = TRUE
              /\ withEvent.resultAssigned = task.resultAssigned
              /\ withEvent.eventGroup = e
              /\ withEvent.resultGroup = task.resultGroup
            BY <2>1, <3>1, TakeEventFacts
        <3>3. withEvent.eventAssigned <=> (task.eventAssigned \/ takeEvent)
           BY <2>1, <3>2
        <3>4. withEvent.state = IF takeEvent /\ task.resultAssigned
                           THEN "WaitingForEventTransfer" ELSE "WaitingForResources"
           BY <2>1, <3>2
        <3> QED BY <2>1, <3>2, <3>3, <3>4
    <2>2. CASE ~ takeEvent
        BY <1>1, <2>2
    <2> QED BY <2>1, <2>2
<1>3. CASE takeResult
    <2>1. r \in ResultGroups /\ withEvent \in TaskObjects
        BY <1>2, <1>3
    <2>2. /\ withBoth \in TaskObjects
          /\ withBoth.state = IF withEvent.eventAssigned THEN "WaitingForEventTransfer"
                                                         ELSE withEvent.state
          /\ withBoth.changing = withEvent.changing
          /\ withBoth.eventAssigned = withEvent.eventAssigned
          /\ withBoth.resultAssigned = TRUE
          /\ withBoth.eventGroup = withEvent.eventGroup
          /\ withBoth.resultGroup = r
        BY <1>3, <2>1, TakeResultFacts
    <2> QED BY <1>1, <1>2, <1>3, <2>2
<1>4. CASE ~ takeResult
    BY <1>1, <1>2, <1>4
<1> QED BY <1>3, <1>4

\* A task takes the event group at the front.
LEMMA TakeEventGroup ==
    ASSUME TypeOK, EventPool, NEW t \in Tasks,
           ~ objects[t].eventAssigned, eventResourcesLoad # EventCapacity,
           GetEventResourceGroup,
           \A u \in Tasks \ {t} : objects'[u] = objects[u],
           objects'[t].eventAssigned,
           objects'[t].eventGroup = Head(freeEventResources)
    PROVE  /\ EventPool'
           /\ freeEventResources' \in Seq(EventGroups) /\ eventResourcesLoad' \in Capacities
<1>1. /\ HoldersOfEvent' = HoldersOfEvent \cup {t} /\ t \notin HoldersOfEvent
      /\ EventGroupOf'[t] = Head(freeEventResources)
      /\ \A u \in HoldersOfEvent : EventGroupOf'[u] = EventGroupOf[u]
    BY DEF HoldersOfEvent, EventGroupOf
<1>2. /\ EventCapacity \in 0 .. Width - 2
      /\ freeEventResources \in Seq(1 .. EventCapacity) /\ eventResourcesLoad \in Capacities
      /\ eventResourcesLoad # EventCapacity
    BY CapacityAssumption DEF CapacityAssumption, TypeOK, EventGroups
<1>3. Pool(freeEventResources, eventResourcesLoad, EventCapacity, HoldersOfEvent, EventGroupOf)
    BY DEF EventPool
<1>4. /\ freeEventResources # <<>>
      /\ Tail(freeEventResources) \in Seq(1 .. EventCapacity)
      /\ Plus(eventResourcesLoad) \in Capacities
      /\ Pool(Tail(freeEventResources), Plus(eventResourcesLoad), EventCapacity,
              HoldersOfEvent \cup {t}, EventGroupOf')
    BY ONLY <1>1, <1>2, <1>3, PoolTake
<1>5. /\ freeEventResources' = Tail(freeEventResources)
      /\ eventResourcesLoad' = Plus(eventResourcesLoad)
    BY <1>4 DEF GetEventResourceGroup
<1> QED BY <1>1, <1>4, <1>5 DEF EventPool, EventGroups

\* A task takes the result group at the front.
LEMMA TakeResultGroup ==
    ASSUME TypeOK, ResultPool, NEW t \in Tasks,
           ~ objects[t].resultAssigned, resultResourcesLoad # ResultCapacity,
           GetResultResourceGroup,
           \A u \in Tasks \ {t} : objects'[u] = objects[u],
           objects'[t].resultAssigned,
           objects'[t].resultGroup = Head(freeResultResources)
    PROVE  /\ ResultPool'
           /\ freeResultResources' \in Seq(ResultGroups) /\ resultResourcesLoad' \in Capacities
<1>1. /\ HoldersOfResult' = HoldersOfResult \cup {t} /\ t \notin HoldersOfResult
      /\ ResultGroupOf'[t] = Head(freeResultResources)
      /\ \A u \in HoldersOfResult : ResultGroupOf'[u] = ResultGroupOf[u]
    BY DEF HoldersOfResult, ResultGroupOf
<1>2. /\ ResultCapacity \in 0 .. Width - 2
      /\ freeResultResources \in Seq(1 .. ResultCapacity) /\ resultResourcesLoad \in Capacities
      /\ resultResourcesLoad # ResultCapacity
    BY CapacityAssumption DEF CapacityAssumption, TypeOK, ResultGroups
<1>3. Pool(freeResultResources, resultResourcesLoad, ResultCapacity, HoldersOfResult, ResultGroupOf)
    BY DEF ResultPool
<1>4. /\ freeResultResources # <<>>
      /\ Tail(freeResultResources) \in Seq(1 .. ResultCapacity)
      /\ Plus(resultResourcesLoad) \in Capacities
      /\ Pool(Tail(freeResultResources), Plus(resultResourcesLoad), ResultCapacity,
              HoldersOfResult \cup {t}, ResultGroupOf')
    BY ONLY <1>1, <1>2, <1>3, PoolTake
<1>5. /\ freeResultResources' = Tail(freeResultResources)
      /\ resultResourcesLoad' = Plus(resultResourcesLoad)
    BY <1>4 DEF GetResultResourceGroup
<1> QED BY <1>1, <1>4, <1>5 DEF ResultPool, ResultGroups

\* The pools, when t takes the event group at the front if takeEvent, and the
\* result group at the front if takeResult.
LEMMA PoolsTake ==
    ASSUME TypeOK, EventPool, ResultPool, NEW t \in Tasks,
           NEW takeEvent \in BOOLEAN, NEW takeResult \in BOOLEAN,
           takeEvent => ~ objects[t].eventAssigned /\ eventResourcesLoad # EventCapacity,
           takeResult => ~ objects[t].resultAssigned /\ resultResourcesLoad # ResultCapacity,
           IF takeEvent THEN GetEventResourceGroup ELSE UNCHANGED eventPoolVars,
           IF takeResult THEN GetResultResourceGroup ELSE UNCHANGED resultPoolVars,
           \A u \in Tasks \ {t} : objects'[u] = objects[u],
           objects'[t].eventAssigned <=> (objects[t].eventAssigned \/ takeEvent),
           objects'[t].resultAssigned <=> (objects[t].resultAssigned \/ takeResult),
           objects'[t].eventGroup = IF takeEvent THEN Head(freeEventResources)
                                                 ELSE objects[t].eventGroup,
           objects'[t].resultGroup = IF takeResult THEN Head(freeResultResources)
                                                   ELSE objects[t].resultGroup
    PROVE  /\ EventPool' /\ ResultPool'
           /\ freeEventResources' \in Seq(EventGroups) /\ eventResourcesLoad' \in Capacities
           /\ freeResultResources' \in Seq(ResultGroups) /\ resultResourcesLoad' \in Capacities
<1>1. objects[t].eventAssigned \in BOOLEAN /\ objects[t].resultAssigned \in BOOLEAN
    BY DEF TypeOK, TaskObjects
<1>2. /\ EventPool' /\ freeEventResources' \in Seq(EventGroups)
      /\ eventResourcesLoad' \in Capacities
    <2>1. CASE takeEvent
        <3>1. /\ GetEventResourceGroup /\ eventResourcesLoad # EventCapacity
              /\ ~ objects[t].eventAssigned /\ objects'[t].eventAssigned
              /\ objects'[t].eventGroup = Head(freeEventResources)
            BY <2>1
        <3> QED BY <3>1, TakeEventGroup
    <2>2. CASE ~ takeEvent
        <3>1. UNCHANGED <<freeEventResources, eventResourcesLoad>>
            BY <2>2 DEF eventPoolVars
        <3>2. HoldersOfEvent' = HoldersOfEvent
            BY <1>1, <2>2 DEF HoldersOfEvent
        <3>3. EventGroupOf' = EventGroupOf
            BY <2>2 DEF EventGroupOf
        <3> QED BY <3>1, <3>2, <3>3 DEF TypeOK, EventPool, Pool
    <2> QED BY <2>1, <2>2
<1>3. /\ ResultPool' /\ freeResultResources' \in Seq(ResultGroups)
      /\ resultResourcesLoad' \in Capacities
    <2>1. CASE takeResult
        <3>1. /\ GetResultResourceGroup /\ resultResourcesLoad # ResultCapacity
              /\ ~ objects[t].resultAssigned /\ objects'[t].resultAssigned
              /\ objects'[t].resultGroup = Head(freeResultResources)
            BY <2>1
        <3> QED BY <3>1, TakeResultGroup
    <2>2. CASE ~ takeResult
        <3>1. UNCHANGED <<freeResultResources, resultResourcesLoad>>
            BY <2>2 DEF resultPoolVars
        <3>2. HoldersOfResult' = HoldersOfResult
            BY <1>1, <2>2 DEF HoldersOfResult
        <3>3. ResultGroupOf' = ResultGroupOf
            BY <2>2 DEF ResultGroupOf
        <3> QED BY <3>1, <3>2, <3>3 DEF TypeOK, ResultPool, Pool
    <2> QED BY <2>1, <2>2
<1> QED BY <1>2, <1>3

\* What a task that waits for resources takes: what it lacks and is free.
TakesEvent(t) == ~ objects[t].eventAssigned /\ eventResourcesLoad # EventCapacity
TakesResult(t) == ~ objects[t].resultAssigned /\ resultResourcesLoad # ResultCapacity

\* The task takes the groups at the front of the pools; it moves on when nothing is
\* missing.
LEMMA TakesWhatIsFree ==
    ASSUME IInv, NEW t \in Tasks, HandleWaitingForResources(t)
    PROVE  /\ objects' \in [Tasks -> TaskObjects]
           /\ \A u \in Tasks \ {t} : objects'[u] = objects[u]
           /\ objects' = [objects EXCEPT ![t] = objects'[t]]
           /\ objects'[t].changing = objects[t].changing
           /\ objects'[t].eventAssigned <=> (objects[t].eventAssigned \/ TakesEvent(t))
           /\ objects'[t].resultAssigned <=> (objects[t].resultAssigned \/ TakesResult(t))
           /\ objects'[t].eventGroup = IF TakesEvent(t) THEN Head(freeEventResources)
                                                        ELSE objects[t].eventGroup
           /\ objects'[t].resultGroup = IF TakesResult(t) THEN Head(freeResultResources)
                                                          ELSE objects[t].resultGroup
           /\ objects'[t].state = IF objects'[t].eventAssigned /\ objects'[t].resultAssigned
                                  THEN "WaitingForEventTransfer"
                                  ELSE "WaitingForResources"
<1> DEFINE task == objects[t]
           withEvent == IF TakesEvent(t) THEN TakeEventResources(task, NextEventGroup) ELSE task
           withBoth == IF TakesResult(t) THEN TakeResultResources(withEvent, NextResultGroup)
                                         ELSE withEvent
<1>1. /\ current = t /\ task.state = "WaitingForResources"
      /\ objects' = [objects EXCEPT ![t] = withBoth]
    BY DEF HandleWaitingForResources, Handling, BecomesNotifying, TakesEvent, TakesResult
<1>2. task \in TaskObjects /\ Consistent(task, "none")
    BY <1>1, HandledTask
<1>3. /\ task.eventAssigned \in BOOLEAN /\ task.resultAssigned \in BOOLEAN
      /\ ~ (task.eventAssigned /\ task.resultAssigned)
    BY <1>1, <1>2 DEF Consistent, TaskObjects
<1>4. /\ TakesEvent(t) => /\ freeEventResources # <<>>
                          /\ Head(freeEventResources) \in EventGroups
                          /\ NextEventGroup = Head(freeEventResources)
      /\ TakesResult(t) => /\ freeResultResources # <<>>
                           /\ Head(freeResultResources) \in ResultGroups
                           /\ NextResultGroup = Head(freeResultResources)
    <2>1. /\ freeEventResources \in Seq(EventGroups) /\ freeResultResources \in Seq(ResultGroups)
          /\ eventResourcesLoad \in Nat /\ resultResourcesLoad \in Nat
        BY WidthFacts DEF IInv, TypeOK, Capacities
    <2>2. /\ eventResourcesLoad + Len(freeEventResources) = EventCapacity
          /\ resultResourcesLoad + Len(freeResultResources) = ResultCapacity
        BY DEF IInv, EventPool, ResultPool, Pool
    <2>3. /\ TakesEvent(t) => freeEventResources # <<>>
          /\ TakesResult(t) => freeResultResources # <<>>
        BY <2>1, <2>2 DEF TakesEvent, TakesResult
    <2> QED BY <2>1, <2>3 DEF NextEventGroup, NextResultGroup
<1>5. /\ withBoth \in TaskObjects
      /\ withBoth.changing = task.changing
      /\ withBoth.eventAssigned <=> (task.eventAssigned \/ TakesEvent(t))
      /\ withBoth.resultAssigned <=> (task.resultAssigned \/ TakesResult(t))
      /\ withBoth.eventGroup = IF TakesEvent(t) THEN Head(freeEventResources)
                                                ELSE task.eventGroup
      /\ withBoth.resultGroup = IF TakesResult(t) THEN Head(freeResultResources)
                                                  ELSE task.resultGroup
      /\ withBoth.state = IF /\ task.eventAssigned \/ TakesEvent(t)
                             /\ task.resultAssigned \/ TakesResult(t)
                          THEN "WaitingForEventTransfer"
                          ELSE "WaitingForResources"
    <2> DEFINE e == Head(freeEventResources)
               r == Head(freeResultResources)
               takeEvent == TakesEvent(t)
               takeResult == TakesResult(t)
    <2>1. /\ takeEvent \in BOOLEAN /\ takeResult \in BOOLEAN
          /\ takeEvent => e \in EventGroups /\ ~ task.eventAssigned
          /\ takeResult => r \in ResultGroups /\ ~ task.resultAssigned
          /\ withEvent = IF takeEvent THEN TakeEventResources(task, e) ELSE task
          /\ withBoth = IF takeResult THEN TakeResultResources(withEvent, r) ELSE withEvent
        BY <1>4 DEF TakesEvent, TakesResult
    <2>2. /\ task \in TaskObjects /\ task.state = "WaitingForResources"
          /\ ~ (task.eventAssigned /\ task.resultAssigned)
        BY <1>1, <1>2, <1>3
    <2> HIDE DEF task, withEvent, withBoth, e, r, takeEvent, takeResult
    <2>3. /\ withBoth \in TaskObjects
          /\ withBoth.changing = task.changing
          /\ withBoth.eventAssigned <=> (task.eventAssigned \/ takeEvent)
          /\ withBoth.resultAssigned <=> (task.resultAssigned \/ takeResult)
          /\ withBoth.eventGroup = IF takeEvent THEN e ELSE task.eventGroup
          /\ withBoth.resultGroup = IF takeResult THEN r ELSE task.resultGroup
          /\ withBoth.state = IF /\ task.eventAssigned \/ takeEvent
                                 /\ task.resultAssigned \/ takeResult
                              THEN "WaitingForEventTransfer"
                              ELSE "WaitingForResources"
        BY ONLY <2>1, <2>2, TakingFacts
    <2> QED BY <2>3 DEF e, r, takeEvent, takeResult
<1> HIDE DEF withBoth
<1>6. /\ objects' \in [Tasks -> TaskObjects] /\ objects'[t] = withBoth
      /\ \A u \in Tasks \ {t} : objects'[u] = objects[u]
    BY <1>1, <1>5, OneTaskChanges DEF IInv
<1>7. objects' = [objects EXCEPT ![t] = objects'[t]]
    BY <1>1, <1>6
<1> QED BY <1>5, <1>6, <1>7

\* It keeps what it has while the rest is not free, and the invariant.
LEMMA HandleWaitingForResourcesKeeps ==
    ASSUME IInv, NEW t \in Tasks, HandleWaitingForResources(t)
    PROVE  Sound
<1> DEFINE processed == /\ objects[t].eventAssigned \/ eventResourcesLoad # EventCapacity
                        /\ objects[t].resultAssigned \/ resultResourcesLoad # ResultCapacity
<1>1. /\ current = t /\ objects[t].state = "WaitingForResources"
      /\ IF TakesEvent(t) THEN GetEventResourceGroup ELSE UNCHANGED eventPoolVars
      /\ IF TakesResult(t) THEN GetResultResourceGroup ELSE UNCHANGED resultPoolVars
      /\ tasksWithChangedState' = IF Notifies(objects[t], objects'[t])
                                  THEN tasksWithChangedState \cup {t}
                                  ELSE tasksWithChangedState
      /\ HandlerReturns(t, processed)
      /\ UNCHANGED <<workLoad, syclQueueOwner, threads, tasks, completed>>
    BY DEF HandleWaitingForResources, Handling, BecomesNotifying, TakesEvent, TakesResult,
           IInv, TypeOK
<1>2. /\ objects[t] \in TaskObjects /\ Consistent(objects[t], "none") /\ threads[t] = "none"
      /\ t \in tasks /\ t \notin tasksWithChangedState
    BY <1>1, HandledTask
<1>3. /\ objects' \in [Tasks -> TaskObjects]
      /\ \A u \in Tasks \ {t} : objects'[u] = objects[u]
      /\ objects'[t].changing = objects[t].changing
      /\ objects'[t].eventAssigned <=> (objects[t].eventAssigned \/ TakesEvent(t))
      /\ objects'[t].resultAssigned <=> (objects[t].resultAssigned \/ TakesResult(t))
      /\ objects'[t].eventGroup = IF TakesEvent(t) THEN Head(freeEventResources)
                                                   ELSE objects[t].eventGroup
      /\ objects'[t].resultGroup = IF TakesResult(t) THEN Head(freeResultResources)
                                                     ELSE objects[t].resultGroup
      /\ objects'[t].state = IF objects'[t].eventAssigned /\ objects'[t].resultAssigned
                             THEN "WaitingForEventTransfer"
                             ELSE "WaitingForResources"
    BY TakesWhatIsFree
<1>4. /\ processed \in BOOLEAN
      /\ processed <=> objects'[t].eventAssigned /\ objects'[t].resultAssigned
    BY <1>2, <1>3 DEF TakesEvent, TakesResult, TaskObjects
<1>5. objects'[t].state = IF processed THEN "WaitingForEventTransfer"
                                       ELSE "WaitingForResources"
    BY <1>3, <1>4
<1> HIDE DEF processed
<1>6. tasksWithChangedState' = IF processed THEN tasksWithChangedState \cup {t}
                                            ELSE tasksWithChangedState
    BY <1>1, <1>5 DEF Notifies
<1>7. /\ EventPool' /\ ResultPool'
      /\ freeEventResources' \in Seq(EventGroups) /\ eventResourcesLoad' \in Capacities
      /\ freeResultResources' \in Seq(ResultGroups) /\ resultResourcesLoad' \in Capacities
    <2>1. /\ TakesEvent(t) \in BOOLEAN /\ TakesResult(t) \in BOOLEAN
          /\ TakesEvent(t) => ~ objects[t].eventAssigned /\ eventResourcesLoad # EventCapacity
          /\ TakesResult(t) => ~ objects[t].resultAssigned /\ resultResourcesLoad # ResultCapacity
        BY DEF TakesEvent, TakesResult
    <2> QED BY <1>1, <1>3, <2>1, PoolsTake DEF IInv
<1>8. Moves'
    BY <1>1, <1>4, <1>6, HandlerMoves
<1>9. objects'[t].state \in {"WaitingForEventTransfer", "WaitingForResources"}
    BY <1>5
<1>10. Consistent(objects'[t], "none")
    BY <1>1, <1>2, <1>3, <1>4, <1>5 DEF Consistent, ThreadStates
<1>11. TypeOK'
    BY <1>1, <1>3, <1>7, <1>8 DEF IInv, TypeOK, Moves
<1>12. TasksConsistent' /\ TasksOwned'
    BY <1>1, <1>2, <1>3, <1>9, <1>10 DEF IInv, TypeOK, TasksConsistent, TasksOwned
<1>13. Queued' = Queued /\ WorkLoadIsQueued'
    <2>1. \A u \in tasks : objects'[u].state = "ReadyToQueue" <=> objects[u].state = "ReadyToQueue"
        BY <1>1, <1>3, <1>9 DEF IInv, TypeOK
    <2> QED BY <1>1, <2>1, LoadKept DEF IInv
<1>14. KeepsUnseenChanges
    BY <1>2, <1>3 DEF KeepsUnseenChanges
<1>15. [Promise!Next]_(Promise!vars)
    BY <1>1, <1>13, ClientSeesNothing
<1> QED BY <1>7, <1>8, <1>11, <1>12, <1>13, <1>14, <1>15 DEF Sound, IInv, Moves

\* The pools, when t returns its event group.
LEMMA ReturnEventGroup ==
    ASSUME TypeOK, EventPool, ResultPool, NEW t \in Tasks,
           objects[t].eventAssigned,
           ReturnEventResourceGroup(objects[t].eventGroup),
           UNCHANGED resultPoolVars,
           \A u \in Tasks \ {t} : objects'[u] = objects[u],
           ~ objects'[t].eventAssigned,
           objects'[t].resultAssigned = objects[t].resultAssigned,
           objects'[t].eventGroup = objects[t].eventGroup,
           objects'[t].resultGroup = objects[t].resultGroup
    PROVE  /\ EventPool' /\ ResultPool'
           /\ freeEventResources' \in Seq(EventGroups) /\ eventResourcesLoad' \in Capacities
<1>1. HoldersOfEvent' = HoldersOfEvent \ {t} /\ t \in HoldersOfEvent
    BY DEF HoldersOfEvent
<1>2. EventGroupOf' = EventGroupOf /\ ResultGroupOf' = ResultGroupOf
    BY DEF EventGroupOf, ResultGroupOf
<1>3. /\ EventCapacity \in 0 .. Width - 2
      /\ freeEventResources \in Seq(1 .. EventCapacity) /\ eventResourcesLoad \in Capacities
      /\ EventGroupOf[t] = objects[t].eventGroup
    BY CapacityAssumption DEF CapacityAssumption, TypeOK, EventGroups, EventGroupOf
<1>4. Pool(freeEventResources, eventResourcesLoad, EventCapacity, HoldersOfEvent, EventGroupOf)
    BY DEF EventPool
<1>5. /\ Append(freeEventResources, EventGroupOf[t]) \in Seq(1 .. EventCapacity)
      /\ Minus(eventResourcesLoad) \in Capacities
      /\ Pool(Append(freeEventResources, EventGroupOf[t]), Minus(eventResourcesLoad),
              EventCapacity, HoldersOfEvent \ {t}, EventGroupOf)
    BY ONLY <1>1, <1>3, <1>4, PoolReturn
<1>6. /\ freeEventResources' = Append(freeEventResources, EventGroupOf[t])
      /\ eventResourcesLoad' = Minus(eventResourcesLoad)
    BY <1>3 DEF ReturnEventResourceGroup
<1>7. EventPool' /\ freeEventResources' \in Seq(EventGroups) /\ eventResourcesLoad' \in Capacities
    BY <1>1, <1>2, <1>5, <1>6 DEF EventPool, EventGroups
<1>8. ResultPool'
    <2>1. HoldersOfResult' = HoldersOfResult
        BY DEF HoldersOfResult
    <2> QED BY <1>2, <2>1 DEF ResultPool, resultPoolVars, Pool
<1> QED BY <1>7, <1>8

\* The pools, when t returns its result group.
LEMMA ReturnResultGroup ==
    ASSUME TypeOK, EventPool, ResultPool, NEW t \in Tasks,
           objects[t].resultAssigned,
           ReturnResultResourceGroup(objects[t].resultGroup),
           UNCHANGED eventPoolVars,
           \A u \in Tasks \ {t} : objects'[u] = objects[u],
           ~ objects'[t].resultAssigned,
           objects'[t].eventAssigned = objects[t].eventAssigned,
           objects'[t].eventGroup = objects[t].eventGroup,
           objects'[t].resultGroup = objects[t].resultGroup
    PROVE  /\ EventPool' /\ ResultPool'
           /\ freeResultResources' \in Seq(ResultGroups) /\ resultResourcesLoad' \in Capacities
<1>1. HoldersOfResult' = HoldersOfResult \ {t} /\ t \in HoldersOfResult
    BY DEF HoldersOfResult
<1>2. EventGroupOf' = EventGroupOf /\ ResultGroupOf' = ResultGroupOf
    BY DEF EventGroupOf, ResultGroupOf
<1>3. /\ ResultCapacity \in 0 .. Width - 2
      /\ freeResultResources \in Seq(1 .. ResultCapacity) /\ resultResourcesLoad \in Capacities
      /\ ResultGroupOf[t] = objects[t].resultGroup
    BY CapacityAssumption DEF CapacityAssumption, TypeOK, ResultGroups, ResultGroupOf
<1>4. Pool(freeResultResources, resultResourcesLoad, ResultCapacity, HoldersOfResult, ResultGroupOf)
    BY DEF ResultPool
<1>5. /\ Append(freeResultResources, ResultGroupOf[t]) \in Seq(1 .. ResultCapacity)
      /\ Minus(resultResourcesLoad) \in Capacities
      /\ Pool(Append(freeResultResources, ResultGroupOf[t]), Minus(resultResourcesLoad),
              ResultCapacity, HoldersOfResult \ {t}, ResultGroupOf)
    BY ONLY <1>1, <1>3, <1>4, PoolReturn
<1>6. /\ freeResultResources' = Append(freeResultResources, ResultGroupOf[t])
      /\ resultResourcesLoad' = Minus(resultResourcesLoad)
    BY <1>3 DEF ReturnResultResourceGroup
<1>7. /\ ResultPool' /\ freeResultResources' \in Seq(ResultGroups)
      /\ resultResourcesLoad' \in Capacities
    BY <1>1, <1>2, <1>5, <1>6 DEF ResultPool, ResultGroups
<1>8. EventPool'
    <2>1. HoldersOfEvent' = HoldersOfEvent
        BY DEF HoldersOfEvent
    <2> QED BY <1>2, <2>1 DEF EventPool, eventPoolVars, Pool
<1> QED BY <1>7, <1>8

\* The task gives the event group back, and to the pool it came from.
LEMMA HandleExecutedKeeps ==
    ASSUME IInv, NEW t \in Tasks, HandleExecuted(t)
    PROVE  Sound
<1> DEFINE after == ReleaseEventResourceGroup(objects[t])
<1>1. /\ current = t
      /\ objects' = [objects EXCEPT ![t] = after]
      /\ ReturnEventResourceGroup(objects[t].eventGroup)
      /\ HandlerReturns(t, TRUE)
      /\ UNCHANGED <<resultPoolVars, workLoad, syclQueueOwner, threads, tasks, completed>>
    BY DEF HandleExecuted, Handling, BecomesNotifying
<1>2. /\ objects[t] \in TaskObjects /\ objects[t].state = "Executed"
      /\ Consistent(objects[t], "none") /\ threads[t] = "none"
      /\ t \in tasks /\ t \notin tasksWithChangedState
    BY <1>1, HandledTask DEF HandleExecuted, Handling
<1>3. /\ after \in TaskObjects /\ after.state = "WaitingForResultTransfer"
      /\ after.changing = objects[t].changing
      /\ after.eventAssigned = FALSE
      /\ after.resultAssigned = objects[t].resultAssigned
      /\ after.eventGroup = objects[t].eventGroup
      /\ after.resultGroup = objects[t].resultGroup
    BY <1>2, ReleaseFacts
<1>4. tasksWithChangedState' = tasksWithChangedState \cup {t}
    BY <1>2, <1>3 DEF HandleExecuted, BecomesNotifying, Notifies
<1> HIDE DEF after
<1>5. /\ objects' \in [Tasks -> TaskObjects] /\ objects'[t] = after
      /\ \A u \in Tasks \ {t} : objects'[u] = objects[u]
    BY <1>1, <1>3, OneTaskChanges DEF IInv
<1>6. Moves'
    BY <1>1, <1>4, HandlerMoves
<1>7. /\ EventPool' /\ ResultPool'
      /\ freeEventResources' \in Seq(EventGroups) /\ eventResourcesLoad' \in Capacities
    <2>1. objects[t].eventAssigned
        BY <1>2 DEF Consistent
    <2> QED BY <1>1, <1>3, <1>5, <2>1, ReturnEventGroup DEF IInv
<1>8. TypeOK'
    BY <1>1, <1>5, <1>6, <1>7 DEF IInv, TypeOK, Moves, resultPoolVars
<1>9. TasksConsistent' /\ TasksOwned'
    <2>1. Consistent(after, "none")
        BY <1>2, <1>3 DEF Consistent, ThreadStates
    <2> QED BY <1>1, <1>2, <1>3, <1>5, <2>1 DEF IInv, TypeOK, TasksConsistent, TasksOwned
<1>10. Queued' = Queued /\ WorkLoadIsQueued'
    <2>1. \A u \in tasks : objects'[u].state = "ReadyToQueue" <=> objects[u].state = "ReadyToQueue"
        BY <1>2, <1>3, <1>5 DEF IInv, TypeOK
    <2> QED BY <1>1, <2>1, LoadKept DEF IInv
<1>11. KeepsUnseenChanges
    BY <1>2, <1>5 DEF KeepsUnseenChanges
<1>12. [Promise!Next]_(Promise!vars)
    BY <1>1, <1>10, ClientSeesNothing
<1> QED BY <1>6, <1>7, <1>8, <1>9, <1>10, <1>11, <1>12 DEF Sound, IInv, Moves

\* The task gives the result group back, and to the pool it came from.
LEMMA HandleResultTransferredKeeps ==
    ASSUME IInv, NEW t \in Tasks, HandleResultTransferred(t)
    PROVE  Sound
<1> DEFINE after == ReleaseResultResourceGroup(objects[t])
<1>1. /\ current = t
      /\ objects' = [objects EXCEPT ![t] = after]
      /\ ReturnResultResourceGroup(objects[t].resultGroup)
      /\ HandlerReturns(t, TRUE)
      /\ UNCHANGED <<eventPoolVars, workLoad, syclQueueOwner, threads, tasks, completed>>
    BY DEF HandleResultTransferred, Handling, BecomesNotifying
<1>2. /\ objects[t] \in TaskObjects /\ objects[t].state = "ResultTransferred"
      /\ Consistent(objects[t], "none") /\ threads[t] = "none"
      /\ t \in tasks /\ t \notin tasksWithChangedState
    BY <1>1, HandledTask DEF HandleResultTransferred, Handling
<1>3. /\ after \in TaskObjects /\ after.state = "Completed"
      /\ after.changing = objects[t].changing
      /\ after.resultAssigned = FALSE
      /\ after.eventAssigned = objects[t].eventAssigned
      /\ after.eventGroup = objects[t].eventGroup
      /\ after.resultGroup = objects[t].resultGroup
    BY <1>2, ReleaseFacts
<1>4. tasksWithChangedState' = tasksWithChangedState \cup {t}
    BY <1>2, <1>3 DEF HandleResultTransferred, BecomesNotifying, Notifies
<1> HIDE DEF after
<1>5. /\ objects' \in [Tasks -> TaskObjects] /\ objects'[t] = after
      /\ \A u \in Tasks \ {t} : objects'[u] = objects[u]
    BY <1>1, <1>3, OneTaskChanges DEF IInv
<1>6. Moves'
    BY <1>1, <1>4, HandlerMoves
<1>7. /\ EventPool' /\ ResultPool'
      /\ freeResultResources' \in Seq(ResultGroups) /\ resultResourcesLoad' \in Capacities
    <2>1. objects[t].resultAssigned
        BY <1>2 DEF Consistent
    <2> QED BY <1>1, <1>3, <1>5, <2>1, ReturnResultGroup DEF IInv
<1>8. TypeOK'
    BY <1>1, <1>5, <1>6, <1>7 DEF IInv, TypeOK, Moves, eventPoolVars
<1>9. TasksConsistent' /\ TasksOwned'
    <2>1. Consistent(after, "none")
        BY <1>2, <1>3 DEF Consistent, ThreadStates
    <2> QED BY <1>1, <1>2, <1>3, <1>5, <2>1 DEF IInv, TypeOK, TasksConsistent, TasksOwned
<1>10. Queued' = Queued /\ WorkLoadIsQueued'
    <2>1. \A u \in tasks : objects'[u].state = "ReadyToQueue" <=> objects[u].state = "ReadyToQueue"
        BY <1>2, <1>3, <1>5 DEF IInv, TypeOK
    <2> QED BY <1>1, <2>1, LoadKept DEF IInv
<1>11. KeepsUnseenChanges
    BY <1>2, <1>5 DEF KeepsUnseenChanges
<1>12. [Promise!Next]_(Promise!vars)
    BY <1>1, <1>10, ClientSeesNothing
<1> QED BY <1>6, <1>7, <1>8, <1>9, <1>10, <1>11, <1>12 DEF Sound, IInv, Moves

\* The task leaves the queue and the worker: a completion.
LEMMA HandleCompletedKeeps ==
    ASSUME IInv, NEW t \in Tasks, HandleCompleted(t)
    PROVE  Sound
<1>1. /\ current = t /\ objects[t].state = "Completed" /\ workLoad' = Minus(workLoad)
      /\ tasks' = tasks \ {t} /\ completed' = completed \cup {t}
      /\ HandlerReturns(t, TRUE)
      /\ UNCHANGED <<eventPoolVars, resultPoolVars, syclQueueOwner, objects, threads,
                     tasksWithChangedState>>
    BY DEF HandleCompleted, OnTaskCompleted, Handling, DecrementWorkLoad, taskVars
<1>2. t \in tasks
    BY <1>1, HandledTask
<1>3. Moves'
    BY <1>1, HandlerMoves
<1>4. /\ IsFiniteSet(Queued) /\ t \in Queued /\ Queued' = Queued \ {t}
      /\ workLoad = Cardinality(Queued) /\ workLoad <= WorkCapacity /\ workLoad \in Nat
    <2>1. IsFiniteSet(Queued)
        BY TasksAssumption, FS_Subset DEF TasksAssumption, Queued, IInv, TypeOK
    <2>2. workLoad = Cardinality(Queued) /\ workLoad <= WorkCapacity /\ workLoad \in Nat
        BY <2>1, FS_CardinalityType DEF IInv, WorkLoadIsQueued
    <2> QED BY <1>1, <1>2, <2>1, <2>2 DEF Queued
<1>5. Cardinality(Queued \ {t}) = workLoad - 1 /\ IsFiniteSet(Queued \ {t})
    BY <1>4, FS_RemoveElement
<1>6. workLoad \in 1 .. Width - 1
    <2>1. workLoad - 1 \in Nat
        BY <1>5, FS_CardinalityType
    <2> QED BY <1>4, <2>1, CapacityAssumption, WidthFacts DEF CapacityAssumption
<1>7. workLoad' = workLoad - 1
    BY <1>1, <1>6, CounterFacts
<1>8. workLoad' \in Capacities /\ workLoad' <= WorkCapacity
    BY <1>4, <1>6, <1>7, CapacityAssumption, WidthFacts DEF CapacityAssumption, Capacities
<1>9. WorkLoadIsQueued'
    BY <1>4, <1>5, <1>7, <1>8 DEF WorkLoadIsQueued
<1>10. TypeOK'
    BY <1>1, <1>3, <1>8 DEF IInv, TypeOK, Moves, eventPoolVars, resultPoolVars
<1>11. TasksConsistent' /\ TasksOwned'
    BY <1>1 DEF IInv, TasksConsistent, TasksOwned
<1>12. EventPool' /\ ResultPool'
    BY <1>1, PoolsKept DEF IInv
<1>13. KeepsUnseenChanges
    BY <1>1 DEF KeepsUnseenChanges
<1>14. Promise!Complete(t)
    <2>1. (tasks \ Queued)' = tasks \ Queued
        BY <1>1, <1>4
    <2> QED BY <1>1, <1>4, <2>1 DEF Promise!Complete
<1>15. Promise!Next
    BY <1>14 DEF Promise!Next
<1> QED BY <1>3, <1>9, <1>10, <1>11, <1>12, <1>13, <1>15 DEF Sound, IInv, Moves

-----------------------------------------------------------------------------
(* The threads.                                                            *)

\* A thread that goes from one place to the next, its task being nowhere else:
\* every place stays with its one task.
LEMMA ThreadGoesOn ==
    ASSUME IInv, NEW t \in Tasks, threads[t] # "none",
           NEW place \in ThreadPlaces \ {"none"},
           threads' = [threads EXCEPT ![t] = place],
           UNCHANGED workerVars
    PROVE  Moves'
<1> USE DEF IInv, TypeOK, InOnePlace
<1>1. UNCHANGED <<tasks, tasksWithChangedState, tasksToProcess, notProcessedTasks, processing,
                  current>>
    BY DEF workerVars, sweepVars
<1>2. /\ threads' \in [Tasks -> ThreadPlaces] /\ threads'[t] # "none"
      /\ \A u \in Tasks \ {t} : threads'[u] = threads[u]
    BY DEF ThreadPlaces
<1>3. OnePlace'
    BY <1>1, <1>2 DEF OnePlace
<1>4. SomePlace'
    BY <1>1, <1>2 DEF SomePlace
<1>5. BetweenSweeps'
    BY <1>1 DEF BetweenSweeps
<1> QED BY <1>1, <1>2, <1>3, <1>4, <1>5 DEF Moves

\* A task whose thread is somewhere is the worker's, and in no other place.
LEMMA RunningTask ==
    ASSUME IInv, NEW t \in Tasks, threads[t] # "none"
    PROVE  /\ t \in tasks
           /\ t \notin tasksWithChangedState
           /\ t \notin Range(tasksToProcess)
           /\ t \notin Range(notProcessedTasks)
           /\ current # t
           /\ objects[t] \in TaskObjects
           /\ Consistent(objects[t], threads[t])
    BY DEF IInv, InOnePlace, OnePlace, SomePlace, TypeOK, TasksConsistent

\* The steps at the queue's mutex.
LEMMA ThreadAtQueueKeeps ==
    ASSUME IInv, NEW t \in Tasks, ThreadCheckout(t) \/ ThreadCheckin(t)
    PROVE  Sound
<1>1. PICK place \in {"submit", "wait"} : threads' = [threads EXCEPT ![t] = place]
    BY DEF ThreadCheckout, ThreadCheckin
<1>2. /\ threads[t] \in {"checkout", "submit"}
      /\ syclQueueOwner' \in Tasks \cup {Nobody}
      /\ UNCHANGED <<eventPoolVars, resultPoolVars, workLoad, objects, workerVars>>
    BY DEF ThreadCheckout, ThreadCheckin, CheckoutQueue, CheckinQueue
<1>3. UNCHANGED <<tasks, completed>>
    BY <1>2 DEF workerVars
<1>4. Moves'
    BY <1>1, <1>2, ThreadGoesOn DEF ThreadPlaces
<1>5. TypeOK'
    BY <1>2, <1>3, <1>4 DEF IInv, TypeOK, Moves, eventPoolVars, resultPoolVars
<1>6. TasksConsistent' /\ TasksOwned'
    <2>1. Consistent(objects[t], threads[t])
        BY DEF IInv, TasksConsistent
    <2>2. Consistent(objects[t], place)
        BY <1>2, <2>1 DEF Consistent
    <2>3. threads'[t] = place /\ \A u \in Tasks \ {t} : threads'[u] = threads[u]
        BY <1>1 DEF IInv, TypeOK
    <2> QED BY <1>2, <1>3, <2>2, <2>3 DEF IInv, TasksConsistent, TasksOwned
<1>7. EventPool' /\ ResultPool'
    BY <1>2, PoolsKept DEF IInv
<1>8. Queued' = Queued /\ WorkLoadIsQueued'
    BY <1>2, <1>3, LoadKept DEF IInv
<1>9. KeepsUnseenChanges
    BY <1>2 DEF KeepsUnseenChanges
<1>10. [Promise!Next]_(Promise!vars)
    BY <1>3, <1>8, ClientSeesNothing
<1> QED BY <1>4, <1>5, <1>6, <1>7, <1>8, <1>9, <1>10 DEF Sound, IInv, Moves

\* The device has finished: isStateChanging_ is reset, and then the state set.
LEMMA ThreadSetsTaskKeeps ==
    ASSUME IInv, NEW t \in Tasks, ThreadDeviceDone(t) \/ ThreadSetState(t)
    PROVE  Sound
<1>1. PICK place \in {"set", "notify"} : threads' = [threads EXCEPT ![t] = place]
    BY DEF ThreadDeviceDone, ThreadSetState
<1>2. threads[t] \in {"wait", "set"} /\ UNCHANGED <<queueVars, workerVars>>
    BY DEF ThreadDeviceDone, ThreadSetState
<1>3. UNCHANGED <<tasks, completed, tasksWithChangedState>>
    BY <1>2 DEF workerVars
<1>4. /\ t \in tasks /\ t \notin tasksWithChangedState
      /\ objects[t] \in TaskObjects /\ Consistent(objects[t], threads[t])
    BY <1>2, RunningTask
<1>5. PICK after \in TaskObjects :
          /\ objects' = [objects EXCEPT ![t] = after]
          /\ after.state \notin {"Created", "EventAndResultAssigned", "ReadyToQueue", "Completed"}
          /\ after.eventAssigned = objects[t].eventAssigned
          /\ after.resultAssigned = objects[t].resultAssigned
          /\ after.eventGroup = objects[t].eventGroup
          /\ after.resultGroup = objects[t].resultGroup
          /\ Consistent(after, place)
    <2>1. objects[t].state \in ThreadStates
        BY <1>2, <1>4 DEF Consistent
    <2>2. CASE ThreadDeviceDone(t)
        <3> DEFINE after == EndStateChange(objects[t])
        <3>1. /\ objects' = [objects EXCEPT ![t] = after]
              /\ threads[t] = "wait" /\ threads' = [threads EXCEPT ![t] = "set"]
            BY <2>2 DEF ThreadDeviceDone
        <3>2. /\ after \in TaskObjects /\ after.state = objects[t].state
              /\ after.changing = FALSE
              /\ after.eventAssigned = objects[t].eventAssigned
              /\ after.resultAssigned = objects[t].resultAssigned
              /\ after.eventGroup = objects[t].eventGroup
              /\ after.resultGroup = objects[t].resultGroup
            BY <1>4, ChangingFacts
        <3>3. place = "set"
            BY <1>1, <3>1 DEF IInv, TypeOK
        <3> HIDE DEF after
        <3>4. Consistent(after, "set")
            BY <1>4, <2>1, <3>1, <3>2 DEF Consistent, ThreadStates
        <3> QED BY <2>1, <3>1, <3>2, <3>3, <3>4 DEF ThreadStates
    <2>3. CASE ThreadSetState(t)
        <3> DEFINE next == StateAfterThread(objects[t])
                   after == SetState(objects[t], next)
        <3>1. /\ objects' = [objects EXCEPT ![t] = after]
              /\ threads[t] = "set" /\ threads' = [threads EXCEPT ![t] = "notify"]
            BY <2>3 DEF ThreadSetState
        <3>2. /\ objects[t].state = "WaitingForEventTransfer" => next = "WaitingForExecution"
              /\ objects[t].state = "WaitingForExecution" => next = "Executed"
              /\ objects[t].state = "WaitingForResultTransfer" => next = "ResultTransferred"
            BY DEF StateAfterThread
        <3>3. next \in {"WaitingForExecution", "Executed", "ResultTransferred"}
            BY <2>1, <3>2 DEF ThreadStates
        <3>4. next \in TaskStates
            BY <3>3 DEF TaskStates
        <3> HIDE DEF next
        <3>5. /\ after \in TaskObjects /\ after.state = next
              /\ after.changing = objects[t].changing
              /\ after.eventAssigned = objects[t].eventAssigned
              /\ after.resultAssigned = objects[t].resultAssigned
              /\ after.eventGroup = objects[t].eventGroup
              /\ after.resultGroup = objects[t].resultGroup
            BY <1>4, <3>4, SetStateFacts
        <3>6. place = "notify"
            BY <1>1, <3>1 DEF IInv, TypeOK
        <3> HIDE DEF after
        <3>7. Consistent(after, "notify")
            BY <1>4, <2>1, <3>1, <3>2, <3>3, <3>5 DEF Consistent, ThreadStates
        <3> QED BY <3>1, <3>3, <3>5, <3>6, <3>7
    <2> QED BY <2>2, <2>3
<1>6. /\ objects' \in [Tasks -> TaskObjects] /\ objects'[t] = after
      /\ \A u \in Tasks \ {t} : objects'[u] = objects[u]
    BY <1>5, OneTaskChanges DEF IInv
<1>7. Moves'
    BY <1>1, <1>2, ThreadGoesOn DEF ThreadPlaces
<1>8. TypeOK'
    BY <1>2, <1>3, <1>6, <1>7 DEF IInv, TypeOK, Moves, queueVars, eventPoolVars, resultPoolVars
<1>9. objects[t].state \notin {"Created", "EventAndResultAssigned", "ReadyToQueue", "Completed"}
    BY <1>2, <1>4 DEF Consistent, ThreadStates
<1>10. TasksConsistent' /\ TasksOwned'
    <2>1. threads'[t] = place /\ \A u \in Tasks \ {t} : threads'[u] = threads[u]
        BY <1>1 DEF IInv, TypeOK
    <2>2. t \notin completed
        BY <1>9 DEF IInv, TasksOwned
    <2> QED BY <1>3, <1>5, <1>6, <2>1, <2>2 DEF IInv, TypeOK, TasksConsistent, TasksOwned
<1>11. EventPool' /\ ResultPool'
    BY <1>2, <1>5, <1>6, PoolsKept DEF IInv, queueVars
<1>12. Queued' = Queued /\ WorkLoadIsQueued'
    <2>1. \A u \in tasks : objects'[u].state = "ReadyToQueue" <=> objects[u].state = "ReadyToQueue"
        BY <1>5, <1>6, <1>9 DEF IInv, TypeOK
    <2> QED BY <1>2, <1>3, <2>1, LoadKept DEF IInv, queueVars
<1>13. KeepsUnseenChanges
    BY <1>4, <1>6 DEF KeepsUnseenChanges
<1>14. [Promise!Next]_(Promise!vars)
    BY <1>3, <1>12, ClientSeesNothing
<1> QED BY <1>7, <1>8, <1>10, <1>11, <1>12, <1>13, <1>14 DEF Sound, IInv, Moves

\* The thread ends and its change is to be seen.
LEMMA ThreadNotifyKeeps ==
    ASSUME IInv, NEW t \in Tasks, ThreadNotify(t)
    PROVE  Sound
<1> USE DEF IInv, TypeOK, InOnePlace
<1>1. /\ threads[t] = "notify" /\ threads' = [threads EXCEPT ![t] = "none"]
      /\ tasksWithChangedState' = tasksWithChangedState \cup {t}
      /\ UNCHANGED <<queueVars, objects, tasks, completed, tasksToProcess, notProcessedTasks,
                     processing, current>>
    BY DEF ThreadNotify, sweepVars
<1>2. /\ t \in tasks
      /\ t \notin tasksWithChangedState
      /\ t \notin Range(tasksToProcess)
      /\ t \notin Range(notProcessedTasks)
      /\ current # t
      /\ Consistent(objects[t], threads[t])
    BY <1>1, RunningTask
<1>3. /\ threads' \in [Tasks -> ThreadPlaces] /\ threads'[t] = "none"
      /\ \A u \in Tasks \ {t} : threads'[u] = threads[u]
    BY <1>1 DEF ThreadPlaces
<1>4. OnePlace'
    BY <1>1, <1>2, <1>3 DEF OnePlace
<1>5. SomePlace'
    BY <1>1, <1>2, <1>3 DEF SomePlace
<1>6. BetweenSweeps'
    BY <1>1 DEF BetweenSweeps
<1>7. TypeOK'
    BY <1>1, <1>3 DEF queueVars, eventPoolVars, resultPoolVars
<1>8. TasksConsistent' /\ TasksOwned'
    <2>1. Consistent(objects[t], "none")
        BY <1>1, <1>2 DEF Consistent
    <2> QED BY <1>1, <1>3, <2>1 DEF TasksConsistent, TasksOwned
<1>9. EventPool' /\ ResultPool'
    BY <1>1, PoolsKept DEF queueVars
<1>10. Queued' = Queued /\ WorkLoadIsQueued'
    BY <1>1, LoadKept DEF queueVars
<1>11. KeepsUnseenChanges
    BY <1>1 DEF KeepsUnseenChanges
<1>12. [Promise!Next]_(Promise!vars)
    BY <1>1, <1>10, ClientSeesNothing
<1> QED BY <1>4, <1>5, <1>6, <1>7, <1>8, <1>9, <1>10, <1>11, <1>12 DEF Sound

-----------------------------------------------------------------------------
(* The invariant of the specification.                                     *)

\* The constructor's loop puts every group in its pool, once.
LEMMA FullPool ==
    ASSUME NEW n \in Nat
    PROVE  /\ [i \in 1 .. n |-> i] \in Seq(1 .. n)
           /\ Range([i \in 1 .. n |-> i]) = 1 .. n
           /\ IsInjective([i \in 1 .. n |-> i])
           /\ Len([i \in 1 .. n |-> i]) = n
<1> DEFINE s == [i \in 1 .. n |-> i]
<1>1. s \in Seq(1 .. n) /\ Len(s) = n
    OBVIOUS
<1>2. DOMAIN s = 1 .. n /\ \A i \in 1 .. n : s[i] = i
    OBVIOUS
<1> HIDE DEF s
<1>3. Range(s) = 1 .. n /\ IsInjective(s)
    BY <1>2 DEF Range, IsInjective
<1> QED BY <1>1, <1>3 DEF s

\* It holds when the worker and its queue are constructed.
LEMMA InitIInv == Init => IInv
<1> SUFFICES ASSUME Init PROVE IInv
    OBVIOUS
<1>1. EventCapacity \in Nat /\ ResultCapacity \in Nat
    BY CapacityAssumption, WidthFacts DEF CapacityAssumption
<1>2. /\ freeEventResources \in Seq(1 .. EventCapacity)
      /\ Range(freeEventResources) = 1 .. EventCapacity
      /\ IsInjective(freeEventResources)
      /\ Len(freeEventResources) = EventCapacity /\ eventResourcesLoad = 0
    BY <1>1, FullPool DEF Init, QueueInit
<1>3. /\ freeResultResources \in Seq(1 .. ResultCapacity)
      /\ Range(freeResultResources) = 1 .. ResultCapacity
      /\ IsInjective(freeResultResources)
      /\ Len(freeResultResources) = ResultCapacity /\ resultResourcesLoad = 0
    BY <1>1, FullPool DEF Init, QueueInit
<1>4. NewTask \in TaskObjects
    BY DEF NewTask, TaskObjects, TaskStates
<1>5. \A t \in Tasks : objects[t] = NewTask /\ threads[t] = "none"
    BY DEF Init
<1>6. TypeOK
    <2>1. 0 \in Capacities
        BY WidthFacts DEF Capacities
    <2>2. objects \in [Tasks -> TaskObjects] /\ threads \in [Tasks -> ThreadPlaces]
        BY <1>4 DEF Init, ThreadPlaces
    <2>3. freeEventResources \in Seq(EventGroups) /\ freeResultResources \in Seq(ResultGroups)
        BY <1>2, <1>3 DEF EventGroups, ResultGroups
    <2>4. /\ eventResourcesLoad = 0 /\ resultResourcesLoad = 0 /\ workLoad = 0
          /\ syclQueueOwner = Nobody /\ tasks = {} /\ completed = {}
          /\ tasksWithChangedState = {} /\ processing = FALSE /\ current = NoTask
        BY DEF Init, QueueInit
    <2>5. tasksToProcess \in Seq(Tasks) /\ notProcessedTasks \in Seq(Tasks)
        BY DEF Init
    <2> QED BY <2>1, <2>2, <2>3, <2>4, <2>5 DEF TypeOK
<1>7. InOnePlace
    BY <1>5, EmptyFacts, TasksAssumption
    DEF Init, InOnePlace, OnePlace, SomePlace, BetweenSweeps, TasksAssumption
<1>8. TasksConsistent /\ TasksOwned
    BY <1>5 DEF Init, TasksConsistent, TasksOwned, Consistent, NewTask, ThreadStates
<1>9. HoldersOfEvent = {} /\ HoldersOfResult = {}
    BY <1>5 DEF HoldersOfEvent, HoldersOfResult, NewTask
<1>10. EventPool
    BY <1>1, <1>2, <1>9 DEF EventPool, Pool
<1>11. ResultPool
    BY <1>1, <1>3, <1>9 DEF ResultPool, Pool
<1>12. WorkLoadIsQueued
    <2>1. Queued = {} /\ workLoad = 0
        BY DEF Init, QueueInit, Queued
    <2>2. 0 <= WorkCapacity
        BY CapacityAssumption, WidthFacts DEF CapacityAssumption
    <2> QED BY <2>1, <2>2, FS_EmptySet DEF WorkLoadIsQueued
<1> QED BY <1>6, <1>7, <1>8, <1>10, <1>11, <1>12 DEF IInv

\* Nothing happens to a worker that nobody calls.
LEMMA StutterKeeps ==
    ASSUME IInv, UNCHANGED vars
    PROVE  Sound
<1>1. UNCHANGED <<queueVars, taskVars, tasks, completed, tasksWithChangedState, tasksToProcess,
                  notProcessedTasks, processing, current>>
    BY DEF vars, workerVars, sweepVars
<1>2. InOnePlace'
    BY <1>1 DEF IInv, InOnePlace, OnePlace, SomePlace, BetweenSweeps, taskVars
<1> QED BY <1>1, <1>2, MovingIdsKeeps DEF IInv, TypeOK

\* Every step is sound.
LEMMA EveryStepSound == IInv /\ [Next]_vars => Sound
<1> SUFFICES ASSUME IInv, [Next]_vars PROVE Sound
    OBVIOUS
<1>1. ASSUME NEW t \in Tasks, GiveEventAndResult(t) PROVE Sound
    BY <1>1, GiveEventAndResultKeeps
<1>2. ASSUME NEW t \in Tasks, SubmitTask(t) PROVE Sound
    BY <1>2, SubmitTaskKeeps
<1>3. CASE BeginSweep
    BY <1>3, BeginSweepKeeps
<1>4. CASE PopTask
    BY <1>4, PopTaskKeeps
<1>5. CASE EndSweep
    BY <1>5, EndSweepKeeps
<1>6. ASSUME NEW t \in Tasks, Handle(t) PROVE Sound
    <2>1. CASE RefuseQueueFull(t)
        BY <2>1, RefuseQueueFullKeeps
    <2>2. CASE QueueTask(t)
        BY <2>2, QueueTaskKeeps
    <2>3. CASE HandleWaitingForResources(t)
        BY <2>3, HandleWaitingForResourcesKeeps
    <2>4. CASE StartThread(t)
        BY <2>4, StartThreadKeeps
    <2>5. CASE HandleExecuted(t)
        BY <2>5, HandleExecutedKeeps
    <2>6. CASE HandleResultTransferred(t)
        BY <2>6, HandleResultTransferredKeeps
    <2>7. CASE HandleCompleted(t)
        BY <2>7, HandleCompletedKeeps
    <2> QED BY <1>6, <2>1, <2>2, <2>3, <2>4, <2>5, <2>6, <2>7 DEF Handle
<1>7. ASSUME NEW t \in Tasks, Thread(t) PROVE Sound
    <2>1. CASE ThreadCheckout(t) \/ ThreadCheckin(t)
        BY <2>1, ThreadAtQueueKeeps
    <2>2. CASE ThreadDeviceDone(t) \/ ThreadSetState(t)
        BY <2>2, ThreadSetsTaskKeeps
    <2>3. CASE ThreadNotify(t)
        BY <2>3, ThreadNotifyKeeps
    <2> QED BY <1>7, <2>1, <2>2, <2>3 DEF Thread
<1>8. CASE UNCHANGED vars
    BY <1>8, StutterKeeps
<1> QED BY <1>1, <1>2, <1>3, <1>4, <1>5, <1>6, <1>7, <1>8 DEF Next, ProcessTasks, Terminated

\* The inductive invariant is one.
LEMMA InvariantHolds == Spec => []IInv
<1>1. Init => IInv
    BY InitIInv
<1>2. IInv /\ [Next]_vars => IInv'
    BY EveryStepSound DEF Sound
<1> QED BY <1>1, <1>2, PTL DEF Spec

-----------------------------------------------------------------------------
(* What it means for the worker, its tasks and its queue.                  *)

\* Every variable keeps its type; in particular no counter of the queue wraps
\* and no pool receives a group that is not its own.
THEOREM TypeCorrect == Spec => []TypeOK
<1>1. IInv => TypeOK
    BY DEF IInv
<1> QED BY <1>1, InvariantHolds, PTL

\* The members of Places, one by one.
LEMMA PlacesUnfolded ==
    ASSUME NEW t
    PROVE  /\ "changed" \in Places(t) <=> t \in tasksWithChangedState
           /\ "toProcess" \in Places(t) <=> t \in Range(tasksToProcess)
           /\ "notProcessed" \in Places(t) <=> t \in Range(notProcessedTasks)
           /\ "current" \in Places(t) <=> current = t
           /\ "thread" \in Places(t) <=> threads[t] # "none"
           /\ Places(t) \subseteq {"changed", "toProcess", "notProcessed", "current", "thread"}
    BY DEF Places

\* The places a task is in, and who owns it, as the runs state them.
LEMMA PlacesOfTasks ==
    ASSUME IInv
    PROVE  TasksAccountedFor /\ OnlyOwnedTasksMove
<1>1. \A t \in Tasks : t \in tasks <=> Places(t) # {}
    BY PlacesUnfolded DEF IInv, InOnePlace, SomePlace
<1>2. ASSUME NEW t \in Tasks, NEW p \in Places(t), NEW q \in Places(t) PROVE p = q
    BY PlacesUnfolded DEF IInv, InOnePlace, OnePlace
<1>3. IsInjective(tasksToProcess) /\ IsInjective(notProcessedTasks) /\ tasks \in SUBSET Tasks
    BY DEF IInv, InOnePlace, OnePlace, TypeOK
<1> QED BY <1>1, <1>2, <1>3
    DEF TasksAccountedFor, NoTaskForgotten, NoTaskTwice, OnlyOwnedTasksMove

\* A task the worker owns is in one place, and there once: it is neither forgotten
\* nor handled twice.
THEOREM TasksAlwaysAccountedFor == Spec => []TasksAccountedFor
<1>1. IInv => TasksAccountedFor
    BY PlacesOfTasks
<1> QED BY <1>1, InvariantHolds, PTL

\* No id of a task that has been handed back is looked up again.
THEOREM OnlyOwnedTasksAreLookedUp == Spec => []OnlyOwnedTasksMove
<1>1. IInv => OnlyOwnedTasksMove
    BY PlacesOfTasks
<1> QED BY <1>1, InvariantHolds, PTL

\* No handler touches a task one of whose operations is in progress.
THEOREM NeverManipulatedWhileChanging == Spec => []NotManipulatedWhileChanging
<1>1. IInv => NotManipulatedWhileChanging
    BY DEF IInv, InOnePlace, OnePlace, TasksConsistent, Consistent, NotManipulatedWhileChanging
<1> QED BY <1>1, InvariantHolds, PTL

\* The branch of processTasks that logs a task and drops it is never taken: what
\* is in tasksToProcess_ was submitted and is not changing.
THEOREM NothingIsDropped ==
    Spec => [](\A t \in Tasks : t \in Range(tasksToProcess) => ~ Dropped(objects[t]))
<1>1. IInv => \A t \in Tasks : t \in Range(tasksToProcess) => ~ Dropped(objects[t])
    BY NotDropped
<1> QED BY <1>1, InvariantHolds, PTL

\* The pools, as the runs state them.
LEMMA ResourcesOfTasks == IInv => ResourcesAccountedFor
<1> SUFFICES ASSUME IInv PROVE ResourcesAccountedFor
    OBVIOUS
<1>1. /\ \A t \in HoldersOfEvent : EventGroupOf[t] = objects[t].eventGroup
      /\ \A t \in HoldersOfResult : ResultGroupOf[t] = objects[t].resultGroup
    BY DEF HoldersOfEvent, HoldersOfResult, EventGroupOf, ResultGroupOf
<1>2. /\ {EventGroupOf[t] : t \in HoldersOfEvent} = {objects[t].eventGroup : t \in HoldersOfEvent}
      /\ {ResultGroupOf[t] : t \in HoldersOfResult}
             = {objects[t].resultGroup : t \in HoldersOfResult}
    BY <1>1
<1>3. GroupsNotShared
    BY <1>1 DEF IInv, EventPool, ResultPool, Pool, GroupsNotShared, EventGroups, ResultGroups
<1>4. NoGroupLost
    BY <1>2 DEF IInv, EventPool, ResultPool, Pool, NoGroupLost, EventGroups, ResultGroups
<1> QED BY <1>3, <1>4 DEF IInv, ResourcesAccountedFor

\* Each group is lent to one task at most and comes back once, and the counters the
\* worker compares with the capacities are true.
THEOREM ResourcesAlwaysAccountedFor == Spec => []ResourcesAccountedFor
<1> QED BY ResourcesOfTasks, InvariantHolds, PTL

\* The device never works with a group its task has given back.
THEOREM DeviceAlwaysUsesHeldGroups == Spec => []DeviceUsesHeldGroups
<1>1. IInv => DeviceUsesHeldGroups
    BY DEF IInv, TasksConsistent, Consistent, DeviceUsesHeldGroups, ThreadStates
<1> QED BY <1>1, InvariantHolds, PTL

\* No step changes the state of a task whose last change has not been seen.
THEOREM ChangesAreSeenOneByOne == Spec => OneChangePerNotification
<1>1. IInv /\ [Next]_vars => [KeepsUnseenChanges]_vars
    BY EveryStepSound DEF Sound
<1> QED BY <1>1, InvariantHolds, PTL DEF Spec, OneChangePerNotification

\* The worker keeps the safety half of its promise: every behaviour of it is one
\* of DeviceQueue, with the tasks ready to queue waiting and those queued in the
\* queue.  (That it also makes progress is model-checked.)
THEOREM KeepsItsPromise == Spec => Promise!Spec
<1>1. Init => Promise!Init
    BY DEF Init, Promise!Init, Queued
<1>2. IInv /\ [Next]_vars => [Promise!Next]_(Promise!vars)
    BY EveryStepSound DEF Sound
<1> QED BY <1>1, <1>2, InvariantHolds, PTL DEF Spec, Promise!Spec

=============================================================================
