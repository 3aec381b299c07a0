---------------------------- MODULE Application ----------------------------
(***************************************************************************)
(* runOnCpu and runOnGpu (application/HelixSolver/src/Application.cpp):    *)
(* the main thread, the one caller of the ComputingManager.  It adds every *)
(* event, waits for all tasks, takes the solutions and saves them.  The    *)
(* two differ in what they do while addEvent returns false: the CPU loop   *)
(* blocks on a worker before it updates, the GPU loop only updates.        *)
(***************************************************************************)
EXTENDS ComputingManager

CONSTANT EventList  \* the loaded events, in the order of the loop

ASSUME EventListAssumption ==
    /\ EventList \in Seq(Events)
    /\ IsInjective(EventList)
    /\ Range(EventList) = Events

VARIABLES
    onGpu,  \* the configuration chooses runOnGpu
    phase,  \* the place in runOnCpu or runOnGpu
    next,   \* index of the event the loop is at
    saved   \* events whose solutions are in the output file, in file order

appVars == <<onGpu, phase, next, saved>>
allVars == <<vars, appVars>>

AppInit ==
    /\ Init
    /\ onGpu \in BOOLEAN
    /\ phase = "adding"
    /\ next = 1
    /\ saved = <<>>

\* Mutant: the loop does not move on.
AddSameAgain ==
    /\ phase = "adding"
    /\ next <= Len(EventList)
    /\ AddEvent(EventList[next])
    /\ UNCHANGED appVars

AddNext ==
    /\ phase = "adding"
    /\ next <= Len(EventList)
    /\ AddEvent(EventList[next])
    /\ next' = next + 1
    /\ UNCHANGED <<onGpu, phase, saved>>

\* addEvent returns false.
AddRefused ==
    /\ phase = "adding"
    /\ next <= Len(EventList)
    /\ pc = "idle"
    /\ freeEventBuffers = <<>>
    /\ phase' = IF onGpu THEN "retry" ELSE "waiting"
    /\ UNCHANGED <<vars, onGpu, next, saved>>

\* Mutant: the CPU loop waits and tries again without an update.
WaitWithoutUpdate ==
    /\ phase = "waiting"
    /\ MayReturnFromWait
    /\ phase' = "adding"
    /\ UNCHANGED <<vars, onGpu, next, saved>>

\* waitForWaitingWorker returns (CPU only).
WaitForWaitingWorker ==
    /\ phase = "waiting"
    /\ MayReturnFromWait
    /\ phase' = "retry"
    /\ UNCHANGED <<vars, onGpu, next, saved>>

RetryUpdate ==
    /\ phase = "retry"
    /\ Update
    /\ phase' = "adding"
    /\ UNCHANGED <<onGpu, next, saved>>

WaitForAll ==
    /\ phase = "adding"
    /\ next > Len(EventList)
    /\ WaitUntillAllTasksCompleted
    /\ phase' = "draining"
    /\ UNCHANGED <<onGpu, next, saved>>

TakeSolutions ==
    /\ phase = "draining"
    /\ TransferSolutions
    /\ phase' = "collecting"
    /\ UNCHANGED <<onGpu, next, saved>>

\* saveSolutionsInRootFile: one group of rows per pair, under the id of the
\* pair's event.
SaveSolutions ==
    /\ phase = "collecting"
    /\ pc = "idle"
    /\ saved' = [i \in DOMAIN delivered |-> delivered[i][1]]
    /\ phase' = "done"
    /\ UNCHANGED <<vars, onGpu, next>>

ManagerRuns ==
    /\ InsideMethod
    /\ UNCHANGED appVars

DeviceRuns ==
    /\ \E w \in Workers : DeviceComplete(w)
    /\ UNCHANGED appVars

MainThread ==
    \/ AddNext
    \/ AddRefused
    \/ WaitForWaitingWorker
    \/ RetryUpdate
    \/ WaitForAll
    \/ TakeSolutions
    \/ SaveSolutions
    \/ ManagerRuns

\* The program has returned from run.
Terminated == phase = "done" /\ UNCHANGED allVars

AppNext == MainThread \/ DeviceRuns \/ Terminated

AppSpec == AppInit /\ [][AppNext]_allVars

\* The main thread runs, and every kernel submitted completes.
FairAppSpec ==
    /\ AppSpec
    /\ WF_allVars(MainThread)
    /\ \A w \in Workers : WF_allVars(DeviceComplete(w) /\ UNCHANGED appVars)

-----------------------------------------------------------------------------
(* Properties.                                                             *)

AppTypeOK ==
    /\ TypeOK
    /\ onGpu \in BOOLEAN
    /\ phase \in {"adding", "waiting", "retry", "draining", "collecting", "done"}
    /\ next \in 1 .. Len(EventList) + 1
    /\ saved \in Seq(Events \cup {NoEvent})

\* The application only does to the manager what its interface allows: it never
\* calls a method inside another, never adds an event twice, and changes nothing
\* behind the manager's back.
UsesManagerByItsInterface == Spec

\* When the program is done, the file has every loaded event, each once.
SavedExactlyOnce ==
    phase = "done" => IsInjective(saved) /\ Range(saved) = Events

\* Nothing is left in a buffer or a worker when the solutions are taken.
DrainedBeforeCollecting ==
    phase \in {"collecting", "done"} =>
        /\ {b \in Buffers : eventBuffers[b].state # "FREE"} = {}
        /\ \A w \in Workers : computingWorkers[w].state = "WAITING"

\* The program finishes, however few buffers and workers it is configured with.
Finishes == <>(phase = "done")

=============================================================================
