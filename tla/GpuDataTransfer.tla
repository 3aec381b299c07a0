--------------------------- MODULE GpuDataTransfer ---------------------------
(***************************************************************************)
(* GpuDataTransferTest (application/experimental/GpuDataTransferTest): how *)
(* long do a kernel that computes and a kernel that moves data take, one   *)
(* after the other, together on one queue, and together on two?  A time is *)
(* worth something if it covers all the work and, where the two kernels    *)
(* are timed apart, none of the other's.                                   *)
(***************************************************************************)
EXTENDS Naturals, Sequences

CONSTANTS
    InputSize, LargeInputSize,
    iterations          \* of each of the three loops

ASSUME TransferTestAssumption ==
    {InputSize, LargeInputSize, iterations} \subseteq Nat \ {0}

VARIABLES
    variants,   \* the loops main has not finished
    iteration,
    calls,      \* what the host has still to do in this iteration
    device,     \* the work items each kernel submitted has still to run
    results,    \* outputBuffer, largeOutputBuffer
    output,     \* the host's output, largeOutput
    timed       \* the kernels at work at some time since the clock was read

testVars == <<variants, iteration, calls, device, results, output, timed>>

Kernels == {"ComputationHeavyKernel", "TransferHeavyKernel"}
Computation == "ComputationHeavyKernel"
Transfer == "TransferHeavyKernel"

----------------------------------------------------------------------------
\* The input at an index is the index.
Size(k) == IF k = Computation THEN InputSize ELSE LargeInputSize
Zeros(k) == [i \in 0 .. Size(k) - 1 |-> <<"zero">>]

ComputationHeavyKernel(i) == <<"sum of i * sin", i>>
TransferHeavyKernel(i) == <<"copy", i>>
ResultAt(k, i) == IF k = Computation THEN ComputationHeavyKernel(i) ELSE TransferHeavyKernel(i)

Call(name, k) == [name |-> name, kernel |-> k]

\* One after the other, each with its own time.
TimedAlone(k) ==
    <<Call("start", k), Call("submit", k), Call("read", k), Call("wait", k), Call("end", k)>>

runSequential == TimedAlone(Computation) \o TimedAlone(Transfer)

runParallel ==
    <<Call("start", Computation), Call("submit", Computation), Call("submit", Transfer),
      Call("read", Transfer), Call("read", Computation), Call("wait", Transfer),
      Call("end", Computation)>>

\* The queues are waited for one after the other.
runParallelSeparateQueues ==
    <<Call("start", Computation), Call("submit", Computation), Call("submit", Transfer),
      Call("read", Transfer), Call("read", Computation),
      Call("waitOwn", Computation), Call("waitOwn", Transfer), Call("end", Computation)>>

CallsOf(variant) ==
    CASE variant = "sequential" -> runSequential
      [] variant = "parallel" -> runParallel
      [] variant = "separateQueues" -> runParallelSeparateQueues

----------------------------------------------------------------------------
TestInit ==
    /\ variants = <<"sequential", "parallel", "separateQueues">>
    /\ iteration = 0 /\ calls = <<>>
    /\ device = [k \in Kernels |-> {}]
    /\ results = [k \in Kernels |-> Zeros(k)] /\ output = results
    /\ timed = {}

\* The vectors and the buffers are new in each iteration.
BeginIteration ==
    /\ variants # <<>> /\ calls = <<>> /\ iteration < iterations
    /\ iteration' = iteration + 1
    /\ calls' = CallsOf(Head(variants))
    /\ results' = [k \in Kernels |-> Zeros(k)] /\ output' = results'
    /\ UNCHANGED <<variants, device, timed>>

NextVariant ==
    /\ variants # <<>> /\ calls = <<>> /\ iteration = iterations
    /\ variants' = Tail(variants) /\ iteration' = 0
    /\ UNCHANGED <<calls, device, results, output, timed>>

AtWork == {k \in Kernels : device[k] # {}}
Calls(name) == calls # <<>> /\ Head(calls).name = name /\ calls' = Tail(calls)

ReadClock ==
    /\ Calls("start") /\ timed' = AtWork
    /\ UNCHANGED <<variants, iteration, device, results, output>>

Submit ==
    /\ Calls("submit")
    /\ LET k == Head(calls).kernel
       IN  /\ device' = [device EXCEPT ![k] = 0 .. Size(k) - 1]
           /\ timed' = timed \cup {k}
    /\ UNCHANGED <<variants, iteration, results, output>>

\* Mutant: the host's view of the buffer does not wait for the kernel.
ReadAtOnce ==
    /\ Calls("read")
    /\ output' = [output EXCEPT ![Head(calls).kernel] = results[Head(calls).kernel]]
    /\ UNCHANGED <<variants, iteration, device, results, timed>>

\* get_host_access waits for the kernel that writes the buffer.
Read ==
    /\ Calls("read") /\ Head(calls).kernel \notin AtWork
    /\ output' = [output EXCEPT ![Head(calls).kernel] = results[Head(calls).kernel]]
    /\ UNCHANGED <<variants, iteration, device, results, timed>>

\* queue.wait(), for all the kernels of the queue.
Wait ==
    /\ \/ Calls("wait") /\ AtWork = {}
       \/ Calls("waitOwn") /\ Head(calls).kernel \notin AtWork
    /\ UNCHANGED <<variants, iteration, device, results, output, timed>>

\* The clock is read again: what becomes a time of the printed list.
ReadClockAgain ==
    /\ Calls("end")
    /\ UNCHANGED <<variants, iteration, device, results, output, timed>>

\* The device runs the work items of the kernels in any order.
WorkItemRuns(k, i) ==
    /\ i \in device[k]
    /\ device' = [device EXCEPT ![k] = @ \ {i}]
    /\ results' = [results EXCEPT ![k][i] = ResultAt(k, i)]
    /\ UNCHANGED <<variants, iteration, calls, output, timed>>

TestEnded == variants = <<>>

TestNext ==
    \/ BeginIteration \/ NextVariant
    \/ ReadClock \/ Submit \/ Read \/ Wait \/ ReadClockAgain
    \/ \E k \in Kernels : \E i \in device[k] : WorkItemRuns(k, i)

TestSpec == TestInit /\ [][TestNext]_testVars

----------------------------------------------------------------------------
\* What the program measures: when the clock is read again the host has the whole
\* output of each kernel it covers and none of these is at work; a time of the
\* sequential loop covers one kernel, the others both.
MeasuresWholeKernels ==
    calls # <<>> /\ Head(calls).name = "end" =>
        /\ \A k \in timed : /\ k \notin AtWork
                            /\ \A i \in 0 .. Size(k) - 1 : output[k][i] = ResultAt(k, i)
        /\ timed = IF Head(variants) = "sequential" THEN {Head(calls).kernel} ELSE Kernels

=============================================================================
