------------------------------- MODULE MCParts -------------------------------
(* The parts of the repository that run on their own, checked in one run: one
   of them is chosen at the start and the others stay as they are. *)
EXTENDS DeviceMemory, EventLoading, Splitter, GpuDataTransfer, ConstSizeVector,
        HoughAccumulators, JsonLogging, TestRunner

VARIABLE part

Parts == {"memory", "loading", "splitter", "transfer test", "vector", "accumulators",
          "logging", "test runner"}

Stays(p) ==
    /\ p # "memory" => UNCHANGED vars
    /\ p # "loading" => UNCHANGED loadVars
    /\ p # "splitter" => UNCHANGED splitVars
    /\ p # "transfer test" => UNCHANGED testVars
    /\ p # "vector" => UNCHANGED vectorVars
    /\ p # "accumulators" => UNCHANGED accVars
    /\ p # "logging" => UNCHANGED logVars
    /\ p # "test runner" => UNCHANGED runnerVars
    /\ UNCHANGED part

partsVars == <<part, vars, loadVars, splitVars, testVars, vectorVars, accVars, logVars,
               runnerVars>>

PartsInit ==
    /\ part \in Parts
    /\ Init /\ LoadInit /\ SplitInit /\ TestInit /\ VectorInit /\ AccInit
    /\ LogInit /\ RunnerInit

Ended ==
    \/ part = "loading" /\ LoadEnded
    \/ part = "splitter" /\ SplitEnded
    \/ part = "transfer test" /\ TestEnded
    \/ part = "accumulators" /\ AccEnded
    \/ part = "test runner" /\ RunnerEnded

PartsNext ==
    \/ part = "memory" /\ Next /\ Stays("memory")
    \/ part = "loading" /\ LoadNext /\ Stays("loading")
    \/ part = "splitter" /\ SplitNext /\ Stays("splitter")
    \/ part = "transfer test" /\ TestNext /\ Stays("transfer test")
    \/ part = "vector" /\ VectorNext /\ Stays("vector")
    \/ part = "accumulators" /\ AccNext /\ Stays("accumulators")
    \/ part = "logging" /\ LogNext /\ Stays("logging")
    \/ part = "test runner" /\ RunnerNext /\ Stays("test runner")
    \/ Ended /\ UNCHANGED partsVars

PartsSpec == PartsInit /\ [][PartsNext]_partsVars

-----------------------------------------------------------------------------
\* Entries of three events whose ids do not come in order, up to four of them.
Entry(id, r, z) == [event_id |-> id, r |-> r, z |-> z]
SomeEntries == {Entry(7, 2, 0), Entry(3, 2, 0), Entry(3, 6, 9), Entry(5, 6, 9)}
SomeTrees == UNION {[1 .. n -> SomeEntries] : n \in {0, 3, 4}}

Endcaps == {[rmin |-> 5, rmax |-> 9, zmin |-> 8, zmax |-> 10]}
Barrel == {[rmin |-> 1, rmax |-> 4, zmin |-> -5, zmax |-> 5],
           [rmin |-> 4, rmax |-> 5, zmin |-> -5, zmax |-> 5]}
Config(event, hits, vetoes, copied) ==
    [platform |-> "cpu", inputFileType |-> "root_spacepoints", event |-> event,
     excludeRZRegions |-> hits, excludeEventsWithHitsInRZ |-> vetoes, multiplyEvents |-> copied]
SomeConfigs ==
    {Config(NotSet, NotSet, NotSet, 1), Config(NotSet, NotSet, Endcaps, 2),
     Config(NotSet, Endcaps, Endcaps, 1), Config(3, Barrel, NotSet, 2),
     Config(NotSet, Barrel, Endcaps, 0)}
    \cup {[Config(NotSet, NotSet, NotSet, 1) EXCEPT !.platform = "fpga_emu"],
          [Config(NotSet, NotSet, NotSet, 1) EXCEPT !.inputFileType = "csv"]}

\* Four points for two work items, of which up to four are in one region, so that
\* both items have points of it at the same time.
Drawn(r, phi, z) == [r |-> r, phi |-> phi, z |-> z]
SomeData ==
    {<<Drawn(2, 1, 9), Drawn(3, b, 9), Drawn(2, 2, c), Drawn(q, 3, 9)>> :
        b \in {1, -2}, c \in {9, 0, -9}, q \in {2, 8}}

\* Two points in different layers, or in one, and a third.
PointAt(r, phi, layer) == [r |-> r, phi |-> phi, layer |-> layer]
SomePointSets ==
    {{PointAt(q, a, 0), PointAt(r, b, k), PointAt(r + 2, c, k + 1)} :
        q \in 1 .. 2, r \in 2 .. 3, a \in {-3, 4, 7}, b \in -1 .. 2, c \in {-2, 2, 5}, k \in {0, 1}}

SomeMessages == {LogMessage("Info", "m1"), LogMessage("Error", "m2")}

MinusFour == -4
MinusSix == -6

\* prepare_y_idx gives the rows the naive program counts for any line that falls, meets
\* the grid and goes through no corner of a cell.  Left out are the ends that meet no
\* condition of it: one on the upper bound, unless the other is below the lower, and one
\* on the lower bound, unless the other is above the upper.
ASSUME ClipsLikeNaive ==
    \A y_left \in y_begin - 6 .. y_end + 6 : \A y_right \in y_begin - 6 .. y_left :
        (/\ y_begin < y_left /\ y_right < y_end
         /\ y_left = y_end => y_right < y_begin
         /\ y_right = y_begin => y_left > y_end
         /\ \A y \in {y_left, y_right} : 2 * ((y - y_begin) % dy) # dy)
        => prepare_y_idx(y_left, y_right)
              = {k \in Rows : y_left >= Y(k) - dy \div 2 /\ y_right <= Y(k) + dy \div 2}

\* Every radius is given to one thread, also when the last threads are given none.
ASSUME RadiiAreShared ==
    \A r_len \in 0 .. 20, n \in 1 .. 8 : \A k \in 0 .. r_len - 1 :
        Cardinality({i \in 0 .. n - 1 : k \in radius_list(r_len, n, i)}) = 1
=============================================================================
