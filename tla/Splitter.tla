------------------------------- MODULE Splitter -------------------------------
(***************************************************************************)
(* Splitter (application/experimental/Splitter/src/Splitter.cpp): a trial  *)
(* of splitting an event into regions on the device.  A first kernel turns *)
(* x, y into 1/r, phi; the second has a work group per region, whose work  *)
(* items each look at every WorkItems-th point and copy those of their     *)
(* region into two local arrays at the place a shared counter says.        *)
(*                                                                         *)
(* The counter is atomic, its three uses of one point are not: a work item *)
(* reads it for the first array, again for the second, then increments it. *)
(***************************************************************************)
EXTENDS Wedge, Sequences, FiniteSets

CONSTANTS
    SplitterData,           \* the sequences of points [r, phi, z] that fill may draw
    phiSplit, etaSplit,
    EtaLimit,               \* 4 in main
    BeamWidth,              \* the width in z at the beam line, 15 in main
    ConvertItems,           \* the work items of the first kernel, 46 in main
    WorkItems,              \* the work items of a group, 256 in main
    Unset                   \* nothing was written here

ASSUME SplitterAssumption ==
    /\ {phiSplit, etaSplit, EtaLimit, BeamWidth, ConvertItems, WorkItems} \subseteq Nat \ {0}
    /\ \A data \in SplitterData : data \in Seq([r : Int, phi : Int, z : Int])
    /\ Unset \notin [r : Int, phi : Int]

VARIABLES
    splitPc,        \* "Called", "Converting", "Splitting", "Split"
    points,         \* x, y, z as polar coordinates
    polar,          \* rinv, phi: the points converted, Unset before
    region,         \* the work group that is followed: groups share nothing they write
    items,          \* the next point and the place of each work item
    lcount,
    rinvFragment, phiFragment   \* the index of the point written to each place

splitVars == <<splitPc, points, polar, region, items, lcount, rinvFragment, phiFragment>>

totSplit == etaSplit * phiSplit
WorkItemIds(n) == 0 .. n - 1

----------------------------------------------------------------------------
\* C's fmod has the sign of its first argument.
fmod(a, b) == IF a < 0 THEN -((-a) % b) ELSE a % b

splitterWrap(phi) == fmod(phi + PI, 2 * PI) + (IF phi + PI < 0 THEN PI ELSE -PI)

splitterDist(phi1, phi2) == splitterWrap(phi1 - phi2)

\* The wedge of a region.  With USE_SYCL the assertions of setup are not compiled.
setup(k) ==
    LET phi == uniform_split(-PI, PI, k \div etaSplit, phiSplit)
        eta == uniform_split(-EtaLimit, EtaLimit, k % etaSplit, etaSplit)
    IN  [phi |-> phi,
         left |-> [eta |-> eta.center - eta.width, z |-> -BeamWidth],
         right |-> [eta |-> eta.center + eta.width, z |-> BeamWidth]]

\* As Wedge's, with the last of the three cases taken whenever the first two are not.
inRegion(w, p) ==
    /\ splitterDist(p.phi, w.phi.center) \in -w.phi.width .. w.phi.width
    /\ IF w.left.eta > 0 /\ w.right.eta > 0
       THEN IsAbove(w.left, p.r, p.z) /\ IsBelow(w.right, p.r, p.z)
       ELSE IF w.left.eta < 0 /\ w.right.eta > 0
       THEN IsBelow(w.left, p.r, p.z) /\ IsBelow(w.right, p.r, p.z)
       ELSE IsBelow(w.left, p.r, p.z) /\ IsAbove(w.right, p.r, p.z)

----------------------------------------------------------------------------
SplitInit ==
    /\ splitPc = "Called" /\ points = <<>> /\ polar = <<>> /\ region = 0
    /\ items = <<>> /\ lcount = 0 /\ rinvFragment = <<>> /\ phiFragment = <<>>

\* fill, and the first kernel is submitted.
FillAndConvert ==
    /\ splitPc = "Called" /\ splitPc' = "Converting"
    /\ points' \in SplitterData
    /\ polar' = [i \in DOMAIN points' |-> Unset]
    /\ items' = [it \in WorkItemIds(ConvertItems) |-> it]
    /\ UNCHANGED <<region, lcount, rinvFragment, phiFragment>>

\* One turn of a work item's loop over its part of the points.
Convert(it) ==
    /\ splitPc = "Converting" /\ items[it] < Len(points)
    /\ polar' = [polar EXCEPT ![items[it] + 1] = [r |-> points[items[it] + 1].r,
                                                  phi |-> points[items[it] + 1].phi]]
    /\ items' = [items EXCEPT ![it] = @ + ConvertItems]
    /\ UNCHANGED <<splitPc, points, region, lcount, rinvFragment, phiFragment>>

\* wait() returns and the second kernel starts.
StartGroup ==
    /\ splitPc = "Converting" /\ \A it \in DOMAIN items : items[it] >= Len(points)
    /\ splitPc' = "Splitting"
    /\ region' \in 0 .. totSplit - 1
    /\ items' = [it \in WorkItemIds(WorkItems) |-> [i |-> it, at |-> "test", slot |-> 0]]
    /\ lcount' = 0
    /\ UNCHANGED <<points, polar, rinvFragment, phiFragment>>

Advances(it) == items' = [items EXCEPT ![it].i = @ + WorkItems, ![it].at = "test"]
Goes(it, place) == items' = [items EXCEPT ![it].at = place]
Reads(it, place) == items' = [items EXCEPT ![it].at = place, ![it].slot = lcount]

\* The polar coordinates are what the kernel reads; z is as filled.
Test(it) ==
    /\ items[it].at = "test" /\ items[it].i < Len(points)
    /\ LET i == items[it].i + 1
       IN  IF inRegion(setup(region), [r |-> polar[i].r, phi |-> polar[i].phi, z |-> points[i].z])
           THEN Goes(it, "rinv") ELSE Advances(it)
    /\ UNCHANGED <<lcount, rinvFragment, phiFragment>>

ReadForRinv(it) ==
    /\ items[it].at = "rinv" /\ Reads(it, "writeRinv")
    /\ UNCHANGED <<lcount, rinvFragment, phiFragment>>

\* A local array is a function of the places that were written.
Written(fragment, it) ==
    [k \in DOMAIN fragment \cup {items[it].slot} |->
        IF k = items[it].slot THEN items[it].i + 1 ELSE fragment[k]]

WriteRinv(it) ==
    /\ items[it].at = "writeRinv" /\ Goes(it, "phi")
    /\ rinvFragment' = Written(rinvFragment, it)
    /\ UNCHANGED <<lcount, phiFragment>>

ReadForPhi(it) ==
    /\ items[it].at = "phi" /\ Reads(it, "writePhi")
    /\ UNCHANGED <<lcount, rinvFragment, phiFragment>>

WritePhi(it) ==
    /\ items[it].at = "writePhi" /\ Goes(it, "count")
    /\ phiFragment' = Written(phiFragment, it)
    /\ UNCHANGED <<lcount, rinvFragment>>

\* Mutant: the counter is incremented by a read and a write, as a plain int is.
IncrementPlain(it) ==
    /\ items[it].at = "count" /\ Advances(it)
    /\ lcount' = items[it].slot + 1
    /\ UNCHANGED <<rinvFragment, phiFragment>>

Increment(it) ==
    /\ items[it].at = "count" /\ Advances(it)
    /\ lcount' = lcount + 1
    /\ UNCHANGED <<rinvFragment, phiFragment>>

WorkItem(it) ==
    /\ splitPc = "Splitting"
    /\ \/ Test(it) \/ ReadForRinv(it) \/ WriteRinv(it)
       \/ ReadForPhi(it) \/ WritePhi(it) \/ Increment(it)
    /\ UNCHANGED <<splitPc, points, polar, region>>

GroupDone ==
    /\ splitPc = "Splitting"
    /\ \A it \in DOMAIN items : items[it].at = "test" /\ items[it].i >= Len(points)
    /\ splitPc' = "Split"
    /\ UNCHANGED <<points, polar, region, items, lcount, rinvFragment, phiFragment>>

SplitEnded == splitPc = "Split"

SplitNext ==
    \/ FillAndConvert
    \/ \E it \in WorkItemIds(ConvertItems) : Convert(it)
    \/ StartGroup
    \/ \E it \in WorkItemIds(WorkItems) : WorkItem(it)
    \/ GroupDone

SplitSpec == SplitInit /\ [][SplitNext]_splitVars

----------------------------------------------------------------------------
PointsOfRegion == {i \in DOMAIN points : inRegion(setup(region), points[i])}

\* Whatever the interleaving of the work items, the first kernel converts every
\* point and the second counts each point of its region once.
CountsItsPoints ==
    /\ splitPc \in {"Splitting", "Split"} => \A i \in DOMAIN polar : polar[i] # Unset
    /\ splitPc = "Split" => lcount = Cardinality(PointsOfRegion)

\* Only points of the region are copied, and the places written stay below their
\* number: the arrays of maxlocal places, whose bound is not checked, suffice
\* while no region has more points.  (That every point gets a place does not
\* hold: two work items may read the same count.)
FragmentsWithinCount ==
    \A fragment \in {rinvFragment, phiFragment} : \A k \in DOMAIN fragment :
        /\ fragment[k] \in PointsOfRegion
        /\ k < Cardinality(PointsOfRegion)

\* So a region's arrays hold only its points, and no more places than it has points.
SplitsRegion == CountsItsPoints /\ FragmentsWithinCount

=============================================================================
