------------------------- MODULE DeviceParts_proofs -------------------------
(***************************************************************************)
(* What holds of the experiments with work items that run in any order:    *)
(* the two kernels of the splitter, the test of data transfers, and the    *)
(* two ways of filling an accumulator.  Each has its own specification,    *)
(* invariant and theorem; they share no state.                             *)
(***************************************************************************)
EXTENDS Splitter, GpuDataTransfer, HoughAccumulators, SequenceTheorems, FiniteSetTheorems, TLAPS

-----------------------------------------------------------------------------
(* Splitter: what the work items have done is a function of where they are, and of how
   far each is through its five steps.  *)

\* Of a set of points the ones that work items which take every w-th have passed.
Reached(set, w, next) == {j \in set : j - 1 < next[(j - 1) % w]}

\* Remainders of the numbers of points.
LEMMA ModFacts ==
    ASSUME NEW w \in Nat \ {0}
    PROVE  /\ \A n \in Nat : n % w \in 0 .. w - 1 /\ n % w <= n /\ (n + w) % w = n % w
           /\ \A n \in 0 .. w - 1 : n % w = n
<1>1. ASSUME NEW n \in Nat
      PROVE  /\ n = w * (n \div w) + (n % w) /\ n % w \in 0 .. w - 1
             /\ n \div w \in Nat
    BY Z3
<1>2. ASSUME NEW n \in Nat PROVE n % w <= n
    <2>1. w * (n \div w) >= 0
        BY <1>1, Z3
    <2> QED BY <1>1, <2>1, Z3
<1>3. ASSUME NEW n \in Nat PROVE (n + w) % w = n % w
    <2> DEFINE q == n \div w  r == n % w  p == (n + w) \div w  t == (n + w) % w
    <2>1. n = w * q + r /\ r \in 0 .. w - 1 /\ q \in Nat
        BY <1>1
    <2>2. n + w = w * p + t /\ t \in 0 .. w - 1 /\ p \in Nat
        BY <1>1
    <2> HIDE DEF q, r, p, t
    <2>3. w * (p - q) = w + r - t
        BY <2>1, <2>2, Z3
    <2>4. p - q > 0
        BY <2>1, <2>2, <2>3, Z3
    <2>5. p - q < 2
        BY <2>1, <2>2, <2>3, Z3
    <2>6. p - q = 1
        BY <2>1, <2>2, <2>4, <2>5
    <2> QED BY <2>1, <2>2, <2>3, <2>6 DEF t, r
<1>4. ASSUME NEW n \in 0 .. w - 1 PROVE n % w = n
    BY Z3
<1> QED BY <1>1, <1>2, <1>3, <1>4

\* Two places of one work item less than a turn apart are one.
LEMMA SamePlace ==
    ASSUME NEW w \in Nat \ {0}, NEW a \in Nat, NEW b \in Nat,
           a % w = b % w, b <= a, a < b + w
    PROVE  a = b
<1>1. a = w * (a \div w) + (a % w) /\ b = w * (b \div w) + (b % w)
    BY Z3
<1>2. a \div w \in Int /\ b \div w \in Int
    BY Z3
<1>3. w * ((a \div w) - (b \div w)) = a - b
    BY <1>1, <1>2, Z3
<1>4. (a \div w) - (b \div w) < 1
    BY <1>2, <1>3, Z3
<1>5. (a \div w) - (b \div w) > -1
    BY <1>2, <1>3, Z3
<1>6. a \div w = b \div w
    BY <1>2, <1>4, <1>5
<1> QED BY <1>1, <1>6

\* A work item goes to its next point.
Strides(w, set, f, g, it) ==
    /\ w \in Nat \ {0} /\ set \in SUBSET (Nat \ {0})
    /\ f \in [0 .. w - 1 -> Nat] /\ g \in [0 .. w - 1 -> Nat] /\ it \in 0 .. w - 1
    /\ f[it] % w = it /\ g[it] = f[it] + w
    /\ \A k \in 0 .. w - 1 : k # it => g[k] = f[k]

\* It adds that point to the ones passed.
LEMMA StrideStep ==
    ASSUME NEW w, NEW set, NEW f, NEW g, NEW it, Strides(w, set, f, g, it)
    PROVE  /\ f[it] + 1 \notin Reached(set, w, f)
           /\ Reached(set, w, g) = Reached(set, w, f) \cup (set \cap {f[it] + 1})
           /\ g[it] % w = it
<1>0. /\ w \in Nat \ {0} /\ set \in SUBSET (Nat \ {0})
      /\ f \in [0 .. w - 1 -> Nat] /\ g \in [0 .. w - 1 -> Nat] /\ it \in 0 .. w - 1
      /\ f[it] % w = it
    BY DEF Strides
<1>1. g[it] = f[it] + w /\ \A k \in 0 .. w - 1 : k # it => g[k] = f[k]
    BY DEF Strides
<1>2. g[it] % w = it /\ f[it] \in Nat
    BY <1>0, <1>1, ModFacts
<1>3. f[it] + 1 \notin Reached(set, w, f)
    BY <1>0, <1>2 DEF Reached
<1>4. ASSUME NEW j \in set
      PROVE  j \in Reached(set, w, g) <=> j \in Reached(set, w, f) \/ j = f[it] + 1
    <2> DEFINE m == (j - 1) % w
    <2>1. j \in Nat \ {0} /\ j - 1 \in Nat
        BY <1>0
    <2>2. m \in 0 .. w - 1
        BY <1>0, <2>1, ModFacts
    <2>3. /\ j \in Reached(set, w, f) <=> j - 1 < f[m]
          /\ j \in Reached(set, w, g) <=> j - 1 < g[m]
        BY DEF Reached
    <2>4. m = f[it] % w => (j - 1 < f[it] + w <=> j - 1 < f[it] \/ j - 1 = f[it])
        <3> SUFFICES ASSUME m = f[it] % w
                     PROVE  j - 1 < f[it] + w <=> j - 1 < f[it] \/ j - 1 = f[it]
            OBVIOUS
        <3> DEFINE a == j - 1  b == f[it]
        <3>1. a \in Nat /\ b \in Nat
            BY <1>2, <2>1
        <3>2. b <= a /\ a < b + w => a = b
            BY <1>0, <3>1, SamePlace
        <3> HIDE DEF a, b
        <3>3. a < b + w <=> a < b \/ a = b
            BY <1>0, <3>1, <3>2
        <3> QED BY <3>3 DEF a, b
    <2>5. j = f[it] + 1 => m = it
        BY <1>0, <1>2, <2>1
    <2> HIDE DEF m
    <2>6. CASE m # it
        BY <1>0, <1>1, <2>2, <2>3, <2>5, <2>6
    <2>7. CASE m = it
        BY <1>0, <1>1, <1>2, <2>1, <2>3, <2>4, <2>7
    <2> QED BY <2>6, <2>7
<1>5. Reached(set, w, g) \subseteq set /\ Reached(set, w, f) \subseteq set
    BY DEF Reached
<1> QED BY <1>0, <1>1, <1>2, <1>3, <1>4, <1>5

\* Work items start at their own numbers, and have passed nothing.
LEMMA StrideStart ==
    ASSUME NEW w \in Nat \ {0}, NEW set \in SUBSET (Nat \ {0})
    PROVE  Reached(set, w, [it \in 0 .. w - 1 |-> it]) = {}
<1> SUFFICES ASSUME NEW j \in set, j \in Reached(set, w, [it \in 0 .. w - 1 |-> it])
             PROVE  FALSE
    BY DEF Reached
<1> DEFINE m == (j - 1) % w
<1>1. j \in Nat \ {0} /\ j - 1 \in Nat
    OBVIOUS
<1>2. m \in 0 .. w - 1 /\ m <= j - 1
    BY <1>1, ModFacts
<1>3. j - 1 < [it \in 0 .. w - 1 |-> it][m]
    BY DEF Reached
<1> HIDE DEF m
<1> QED BY <1>1, <1>2, <1>3

\* Once all are past the end they have passed everything.
LEMMA StrideEnd ==
    ASSUME NEW w \in Nat \ {0}, NEW n \in Nat, NEW set \in SUBSET (1 .. n),
           NEW f \in [0 .. w - 1 -> Nat], \A it \in 0 .. w - 1 : f[it] >= n
    PROVE  Reached(set, w, f) = set
<1>1. ASSUME NEW j \in set PROVE j - 1 < f[(j - 1) % w]
    <2> DEFINE m == (j - 1) % w
    <2>1. j \in 1 .. n /\ j - 1 \in Nat
        OBVIOUS
    <2>2. m \in 0 .. w - 1
        BY <2>1, ModFacts
    <2> HIDE DEF m
    <2>3. f[m] >= n /\ f[m] \in Nat
        BY <2>2
    <2>4. j - 1 < f[m]
        BY <2>1, <2>3
    <2> QED BY <2>4 DEF m
<1> QED BY <1>1 DEF Reached

Points == [r : Int, phi : Int, z : Int]
Steps == {"test", "rinv", "writeRinv", "phi", "writePhi", "count"}

\* Where the work items of the second kernel are.
NextPoints == [it \in WorkItemIds(WorkItems) |-> items[it].i]

SplitTypeOK ==
    /\ splitPc \in {"Called", "Converting", "Splitting", "Split"}
    /\ points \in Seq(Points)
    /\ DOMAIN polar = DOMAIN points
    /\ splitPc = "Converting" => items \in [WorkItemIds(ConvertItems) -> Nat]
    /\ splitPc \in {"Splitting", "Split"} =>
           items \in [WorkItemIds(WorkItems) -> [i : Nat, at : Steps, slot : Nat]]

\* Every point a work item of the first kernel has passed is converted.
ConvertsInStep ==
    splitPc = "Converting" =>
        /\ \A it \in WorkItemIds(ConvertItems) : items[it] % ConvertItems = it
        /\ \A j \in Reached(DOMAIN points, ConvertItems, items) : polar[j] # Unset

ConvertedRight ==
    /\ \A j \in DOMAIN points : polar[j] # Unset =>
           polar[j] = [r |-> points[j].r, phi |-> points[j].phi]
    /\ splitPc \in {"Splitting", "Split"} => \A j \in DOMAIN points : polar[j] # Unset

\* The counter is the number of points of the region that have been passed, and a work
\* item between its test and its increment is at one that is not counted yet.
CountsInStep ==
    splitPc \in {"Splitting", "Split"} =>
        /\ \A it \in WorkItemIds(WorkItems) :
               /\ items[it].i % WorkItems = it
               /\ items[it].at # "test" => items[it].i + 1 \in PointsOfRegion
               /\ items[it].at \in {"writeRinv", "writePhi"} =>
                      items[it].slot < Cardinality(PointsOfRegion)
        /\ lcount = Cardinality(Reached(PointsOfRegion, WorkItems, NextPoints))
        /\ splitPc = "Split" => lcount = Cardinality(PointsOfRegion)

NothingCopiedYet ==
    splitPc \in {"Called", "Converting"} => rinvFragment = <<>> /\ phiFragment = <<>>

SplitInv ==
    /\ SplitTypeOK /\ ConvertsInStep /\ ConvertedRight /\ CountsInStep
    /\ NothingCopiedYet /\ FragmentsWithinCount

\* A region has finitely many points.
LEMMA RegionFinite ==
    ASSUME points \in Seq(Points)
    PROVE  /\ PointsOfRegion \in SUBSET (1 .. Len(points))
           /\ PointsOfRegion \in SUBSET (Nat \ {0})
           /\ Len(points) \in Nat
           /\ IsFiniteSet(PointsOfRegion) /\ Cardinality(PointsOfRegion) \in Nat
<1>1. Len(points) \in Nat /\ DOMAIN points = 1 .. Len(points)
    OBVIOUS
<1>2. PointsOfRegion \in SUBSET (1 .. Len(points))
    BY <1>1 DEF PointsOfRegion
<1>3. IsFiniteSet(1 .. Len(points))
    BY <1>1, FS_Interval
<1>4. IsFiniteSet(PointsOfRegion)
    BY <1>2, <1>3, FS_Subset
<1> QED BY <1>1, <1>2, <1>4, FS_CardinalityType

\* The invariant holds before the kernels are called.
LEMMA SplitInitInv == SplitInit => SplitInv
<1> SUFFICES ASSUME SplitInit PROVE SplitInv
    OBVIOUS
<1>1. SplitTypeOK
    BY DEF SplitInit, SplitTypeOK
<1>2. FragmentsWithinCount
    BY DEF SplitInit, FragmentsWithinCount
<1> QED BY <1>1, <1>2 DEF SplitInit, SplitInv, ConvertsInStep, ConvertedRight, CountsInStep, NothingCopiedYet

\* Work items are numbered from 0.
LEMMA ItemNumbers ==
    /\ ConvertItems \in Nat \ {0} /\ WorkItems \in Nat \ {0}
    /\ WorkItemIds(ConvertItems) = 0 .. ConvertItems - 1
    /\ WorkItemIds(WorkItems) = 0 .. WorkItems - 1
BY SplitterAssumption DEF WorkItemIds

\* Filling the buffers keeps it,
LEMMA FillKeeps ==
    ASSUME SplitInv, FillAndConvert
    PROVE  SplitInv'
<1>1. /\ SplitTypeOK /\ NothingCopiedYet
      /\ splitPc = "Called" /\ splitPc' = "Converting"
      /\ points' \in SplitterData
      /\ polar' = [i \in DOMAIN points' |-> Unset]
      /\ items' = [it \in WorkItemIds(ConvertItems) |-> it]
      /\ rinvFragment' = rinvFragment /\ phiFragment' = phiFragment
    BY DEF SplitInv, FillAndConvert
<1>2. points' \in Seq(Points)
    BY <1>1, SplitterAssumption DEF Points
<1>3. SplitTypeOK'
    BY <1>1, <1>2, ItemNumbers DEF SplitTypeOK
<1>4. DOMAIN points' \in SUBSET (Nat \ {0})
    BY <1>2
<1>5. Reached(DOMAIN points', ConvertItems, items') = {}
    BY <1>1, <1>4, ItemNumbers, StrideStart
<1>6. \A it \in WorkItemIds(ConvertItems) : items'[it] % ConvertItems = it
    BY <1>1, ItemNumbers, ModFacts
<1>7. ConvertsInStep'
    BY <1>1, <1>5, <1>6 DEF ConvertsInStep
<1>8. rinvFragment' = <<>> /\ phiFragment' = <<>>
    BY <1>1 DEF NothingCopiedYet
<1>9. FragmentsWithinCount'
    BY <1>8 DEF FragmentsWithinCount
<1> QED BY <1>1, <1>3, <1>7, <1>8, <1>9 DEF SplitInv, ConvertedRight, CountsInStep, NothingCopiedYet

\* so does a turn of the loop of the first kernel,
LEMMA ConvertKeeps ==
    ASSUME SplitInv, NEW it \in WorkItemIds(ConvertItems), Convert(it)
    PROVE  SplitInv'
<1> DEFINE p == items[it] + 1
<1>1. /\ SplitTypeOK /\ ConvertsInStep /\ ConvertedRight /\ NothingCopiedYet
      /\ splitPc = "Converting" /\ splitPc' = splitPc /\ points' = points
      /\ items[it] < Len(points)
      /\ polar' = [polar EXCEPT ![p] = [r |-> points[p].r, phi |-> points[p].phi]]
      /\ items' = [items EXCEPT ![it] = items[it] + ConvertItems]
      /\ rinvFragment' = rinvFragment /\ phiFragment' = phiFragment
    BY DEF SplitInv, Convert
<1>2. /\ items \in [0 .. ConvertItems - 1 -> Nat] /\ points \in Seq(Points)
      /\ it \in 0 .. ConvertItems - 1 /\ ConvertItems \in Nat \ {0}
      /\ items[it] % ConvertItems = it /\ items[it] \in Nat
      /\ DOMAIN points = 1 .. Len(points) /\ Len(points) \in Nat
      /\ DOMAIN polar = DOMAIN points
    <2>1. items \in [0 .. ConvertItems - 1 -> Nat]
        BY <1>1, ItemNumbers DEF SplitTypeOK
    <2>2. it \in 0 .. ConvertItems - 1 /\ items[it] % ConvertItems = it
        BY <1>1, ItemNumbers DEF ConvertsInStep
    <2>3. /\ points \in Seq(Points) /\ DOMAIN points = 1 .. Len(points) /\ Len(points) \in Nat
          /\ DOMAIN polar = DOMAIN points
        BY DEF SplitInv, SplitTypeOK
    <2> QED BY <2>1, <2>2, <2>3, ItemNumbers
<1>3. p \in DOMAIN points /\ points[p] \in Points
    BY <1>1, <1>2
<1>4. DOMAIN points \in SUBSET (Nat \ {0})
    BY <1>2
<1>5. /\ Reached(DOMAIN points, ConvertItems, items')
            = Reached(DOMAIN points, ConvertItems, items) \cup (DOMAIN points \cap {items[it] + 1})
      /\ items' \in [0 .. ConvertItems - 1 -> Nat]
      /\ items'[it] % ConvertItems = it
    <2>1. /\ ConvertItems \in Nat \ {0} /\ items \in [0 .. ConvertItems - 1 -> Nat]
          /\ it \in 0 .. ConvertItems - 1 /\ items[it] % ConvertItems = it
          /\ items' \in [0 .. ConvertItems - 1 -> Nat]
          /\ items'[it] = items[it] + ConvertItems
          /\ \A k \in 0 .. ConvertItems - 1 : k # it => items'[k] = items[k]
        BY <1>1, <1>2
    <2>2. Strides(ConvertItems, DOMAIN points, items, items', it)
        BY <1>4, <2>1 DEF Strides
    <2> QED BY <2>1, <2>2, StrideStep
<1> HIDE DEF p
<1>6. [r |-> points[p].r, phi |-> points[p].phi] # Unset
    BY <1>3, SplitterAssumption DEF Points
<1>7. /\ polar'[p] = [r |-> points[p].r, phi |-> points[p].phi]
      /\ \A j \in DOMAIN points : j # p => polar'[j] = polar[j]
      /\ DOMAIN polar' = DOMAIN points
    BY <1>1, <1>2, <1>3
<1>8. \A j \in Reached(DOMAIN points, ConvertItems, items') : polar'[j] # Unset
    <2>1. ASSUME NEW j \in Reached(DOMAIN points, ConvertItems, items') PROVE polar'[j] # Unset
        <3>1. j \in Reached(DOMAIN points, ConvertItems, items) \/ j = p
            BY <1>5 DEF p
        <3>2. j \in DOMAIN points
            BY DEF Reached
        <3> QED BY <1>1, <1>6, <1>7, <3>1, <3>2 DEF ConvertsInStep
    <2> QED BY <2>1
<1>9. \A k \in 0 .. ConvertItems - 1 : items'[k] % ConvertItems = k
    <2>1. \A k \in 0 .. ConvertItems - 1 : k # it => items'[k] = items[k] /\ items[k] % ConvertItems = k
        BY <1>1, <1>2, ItemNumbers DEF ConvertsInStep
    <2> QED BY <1>5, <2>1
<1>10. SplitTypeOK'
    BY <1>1, <1>2, <1>5, <1>7, ItemNumbers DEF SplitTypeOK
<1>11. ConvertsInStep'
    BY <1>1, <1>8, <1>9, ItemNumbers DEF ConvertsInStep
<1>12. ConvertedRight'
    BY <1>1, <1>7 DEF ConvertedRight
<1>13. NothingCopiedYet' /\ FragmentsWithinCount'
    BY <1>1 DEF NothingCopiedYet, FragmentsWithinCount
<1> QED BY <1>1, <1>10, <1>11, <1>12, <1>13 DEF SplitInv, CountsInStep

\* and the start of the second.
LEMMA StartGroupKeeps ==
    ASSUME SplitInv, StartGroup
    PROVE  SplitInv'
<1>1. /\ SplitTypeOK /\ ConvertsInStep /\ ConvertedRight /\ NothingCopiedYet
      /\ splitPc = "Converting" /\ splitPc' = "Splitting" /\ points' = points /\ polar' = polar
      /\ \A it \in DOMAIN items : items[it] >= Len(points)
      /\ items' = [it \in WorkItemIds(WorkItems) |-> [i |-> it, at |-> "test", slot |-> 0]]
      /\ lcount' = 0
      /\ rinvFragment' = rinvFragment /\ phiFragment' = phiFragment
    BY DEF SplitInv, StartGroup
<1>2. /\ items \in [0 .. ConvertItems - 1 -> Nat] /\ points \in Seq(Points)
      /\ ConvertItems \in Nat \ {0}
      /\ DOMAIN points = 1 .. Len(points) /\ Len(points) \in Nat
    BY <1>1, ItemNumbers DEF SplitTypeOK
<1>3. Reached(DOMAIN points, ConvertItems, items) = DOMAIN points
    BY <1>1, <1>2, StrideEnd
<1>4. ConvertedRight'
    BY <1>1, <1>3 DEF ConvertedRight, ConvertsInStep
<1>5. SplitTypeOK'
    BY <1>1, ItemNumbers DEF SplitTypeOK, Steps
<1>6. NextPoints' = [it \in 0 .. WorkItems - 1 |-> it]
    BY <1>1, ItemNumbers DEF NextPoints
<1>7. PointsOfRegion' \in SUBSET (Nat \ {0})
    BY <1>1, <1>2 DEF PointsOfRegion
<1>8. Reached(PointsOfRegion', WorkItems, NextPoints') = {}
    BY <1>6, <1>7, ItemNumbers, StrideStart
<1>9. CountsInStep'
    <2>1. \A it \in WorkItemIds(WorkItems) : items'[it].i % WorkItems = it /\ items'[it].at = "test"
        BY <1>1, ItemNumbers, ModFacts
    <2> QED BY <1>1, <1>8, <2>1, FS_EmptySet DEF CountsInStep
<1>10. FragmentsWithinCount'
    BY <1>1 DEF NothingCopiedYet, FragmentsWithinCount
<1> QED BY <1>1, <1>4, <1>5, <1>9, <1>10 DEF SplitInv, ConvertsInStep, NothingCopiedYet

\* What the invariant says of a work item of the second kernel.
LEMMA WorkItemFacts ==
    ASSUME SplitInv, splitPc = "Splitting", NEW it \in WorkItemIds(WorkItems)
    PROVE  /\ it \in 0 .. WorkItems - 1 /\ WorkItems \in Nat \ {0}
           /\ items \in [0 .. WorkItems - 1 -> [i : Nat, at : Steps, slot : Nat]]
           /\ NextPoints \in [0 .. WorkItems - 1 -> Nat]
           /\ \A k \in 0 .. WorkItems - 1 : NextPoints[k] = items[k].i
           /\ items[it] \in [i : Nat, at : Steps, slot : Nat]
           /\ items[it].i % WorkItems = it
           /\ lcount = Cardinality(Reached(PointsOfRegion, WorkItems, NextPoints))
           /\ points \in Seq(Points)
           /\ PointsOfRegion \in SUBSET (Nat \ {0}) /\ IsFiniteSet(PointsOfRegion)
           /\ Cardinality(PointsOfRegion) \in Nat
<1>1. SplitTypeOK /\ CountsInStep
    BY DEF SplitInv
<1>2. /\ it \in 0 .. WorkItems - 1 /\ WorkItems \in Nat \ {0}
      /\ items \in [0 .. WorkItems - 1 -> [i : Nat, at : Steps, slot : Nat]]
      /\ points \in Seq(Points)
    BY <1>1, ItemNumbers DEF SplitTypeOK
<1>3. /\ NextPoints \in [0 .. WorkItems - 1 -> Nat]
      /\ \A k \in 0 .. WorkItems - 1 : NextPoints[k] = items[k].i
    BY <1>2, ItemNumbers DEF NextPoints
<1>4. /\ items[it].i % WorkItems = it
      /\ lcount = Cardinality(Reached(PointsOfRegion, WorkItems, NextPoints))
    BY <1>1 DEF CountsInStep
<1> QED BY <1>2, <1>3, <1>4, RegionFinite

\* A work item that goes on to a place, or reads the counter on its way, keeps its point.
LEMMA GoesFacts ==
    ASSUME NEW it \in 0 .. WorkItems - 1, NEW place \in Steps, Goes(it, place),
           items \in [0 .. WorkItems - 1 -> [i : Nat, at : Steps, slot : Nat]]
    PROVE  /\ items' \in [0 .. WorkItems - 1 -> [i : Nat, at : Steps, slot : Nat]]
           /\ items'[it].i = items[it].i /\ items'[it].at = place
           /\ items'[it].slot = items[it].slot
           /\ \A k \in 0 .. WorkItems - 1 : k # it => items'[k] = items[k]
<1> DEFINE S == 0 .. WorkItems - 1  f == items  P == Steps
<1>1. f \in [S -> [i : Nat, at : P, slot : Nat]] /\ it \in S /\ place \in P
    OBVIOUS
<1>2. items' = [f EXCEPT ![it].at = place]
    BY DEF Goes
<1> HIDE DEF S, f, P
<1>3. items' \in [S -> [i : Nat, at : P, slot : Nat]]
    BY ONLY <1>1, <1>2
<1>4. /\ items'[it].i = f[it].i /\ items'[it].at = place /\ items'[it].slot = f[it].slot
      /\ \A k \in S : k # it => items'[k] = f[k]
    BY ONLY <1>1, <1>2
<1> QED BY <1>3, <1>4 DEF S, f, P

\* Reading the counter leaves everything but the place read.
LEMMA ReadsFacts ==
    ASSUME NEW it \in 0 .. WorkItems - 1, NEW place \in Steps, Reads(it, place), lcount \in Nat,
           items \in [0 .. WorkItems - 1 -> [i : Nat, at : Steps, slot : Nat]]
    PROVE  /\ items' \in [0 .. WorkItems - 1 -> [i : Nat, at : Steps, slot : Nat]]
           /\ items'[it].i = items[it].i /\ items'[it].at = place
           /\ items'[it].slot = lcount
           /\ \A k \in 0 .. WorkItems - 1 : k # it => items'[k] = items[k]
<1> DEFINE S == 0 .. WorkItems - 1  f == items  P == Steps  n == lcount
<1>1. f \in [S -> [i : Nat, at : P, slot : Nat]] /\ it \in S /\ place \in P /\ n \in Nat
    OBVIOUS
<1>2. items' = [f EXCEPT ![it].at = place, ![it].slot = n]
    BY DEF Reads
<1> HIDE DEF S, f, P, n
<1>3. items' \in [S -> [i : Nat, at : P, slot : Nat]]
    BY ONLY <1>1, <1>2
<1>4. /\ items'[it].i = f[it].i /\ items'[it].at = place /\ items'[it].slot = n
      /\ \A k \in S : k # it => items'[k] = f[k]
    BY ONLY <1>1, <1>2
<1> QED BY <1>3, <1>4 DEF S, f, P, n

\* A step between a work item's test and its increment stays at its point.
LEMMA StaysKeeps ==
    ASSUME SplitInv, splitPc = "Splitting", NEW it \in WorkItemIds(WorkItems),
           splitPc' = splitPc, points' = points, polar' = polar, region' = region, lcount' = lcount,
           items' \in [WorkItemIds(WorkItems) -> [i : Nat, at : Steps, slot : Nat]],
           items'[it].i = items[it].i, items'[it].i + 1 \in PointsOfRegion,
           items'[it].at \in {"writeRinv", "writePhi"} =>
               items'[it].slot < Cardinality(PointsOfRegion),
           \A k \in WorkItemIds(WorkItems) : k # it => items'[k] = items[k],
           FragmentsWithinCount'
    PROVE  SplitInv'
<1>1. SplitTypeOK /\ ConvertedRight /\ CountsInStep
    BY DEF SplitInv
<1>2. SplitTypeOK'
    BY <1>1 DEF SplitTypeOK
<1>3. ConvertedRight'
    BY <1>1 DEF ConvertedRight
<1>4. NextPoints' = NextPoints
    <2>1. \A k \in WorkItemIds(WorkItems) : items'[k].i = items[k].i
        OBVIOUS
    <2> QED BY <2>1 DEF NextPoints
<1>5. PointsOfRegion' = PointsOfRegion
    BY DEF PointsOfRegion
<1>6. CountsInStep'
    <2>1. Cardinality(Reached(PointsOfRegion', WorkItems, NextPoints')) = lcount
        BY <1>1, <1>4, <1>5 DEF CountsInStep
    <2>2. \A k \in WorkItemIds(WorkItems) :
              /\ items'[k].i % WorkItems = k
              /\ items'[k].at # "test" => items'[k].i + 1 \in PointsOfRegion
              /\ items'[k].at \in {"writeRinv", "writePhi"} =>
                     items'[k].slot < Cardinality(PointsOfRegion)
        BY <1>1 DEF CountsInStep
    <2> QED BY <1>5, <2>1, <2>2 DEF CountsInStep
<1> QED BY <1>2, <1>3, <1>6 DEF SplitInv, ConvertsInStep, NothingCopiedYet

\* A work item goes to its next point, and the counter counts the one it leaves if that
\* is of the region.
LEMMA AdvanceKeeps ==
    ASSUME SplitInv, splitPc = "Splitting", NEW it \in WorkItemIds(WorkItems), Advances(it),
           splitPc' = splitPc, points' = points, polar' = polar, region' = region,
           rinvFragment' = rinvFragment, phiFragment' = phiFragment,
           \/ items[it].i + 1 \in PointsOfRegion /\ lcount' = lcount + 1
           \/ items[it].i + 1 \notin PointsOfRegion /\ lcount' = lcount
    PROVE  SplitInv'
<1> DEFINE p == items[it].i + 1
           Reach == Reached(PointsOfRegion, WorkItems, NextPoints)
<1>1. SplitTypeOK /\ ConvertedRight /\ CountsInStep /\ FragmentsWithinCount
    BY DEF SplitInv
<1>2. /\ items' \in [0 .. WorkItems - 1 -> [i : Nat, at : Steps, slot : Nat]]
      /\ items'[it].i = items[it].i + WorkItems /\ items'[it].at = "test"
      /\ \A k \in 0 .. WorkItems - 1 : k # it => items'[k] = items[k]
    <2>1. \A k \in 0 .. WorkItems - 1 : k # it => items'[k] = items[k]
        BY WorkItemFacts DEF Advances
    <2>2. items'[it].i = items[it].i + WorkItems /\ items'[it].at = "test"
        BY WorkItemFacts DEF Advances
    <2>3. items' \in [0 .. WorkItems - 1 -> [i : Nat, at : Steps, slot : Nat]]
        <3>1. items' = [items EXCEPT ![it].i = items[it].i + WorkItems, ![it].at = "test"]
            BY WorkItemFacts DEF Advances
        <3>2. items[it].i + WorkItems \in Nat /\ "test" \in Steps
            BY WorkItemFacts DEF Steps
        <3> DEFINE S == 0 .. WorkItems - 1  f == items  n == items[it].i + WorkItems  P == Steps
        <3>3. f \in [S -> [i : Nat, at : P, slot : Nat]] /\ it \in S /\ n \in Nat /\ "test" \in P
            BY <3>2, WorkItemFacts
        <3>4. items' = [f EXCEPT ![it].i = n, ![it].at = "test"]
            BY <3>1
        <3> HIDE DEF S, f, n, P
        <3>5. items' \in [S -> [i : Nat, at : P, slot : Nat]]
            BY ONLY <3>3, <3>4
        <3> QED BY <3>5 DEF S, P
    <2> QED BY <2>1, <2>2, <2>3
<1>3. SplitTypeOK'
    BY <1>1, <1>2, ItemNumbers DEF SplitTypeOK
<1>4. ConvertedRight'
    BY <1>1 DEF ConvertedRight
<1>5. PointsOfRegion' = PointsOfRegion
    BY DEF PointsOfRegion
<1>6. /\ NextPoints' \in [0 .. WorkItems - 1 -> Nat]
      /\ \A k \in 0 .. WorkItems - 1 : NextPoints'[k] = items'[k].i
    BY <1>2, ItemNumbers DEF NextPoints
<1>7. Strides(WorkItems, PointsOfRegion, NextPoints, NextPoints', it)
    <2>1. NextPoints[it] % WorkItems = it /\ NextPoints'[it] = NextPoints[it] + WorkItems
        BY <1>2, <1>6, WorkItemFacts
    <2>2. \A k \in 0 .. WorkItems - 1 : k # it => NextPoints'[k] = NextPoints[k]
        BY <1>2, <1>6, WorkItemFacts
    <2> QED BY <1>6, <2>1, <2>2, WorkItemFacts DEF Strides
<1>8. /\ p \notin Reach
      /\ Reached(PointsOfRegion, WorkItems, NextPoints') = Reach \cup (PointsOfRegion \cap {p})
      /\ NextPoints'[it] % WorkItems = it
    <2>1. NextPoints[it] + 1 = p
        BY WorkItemFacts
    <2> HIDE DEF p
    <2> QED BY <1>7, <2>1, StrideStep
<1>9. IsFiniteSet(Reach) /\ lcount = Cardinality(Reach)
    BY WorkItemFacts, FS_Subset DEF Reached
<1> HIDE DEF Reach
<1>10. lcount' = Cardinality(Reached(PointsOfRegion, WorkItems, NextPoints'))
    <2>1. CASE p \in PointsOfRegion /\ lcount' = lcount + 1
        <3>1. Reached(PointsOfRegion, WorkItems, NextPoints') = Reach \cup {p}
            BY <1>8, <2>1
        <3> QED BY <1>8, <1>9, <2>1, <3>1, FS_AddElement
    <2>2. CASE p \notin PointsOfRegion /\ lcount' = lcount
        <3>1. Reached(PointsOfRegion, WorkItems, NextPoints') = Reach
            BY <1>8, <2>2
        <3> QED BY <1>9, <2>2, <3>1
    <2> QED BY <2>1, <2>2
<1>11. \A k \in WorkItemIds(WorkItems) :
           /\ items'[k].i % WorkItems = k
           /\ items'[k].at # "test" => items'[k].i + 1 \in PointsOfRegion
           /\ items'[k].at \in {"writeRinv", "writePhi"} =>
                  items'[k].slot < Cardinality(PointsOfRegion)
    <2> SUFFICES ASSUME NEW k \in WorkItemIds(WorkItems)
                 PROVE  /\ items'[k].i % WorkItems = k
                        /\ items'[k].at # "test" => items'[k].i + 1 \in PointsOfRegion
                        /\ items'[k].at \in {"writeRinv", "writePhi"} =>
                               items'[k].slot < Cardinality(PointsOfRegion)
        OBVIOUS
    <2>0. k \in 0 .. WorkItems - 1
        BY ItemNumbers
    <2>1. CASE k = it
        <3>1. items'[it].i % WorkItems = it
            BY <1>6, <1>8, WorkItemFacts
        <3> QED BY <1>2, <2>1, <3>1
    <2>2. CASE k # it
        BY <1>1, <1>2, <2>0, <2>2 DEF CountsInStep
    <2> QED BY <2>1, <2>2
<1>12. CountsInStep'
    BY <1>5, <1>10, <1>11 DEF CountsInStep
<1>13. FragmentsWithinCount'
    BY <1>1, <1>5 DEF FragmentsWithinCount
<1> QED BY <1>1, <1>3, <1>4, <1>12, <1>13 DEF SplitInv, ConvertsInStep, NothingCopiedYet

\* What the kernel tests is the point as it was filled.
LEMMA TestKeeps ==
    ASSUME SplitInv, NEW it \in WorkItemIds(WorkItems), WorkItem(it), Test(it)
    PROVE  SplitInv'
<1> DEFINE p == items[it].i + 1
           seen == [r |-> polar[p].r, phi |-> polar[p].phi, z |-> points[p].z]
<1>1. /\ splitPc = "Splitting" /\ splitPc' = splitPc /\ points' = points /\ polar' = polar
      /\ region' = region /\ lcount' = lcount
      /\ rinvFragment' = rinvFragment /\ phiFragment' = phiFragment
      /\ items[it].at = "test" /\ items[it].i < Len(points)
      /\ \/ inRegion(setup(region), seen) /\ Goes(it, "rinv")
         \/ ~ inRegion(setup(region), seen) /\ Advances(it)
    BY DEF WorkItem, Test
<1>2. /\ items[it].i \in Nat /\ points \in Seq(Points)
      /\ DOMAIN points = 1 .. Len(points) /\ Len(points) \in Nat
    <2>1. items[it].i \in Nat
        BY <1>1, WorkItemFacts
    <2>2. points \in Seq(Points)
        BY DEF SplitInv, SplitTypeOK
    <2> QED BY <2>1, <2>2
<1>3. p \in DOMAIN points
    BY <1>1, <1>2
<1>4. points[p] \in Points
    BY <1>2, <1>3
<1> HIDE DEF p
<1>5. seen = points[p]
    <2>1. polar[p] = [r |-> points[p].r, phi |-> points[p].phi]
        BY <1>1, <1>3 DEF SplitInv, ConvertedRight
    <2>2. seen = [r |-> points[p].r, phi |-> points[p].phi, z |-> points[p].z]
        BY <2>1
    <2> QED BY <1>4, <2>2 DEF Points
<1> HIDE DEF seen
<1>6. p \in PointsOfRegion <=> inRegion(setup(region), seen)
    BY <1>3, <1>5 DEF PointsOfRegion
<1>7. CASE ~ inRegion(setup(region), seen) /\ Advances(it)
    BY <1>1, <1>6, <1>7, AdvanceKeeps DEF p
<1>8. CASE inRegion(setup(region), seen) /\ Goes(it, "rinv")
    <2>1. /\ items' \in [WorkItemIds(WorkItems) -> [i : Nat, at : Steps, slot : Nat]]
          /\ items'[it].i = items[it].i /\ items'[it].at = "rinv"
          /\ \A k \in WorkItemIds(WorkItems) : k # it => items'[k] = items[k]
        <3>1. "rinv" \in Steps
            BY DEF Steps
        <3> QED BY <1>1, <1>8, <3>1, GoesFacts, WorkItemFacts, ItemNumbers
    <2>2. items'[it].i + 1 \in PointsOfRegion
        BY <1>6, <1>8, <2>1 DEF p
    <2>3. FragmentsWithinCount'
        BY <1>1 DEF SplitInv, FragmentsWithinCount, PointsOfRegion
    <2> QED BY <1>1, <2>1, <2>2, <2>3, StaysKeeps
<1> QED BY <1>1, <1>7, <1>8

\* While a work item is at a point of the region the counter is below their number.
LEMMA CountBelow ==
    ASSUME SplitInv, splitPc = "Splitting", NEW it \in WorkItemIds(WorkItems),
           items[it].at # "test"
    PROVE  /\ lcount \in Nat /\ lcount < Cardinality(PointsOfRegion)
           /\ items[it].i + 1 \in PointsOfRegion
<1> DEFINE p == items[it].i + 1
           Reach == Reached(PointsOfRegion, WorkItems, NextPoints)
<1>1. p \in PointsOfRegion
    BY DEF SplitInv, CountsInStep
<1>2. p \notin Reach
    <2>1. p - 1 = NextPoints[it] /\ (p - 1) % WorkItems = it /\ NextPoints[it] \in Nat
        BY WorkItemFacts
    <2> HIDE DEF p
    <2> QED BY <2>1 DEF Reached
<1>3. Reach \in SUBSET PointsOfRegion
    BY DEF Reached
<1>4. IsFiniteSet(PointsOfRegion) /\ lcount = Cardinality(Reach)
    BY WorkItemFacts
<1> HIDE DEF p, Reach
<1>5. IsFiniteSet(Reach) /\ Cardinality(Reach) \in Nat
    BY <1>3, <1>4, FS_Subset, FS_CardinalityType
<1>6. Cardinality(Reach \cup {p}) = Cardinality(Reach) + 1
    BY <1>2, <1>5, FS_AddElement
<1>7. Reach \cup {p} \in SUBSET PointsOfRegion
    BY <1>1, <1>3
<1>8. Cardinality(Reach \cup {p}) <= Cardinality(PointsOfRegion)
    BY <1>4, <1>7, FS_Subset
<1> QED BY <1>1, <1>4, <1>5, <1>6, <1>8, WorkItemFacts DEF p

\* A read of the counter, for either array.
LEMMA ReadCounterKeeps ==
    ASSUME SplitInv, NEW it \in WorkItemIds(WorkItems), WorkItem(it),
           ReadForRinv(it) \/ ReadForPhi(it)
    PROVE  SplitInv'
<1>1. /\ splitPc = "Splitting" /\ splitPc' = splitPc /\ points' = points /\ polar' = polar
      /\ region' = region /\ lcount' = lcount
      /\ rinvFragment' = rinvFragment /\ phiFragment' = phiFragment
      /\ items[it].at # "test"
      /\ Reads(it, "writeRinv") \/ Reads(it, "writePhi")
    BY DEF WorkItem, ReadForRinv, ReadForPhi
<1>2. /\ items' \in [WorkItemIds(WorkItems) -> [i : Nat, at : Steps, slot : Nat]]
      /\ items'[it].i = items[it].i /\ items'[it].slot = lcount
      /\ \A k \in WorkItemIds(WorkItems) : k # it => items'[k] = items[k]
    <2>1. "writeRinv" \in Steps /\ "writePhi" \in Steps
        BY DEF Steps
    <2> QED BY <1>1, <2>1, ReadsFacts, WorkItemFacts, CountBelow, ItemNumbers
<1>3. FragmentsWithinCount'
    BY <1>1 DEF SplitInv, FragmentsWithinCount, PointsOfRegion
<1> QED BY <1>1, <1>2, <1>3, CountBelow, StaysKeeps

\* A write goes to the place that was read, and that one was below the number of points.
LEMMA WriteKeeps ==
    ASSUME SplitInv, NEW it \in WorkItemIds(WorkItems), WorkItem(it),
           WriteRinv(it) \/ WritePhi(it)
    PROVE  SplitInv'
<1>1. /\ splitPc = "Splitting" /\ splitPc' = splitPc /\ points' = points /\ polar' = polar
      /\ region' = region /\ lcount' = lcount
      /\ items[it].at \in {"writeRinv", "writePhi"}
      /\ Goes(it, "phi") \/ Goes(it, "count")
      /\ rinvFragment' = Written(rinvFragment, it) \/ rinvFragment' = rinvFragment
      /\ phiFragment' = Written(phiFragment, it) \/ phiFragment' = phiFragment
    BY DEF WorkItem, WriteRinv, WritePhi
<1>2. /\ items' \in [WorkItemIds(WorkItems) -> [i : Nat, at : Steps, slot : Nat]]
      /\ items'[it].i = items[it].i /\ items'[it].at \notin {"writeRinv", "writePhi"}
      /\ \A k \in WorkItemIds(WorkItems) : k # it => items'[k] = items[k]
    <2> SUFFICES ASSUME NEW place \in {"phi", "count"}, Goes(it, place)
                 PROVE  /\ items' \in [WorkItemIds(WorkItems) -> [i : Nat, at : Steps, slot : Nat]]
                        /\ items'[it].i = items[it].i
                        /\ items'[it].at \notin {"writeRinv", "writePhi"}
                        /\ \A k \in WorkItemIds(WorkItems) : k # it => items'[k] = items[k]
        BY <1>1
    <2>1. place \in Steps
        BY DEF Steps
    <2>2. /\ items' \in [0 .. WorkItems - 1 -> [i : Nat, at : Steps, slot : Nat]]
          /\ items'[it].i = items[it].i /\ items'[it].at = place
          /\ \A k \in 0 .. WorkItems - 1 : k # it => items'[k] = items[k]
        BY <1>1, <2>1, GoesFacts, WorkItemFacts
    <2> QED BY <2>2, ItemNumbers
<1>3. /\ items[it].i + 1 \in PointsOfRegion
      /\ items[it].slot < Cardinality(PointsOfRegion)
    BY <1>1 DEF SplitInv, CountsInStep
<1>4. \A fragment :
          (\A k \in DOMAIN fragment : fragment[k] \in PointsOfRegion /\ k < Cardinality(PointsOfRegion))
          => \A k \in DOMAIN Written(fragment, it) :
                 Written(fragment, it)[k] \in PointsOfRegion /\ k < Cardinality(PointsOfRegion)
    BY <1>3 DEF Written
<1>5. PointsOfRegion' = PointsOfRegion
    BY <1>1 DEF PointsOfRegion
<1>6. FragmentsWithinCount'
    BY <1>1, <1>4, <1>5 DEF SplitInv, FragmentsWithinCount
<1> QED BY <1>1, <1>2, <1>3, <1>6, StaysKeeps

\* The increment.
LEMMA IncrementKeeps ==
    ASSUME SplitInv, NEW it \in WorkItemIds(WorkItems), WorkItem(it), Increment(it)
    PROVE  SplitInv'
<1>1. /\ splitPc = "Splitting" /\ splitPc' = splitPc /\ points' = points /\ polar' = polar
      /\ region' = region /\ lcount' = lcount + 1
      /\ rinvFragment' = rinvFragment /\ phiFragment' = phiFragment
      /\ items[it].at # "test" /\ Advances(it)
    BY DEF WorkItem, Increment
<1> QED BY <1>1, CountBelow, AdvanceKeeps

\* The end of the second kernel.
LEMMA GroupDoneKeeps ==
    ASSUME SplitInv, GroupDone
    PROVE  SplitInv'
<1>1. /\ splitPc = "Splitting" /\ splitPc' = "Split"
      /\ \A it \in DOMAIN items : items[it].at = "test" /\ items[it].i >= Len(points)
      /\ points' = points /\ polar' = polar /\ region' = region /\ items' = items
      /\ lcount' = lcount /\ rinvFragment' = rinvFragment /\ phiFragment' = phiFragment
    BY DEF GroupDone
<1>2. SplitTypeOK /\ ConvertedRight /\ CountsInStep /\ FragmentsWithinCount
    BY DEF SplitInv
<1>3. PointsOfRegion' = PointsOfRegion /\ NextPoints' = NextPoints
    BY <1>1 DEF PointsOfRegion, NextPoints
<1>4. /\ PointsOfRegion \in SUBSET (1 .. Len(points)) /\ Len(points) \in Nat
      /\ DOMAIN items = 0 .. WorkItems - 1 /\ WorkItems \in Nat \ {0}
      /\ NextPoints \in [0 .. WorkItems - 1 -> Nat]
      /\ \A k \in 0 .. WorkItems - 1 : NextPoints[k] = items[k].i
    <2>1. points \in Seq(Points) /\ items \in [0 .. WorkItems - 1 -> [i : Nat, at : Steps, slot : Nat]]
        BY <1>1, <1>2, ItemNumbers DEF SplitTypeOK
    <2>2. /\ NextPoints \in [0 .. WorkItems - 1 -> Nat]
          /\ \A k \in 0 .. WorkItems - 1 : NextPoints[k] = items[k].i
        BY <2>1, ItemNumbers DEF NextPoints
    <2> QED BY <2>1, <2>2, RegionFinite, ItemNumbers
<1>5. Reached(PointsOfRegion, WorkItems, NextPoints) = PointsOfRegion
    <2>1. \A it \in 0 .. WorkItems - 1 : NextPoints[it] >= Len(points)
        BY <1>1, <1>4
    <2> QED BY <1>4, <2>1, StrideEnd
<1>6. CountsInStep'
    BY <1>1, <1>2, <1>3, <1>5 DEF CountsInStep
<1>7. SplitTypeOK' /\ ConvertedRight'
    BY <1>1, <1>2 DEF SplitTypeOK, ConvertedRight
<1>8. FragmentsWithinCount'
    BY <1>1, <1>2, <1>3 DEF FragmentsWithinCount
<1> QED BY <1>1, <1>6, <1>7, <1>8 DEF SplitInv, ConvertsInStep, NothingCopiedYet

\* Every step keeps the invariant.
LEMMA SplitNextKeeps == SplitInv /\ [SplitNext]_splitVars => SplitInv'
<1> SUFFICES ASSUME SplitInv, [SplitNext]_splitVars PROVE SplitInv'
    OBVIOUS
<1>1. CASE UNCHANGED splitVars
    BY <1>1 DEF splitVars, SplitInv, SplitTypeOK, ConvertsInStep, ConvertedRight, CountsInStep,
                NothingCopiedYet, FragmentsWithinCount, PointsOfRegion, NextPoints
<1>2. CASE FillAndConvert
    BY <1>2, FillKeeps
<1>3. ASSUME NEW it \in WorkItemIds(ConvertItems), Convert(it) PROVE SplitInv'
    BY <1>3, ConvertKeeps
<1>4. CASE StartGroup
    BY <1>4, StartGroupKeeps
<1>5. ASSUME NEW it \in WorkItemIds(WorkItems), WorkItem(it) PROVE SplitInv'
    <2>1. \/ Test(it) \/ ReadForRinv(it) \/ WriteRinv(it)
          \/ ReadForPhi(it) \/ WritePhi(it) \/ Increment(it)
        BY <1>5 DEF WorkItem
    <2> QED BY <1>5, <2>1, TestKeeps, ReadCounterKeeps, WriteKeeps, IncrementKeeps
<1>6. CASE GroupDone
    BY <1>6, GroupDoneKeeps
<1> QED BY <1>1, <1>2, <1>3, <1>4, <1>5, <1>6 DEF SplitNext

\* The invariant gives the property: by the end of the second kernel the counter is the
\* number of the region's points, and the first kernel has converted every point.
LEMMA SplitInvSplits == SplitInv => SplitsRegion
<1> SUFFICES ASSUME SplitInv PROVE SplitsRegion
    OBVIOUS
<1>1. splitPc \in {"Splitting", "Split"} => \A i \in DOMAIN polar : polar[i] # Unset
    BY DEF SplitInv, SplitTypeOK, ConvertedRight
<1>2. splitPc = "Split" => lcount = Cardinality(PointsOfRegion)
    BY DEF SplitInv, CountsInStep
<1> QED BY <1>1, <1>2 DEF SplitsRegion, CountsItsPoints, SplitInv

\* However the work items of the two kernels interleave, every point is converted before
\* the second kernel reads it, the group's counter ends at the number of points of its
\* region, and the places written stay below that number.
THEOREM AlwaysSplitsRegion == SplitSpec => []SplitsRegion
<1>1. SplitInit => SplitInv
    BY SplitInitInv
<1>2. SplitInv /\ [SplitNext]_splitVars => SplitInv'
    BY SplitNextKeeps
<1>3. SplitInv => SplitsRegion
    BY SplitInvSplits
<1> QED BY <1>1, <1>2, <1>3, PTL DEF SplitSpec

-----------------------------------------------------------------------------
(* GpuDataTransfer: the host is at a place of one of three scripts, and where a script
   reads the clock follows from the script.  *)

Variants == {"sequential", "parallel", "separateQueues"}
CallSet ==
    [name : {"start", "submit", "read", "wait", "waitOwn", "end"}, kernel : Kernels]

\* The calls before place i of a script.
Before(s, i, name, k) == \E j \in 1 .. i - 1 : s[j] = Call(name, k)

\* The kernels timed by the clock that is read at a call.
TimedBy(variant, call) == IF variant = "sequential" THEN {call.kernel} ELSE Kernels

\* Of a place in a script: a kernel is submitted once and read after that; where the
\* clock is first read all that was submitted has been read, and nothing of what
\* is timed has been submitted; where it is read again all of that has been read.
PlaceOK(variant, s, i) ==
    LET k == s[i].kernel
    IN  /\ s[i].name = "submit" => ~Before(s, i, "submit", k) /\ ~Before(s, i, "read", k)
        /\ s[i].name = "read" => Before(s, i, "submit", k)
        /\ s[i].name = "start" =>
               /\ \A q \in Kernels : Before(s, i, "submit", q) => Before(s, i, "read", q)
               /\ \A q \in TimedBy(variant, s[i]) : ~Before(s, i, "submit", q)
        /\ s[i].name = "end" =>
               \A q \in TimedBy(variant, s[i]) : Before(s, i, "submit", q) /\ Before(s, i, "read", q)
        /\ i < Len(s) => /\ s[i].name = "end" <=> s[i + 1].name = "start"
                         /\ s[i].name # "end" => TimedBy(variant, s[i]) = TimedBy(variant, s[i + 1])

ScriptOK(variant, s) ==
    /\ s \in Seq(CallSet) /\ s # <<>>
    /\ s[1].name = "start"
    /\ \A i \in 1 .. Len(s) : PlaceOK(variant, s, i)
    /\ s[Len(s)].name = "end"
    /\ \A q \in Kernels : Before(s, Len(s), "read", q)

\* The calls of the scripts.
LEMMA CallFacts ==
    \A k \in Kernels :
        /\ Call("start", k) \in CallSet /\ Call("submit", k) \in CallSet
        /\ Call("read", k) \in CallSet /\ Call("wait", k) \in CallSet
        /\ Call("waitOwn", k) \in CallSet /\ Call("end", k) \in CallSet
BY DEF Call, CallSet

\* Places of a concatenation.
LEMMA TwoFives ==
    ASSUME NEW S, NEW a \in Seq(S), NEW b \in Seq(S), Len(a) = 5, Len(b) = 5
    PROVE  /\ a \o b \in Seq(S) /\ Len(a \o b) = 10
           /\ \A i \in 1 .. 10 : (a \o b)[i] = IF i <= 5 THEN a[i] ELSE b[i - 5]
<1>1. /\ a \o b \in Seq(S) /\ Len(a \o b) = Len(a) + Len(b)
      /\ \A i \in 1 .. Len(a) + Len(b) : (a \o b)[i] = IF i <= Len(a) THEN a[i] ELSE b[i - Len(a)]
    BY ConcatProperties
<1> QED BY <1>1

\* The three loops.
LEMMA SequentialScript == ScriptOK("sequential", runSequential)
<1> DEFINE s == runSequential
<1>1. Kernels = {Computation, Transfer} /\ Computation # Transfer
    BY DEF Kernels, Computation, Transfer
<1>2. ASSUME NEW k \in Kernels PROVE TimedAlone(k) \in Seq(CallSet) /\ Len(TimedAlone(k)) = 5
    <2>1. /\ Call("start", k) \in CallSet /\ Call("submit", k) \in CallSet
          /\ Call("read", k) \in CallSet /\ Call("wait", k) \in CallSet
          /\ Call("end", k) \in CallSet
        BY CallFacts
    <2> QED BY <2>1 DEF TimedAlone
<1>3. /\ s \in Seq(CallSet) /\ Len(s) = 10
      /\ \A i \in 1 .. 10 : s[i] = IF i <= 5 THEN TimedAlone(Computation)[i] ELSE TimedAlone(Transfer)[i - 5]
    <2>1. /\ TimedAlone(Computation) \in Seq(CallSet) /\ Len(TimedAlone(Computation)) = 5
          /\ TimedAlone(Transfer) \in Seq(CallSet) /\ Len(TimedAlone(Transfer)) = 5
        BY <1>1, <1>2
    <2>2. s = TimedAlone(Computation) \o TimedAlone(Transfer)
        BY DEF runSequential
    <2> QED BY ONLY <2>1, <2>2, TwoFives
<1>4. /\ s[1] = Call("start", Computation)
      /\ s[2] = Call("submit", Computation)
      /\ s[3] = Call("read", Computation)
      /\ s[4] = Call("wait", Computation)
      /\ s[5] = Call("end", Computation)
      /\ s[6] = Call("start", Transfer)
      /\ s[7] = Call("submit", Transfer)
      /\ s[8] = Call("read", Transfer)
      /\ s[9] = Call("wait", Transfer)
      /\ s[10] = Call("end", Transfer)
    BY <1>3 DEF TimedAlone
<1> HIDE DEF s
<1>5. ASSUME NEW i \in 1 .. 10 PROVE PlaceOK("sequential", s, i)
    <2>1. \/ i = 1 \/ i = 2 \/ i = 3 \/ i = 4 \/ i = 5 \/ i = 6 \/ i = 7 \/ i = 8 \/ i = 9 \/ i = 10
        OBVIOUS
    <2>2. CASE i = 1
        BY <1>1, <1>3, <1>4, <2>2 DEF PlaceOK, Before, Call, TimedBy
    <2>3. CASE i = 2
        BY <1>1, <1>3, <1>4, <2>3 DEF PlaceOK, Before, Call, TimedBy
    <2>4. CASE i = 3
        BY <1>1, <1>3, <1>4, <2>4 DEF PlaceOK, Before, Call, TimedBy
    <2>5. CASE i = 4
        BY <1>1, <1>3, <1>4, <2>5 DEF PlaceOK, Before, Call, TimedBy
    <2>6. CASE i = 5
        BY <1>1, <1>3, <1>4, <2>6 DEF PlaceOK, Before, Call, TimedBy
    <2>7. CASE i = 6
        BY <1>1, <1>3, <1>4, <2>7 DEF PlaceOK, Before, Call, TimedBy
    <2>8. CASE i = 7
        BY <1>1, <1>3, <1>4, <2>8 DEF PlaceOK, Before, Call, TimedBy
    <2>9. CASE i = 8
        BY <1>1, <1>3, <1>4, <2>9 DEF PlaceOK, Before, Call, TimedBy
    <2>10. CASE i = 9
        BY <1>1, <1>3, <1>4, <2>10 DEF PlaceOK, Before, Call, TimedBy
    <2>11. CASE i = 10
        BY <1>1, <1>3, <1>4, <2>11 DEF PlaceOK, Before, Call, TimedBy
    <2> QED BY <2>1, <2>2, <2>3, <2>4, <2>5, <2>6, <2>7, <2>8, <2>9, <2>10, <2>11
<1>6. Before(s, 10, "read", Computation) /\ Before(s, 10, "read", Transfer)
    BY <1>4 DEF Before
<1>7. s[1].name = "start" /\ s[10].name = "end" /\ s # <<>>
    <2>1. s[1].name = "start" /\ s[10].name = "end"
        BY <1>4 DEF Call
    <2>2. s # <<>>
        BY <1>3
    <2> QED BY <2>1, <2>2
<1> QED BY <1>1, <1>3, <1>5, <1>6, <1>7 DEF ScriptOK, s

\* The second.
LEMMA ParallelScript == ScriptOK("parallel", runParallel)
<1> DEFINE s == runParallel
<1>1. Kernels = {Computation, Transfer} /\ Computation # Transfer
    BY DEF Kernels, Computation, Transfer
<1>2. /\ Call("start", Computation) \in CallSet /\ Call("end", Computation) \in CallSet
      /\ Call("submit", Computation) \in CallSet /\ Call("submit", Transfer) \in CallSet
      /\ Call("read", Computation) \in CallSet /\ Call("read", Transfer) \in CallSet
      /\ Call("wait", Transfer) \in CallSet
      /\ Call("waitOwn", Computation) \in CallSet /\ Call("waitOwn", Transfer) \in CallSet
    BY <1>1, CallFacts
<1>3. s \in Seq(CallSet) /\ Len(s) = 7
    BY <1>2 DEF runParallel
<1>4. /\ s[1] = Call("start", Computation)
      /\ s[2] = Call("submit", Computation)
      /\ s[3] = Call("submit", Transfer)
      /\ s[4] = Call("read", Transfer)
      /\ s[5] = Call("read", Computation)
      /\ s[6] = Call("wait", Transfer)
      /\ s[7] = Call("end", Computation)
    BY DEF runParallel
<1> HIDE DEF s
<1>5. ASSUME NEW i \in 1 .. 7 PROVE PlaceOK("parallel", s, i)
    <2>1. \/ i = 1 \/ i = 2 \/ i = 3 \/ i = 4 \/ i = 5 \/ i = 6 \/ i = 7
        OBVIOUS
    <2>2. CASE i = 1
        BY <1>1, <1>3, <1>4, <2>2 DEF PlaceOK, Before, Call, TimedBy
    <2>3. CASE i = 2
        BY <1>1, <1>3, <1>4, <2>3 DEF PlaceOK, Before, Call, TimedBy
    <2>4. CASE i = 3
        BY <1>1, <1>3, <1>4, <2>4 DEF PlaceOK, Before, Call, TimedBy
    <2>5. CASE i = 4
        BY <1>1, <1>3, <1>4, <2>5 DEF PlaceOK, Before, Call, TimedBy
    <2>6. CASE i = 5
        BY <1>1, <1>3, <1>4, <2>6 DEF PlaceOK, Before, Call, TimedBy
    <2>7. CASE i = 6
        BY <1>1, <1>3, <1>4, <2>7 DEF PlaceOK, Before, Call, TimedBy
    <2>8. CASE i = 7
        BY <1>1, <1>3, <1>4, <2>8 DEF PlaceOK, Before, Call, TimedBy
    <2> QED BY <2>1, <2>2, <2>3, <2>4, <2>5, <2>6, <2>7, <2>8
<1>6. Before(s, 7, "read", Computation) /\ Before(s, 7, "read", Transfer)
    BY <1>4 DEF Before
<1>7. s[1].name = "start" /\ s[7].name = "end" /\ s # <<>>
    <2>1. s[1].name = "start" /\ s[7].name = "end"
        BY <1>4 DEF Call
    <2>2. s # <<>>
        BY <1>3
    <2> QED BY <2>1, <2>2
<1> QED BY <1>1, <1>3, <1>5, <1>6, <1>7 DEF ScriptOK, s

\* The third.
LEMMA SeparateQueuesScript == ScriptOK("separateQueues", runParallelSeparateQueues)
<1> DEFINE s == runParallelSeparateQueues
<1>1. Kernels = {Computation, Transfer} /\ Computation # Transfer
    BY DEF Kernels, Computation, Transfer
<1>2. /\ Call("start", Computation) \in CallSet /\ Call("end", Computation) \in CallSet
      /\ Call("submit", Computation) \in CallSet /\ Call("submit", Transfer) \in CallSet
      /\ Call("read", Computation) \in CallSet /\ Call("read", Transfer) \in CallSet
      /\ Call("wait", Transfer) \in CallSet
      /\ Call("waitOwn", Computation) \in CallSet /\ Call("waitOwn", Transfer) \in CallSet
    BY <1>1, CallFacts
<1>3. s \in Seq(CallSet) /\ Len(s) = 8
    BY <1>2 DEF runParallelSeparateQueues
<1>4. /\ s[1] = Call("start", Computation)
      /\ s[2] = Call("submit", Computation)
      /\ s[3] = Call("submit", Transfer)
      /\ s[4] = Call("read", Transfer)
      /\ s[5] = Call("read", Computation)
      /\ s[6] = Call("waitOwn", Computation)
      /\ s[7] = Call("waitOwn", Transfer)
      /\ s[8] = Call("end", Computation)
    BY DEF runParallelSeparateQueues
<1> HIDE DEF s
<1>5. ASSUME NEW i \in 1 .. 8 PROVE PlaceOK("separateQueues", s, i)
    <2>1. \/ i = 1 \/ i = 2 \/ i = 3 \/ i = 4 \/ i = 5 \/ i = 6 \/ i = 7 \/ i = 8
        OBVIOUS
    <2>2. CASE i = 1
        BY <1>1, <1>3, <1>4, <2>2 DEF PlaceOK, Before, Call, TimedBy
    <2>3. CASE i = 2
        BY <1>1, <1>3, <1>4, <2>3 DEF PlaceOK, Before, Call, TimedBy
    <2>4. CASE i = 3
        BY <1>1, <1>3, <1>4, <2>4 DEF PlaceOK, Before, Call, TimedBy
    <2>5. CASE i = 4
        BY <1>1, <1>3, <1>4, <2>5 DEF PlaceOK, Before, Call, TimedBy
    <2>6. CASE i = 5
        BY <1>1, <1>3, <1>4, <2>6 DEF PlaceOK, Before, Call, TimedBy
    <2>7. CASE i = 6
        BY <1>1, <1>3, <1>4, <2>7 DEF PlaceOK, Before, Call, TimedBy
    <2>8. CASE i = 7
        BY <1>1, <1>3, <1>4, <2>8 DEF PlaceOK, Before, Call, TimedBy
    <2>9. CASE i = 8
        BY <1>1, <1>3, <1>4, <2>9 DEF PlaceOK, Before, Call, TimedBy
    <2> QED BY <2>1, <2>2, <2>3, <2>4, <2>5, <2>6, <2>7, <2>8, <2>9
<1>6. Before(s, 8, "read", Computation) /\ Before(s, 8, "read", Transfer)
    BY <1>4 DEF Before
<1>7. s[1].name = "start" /\ s[8].name = "end" /\ s # <<>>
    <2>1. s[1].name = "start" /\ s[8].name = "end"
        BY <1>4 DEF Call
    <2>2. s # <<>>
        BY <1>3
    <2> QED BY <2>1, <2>2
<1> QED BY <1>1, <1>3, <1>5, <1>6, <1>7 DEF ScriptOK, s

\* The calls of this iteration, and how many of them the host has made.
Script == CallsOf(Head(variants))
Position == Len(Script) - Len(calls)
Done(name, k) == Before(Script, Position + 1, name, k)

\* The kernels the next time covers.
Covered == TimedBy(Head(variants), Head(calls))

TestTypeOK ==
    /\ variants \in Seq(Variants)
    /\ calls \in Seq(CallSet)
    /\ device \in [Kernels -> SUBSET Nat]
    /\ \A k \in Kernels : device[k] \subseteq 0 .. Size(k) - 1
    /\ results = [k \in Kernels |-> [i \in 0 .. Size(k) - 1 |-> results[k][i]]]
    /\ output = [k \in Kernels |-> output[k]]

FollowsScript ==
    calls # <<>> =>
        /\ variants # <<>>
        /\ Len(calls) <= Len(Script)
        /\ \A i \in 1 .. Len(calls) : calls[i] = Script[Position + i]

KernelsFollow ==
    \A k \in Kernels :
        /\ device[k] # {} => calls # <<>> /\ Done("submit", k) /\ ~Done("read", k)
        /\ calls # <<>> /\ Done("submit", k) =>
               \A i \in 0 .. Size(k) - 1 : i \in device[k] \/ results[k][i] = ResultAt(k, i)
        /\ calls # <<>> /\ Done("read", k) =>
               \A i \in 0 .. Size(k) - 1 : output[k][i] = ResultAt(k, i)

TimedFollows ==
    calls # <<>> /\ Head(calls).name # "start" =>
        timed = {k \in Covered : Done("submit", k)}

TestInv == TestTypeOK /\ FollowsScript /\ KernelsFollow /\ TimedFollows

\* All three.
LEMMA ScriptsOK == \A variant \in Variants : ScriptOK(variant, CallsOf(variant))
<1>1. /\ CallsOf("sequential") = runSequential
      /\ CallsOf("parallel") = runParallel
      /\ CallsOf("separateQueues") = runParallelSeparateQueues
    BY DEF CallsOf
<1> QED BY <1>1, SequentialScript, ParallelScript, SeparateQueuesScript DEF Variants

\* What the invariant says of the host at a call.
LEMMA AtCall ==
    ASSUME TestInv, calls # <<>>
    PROVE  /\ variants \in Seq(Variants) /\ variants # <<>> /\ Head(variants) \in Variants
           /\ ScriptOK(Head(variants), Script)
           /\ Len(Script) \in Nat /\ Len(calls) \in Nat \ {0} /\ Position \in Nat
           /\ Position + 1 \in 1 .. Len(Script)
           /\ Head(calls) = Script[Position + 1]
           /\ Head(calls) \in CallSet
           /\ Head(calls) = Call(Head(calls).name, Head(calls).kernel)
           /\ PlaceOK(Head(variants), Script, Position + 1)
<1>1. /\ variants \in Seq(Variants) /\ variants # <<>> /\ calls \in Seq(CallSet)
      /\ Len(calls) <= Len(Script)
      /\ \A i \in 1 .. Len(calls) : calls[i] = Script[Position + i]
    BY DEF TestInv, TestTypeOK, FollowsScript
<1>2. Head(variants) \in Variants
    BY <1>1
<1>3. ScriptOK(Head(variants), Script)
    BY <1>2, ScriptsOK DEF Script
<1>4. Len(Script) \in Nat
    BY <1>3 DEF ScriptOK
<1>5. Len(calls) \in Nat \ {0} /\ Head(calls) = calls[1] /\ Head(calls) \in CallSet
    BY <1>1
<1>6. Position \in Nat /\ Position + 1 \in 1 .. Len(Script)
    BY <1>1, <1>4, <1>5 DEF Position
<1>7. Head(calls) = Script[Position + 1]
    BY <1>1, <1>5
<1>8. Head(calls) = Call(Head(calls).name, Head(calls).kernel)
    BY <1>5 DEF CallSet, Call
<1>9. PlaceOK(Head(variants), Script, Position + 1)
    BY <1>3, <1>6 DEF ScriptOK
<1> QED BY <1>1, <1>2, <1>3, <1>4, <1>5, <1>6, <1>7, <1>8, <1>9

\* The next place of a script.
LEMMA BeforeNext ==
    ASSUME NEW s, NEW i \in Nat \ {0}, NEW name, NEW k
    PROVE  Before(s, i + 1, name, k) <=> Before(s, i, name, k) \/ s[i] = Call(name, k)
<1>1. \A j \in 1 .. (i + 1) - 1 : j \in 1 .. i - 1 \/ j = i
    OBVIOUS
<1>2. 1 .. i - 1 \subseteq 1 .. (i + 1) - 1 /\ i \in 1 .. (i + 1) - 1
    OBVIOUS
<1> QED BY <1>1, <1>2 DEF Before

\* What taking a call does to what is left of the script and to what has been done.
LEMMA CallTaken ==
    ASSUME TestInv, calls # <<>>, calls' = Tail(calls), variants' = variants
    PROVE  /\ variants' \in Seq(Variants) /\ calls' \in Seq(CallSet)
           /\ FollowsScript'
           /\ calls' # <<>> =>
                  /\ \A name, k : Done(name, k)' <=>
                         Done(name, k) \/ Call(Head(calls).name, Head(calls).kernel) = Call(name, k)
                  /\ Head(calls).name = "end" <=> Head(calls').name = "start"
                  /\ Head(calls).name # "end" => Covered' = Covered
           /\ calls' = <<>> =>
                  /\ Head(calls).name = "end"
                  /\ \A k \in Kernels : Done("read", k)
<1>1. /\ variants \in Seq(Variants) /\ variants # <<>>
      /\ ScriptOK(Head(variants), Script)
      /\ Len(Script) \in Nat /\ Len(calls) \in Nat \ {0} /\ Position \in Nat
      /\ Position + 1 \in 1 .. Len(Script)
      /\ Head(calls) = Script[Position + 1]
      /\ Head(calls) = Call(Head(calls).name, Head(calls).kernel)
      /\ PlaceOK(Head(variants), Script, Position + 1)
    BY AtCall
<1>2. /\ calls \in Seq(CallSet) /\ Len(calls) <= Len(Script)
      /\ \A i \in 1 .. Len(calls) : calls[i] = Script[Position + i]
    BY DEF TestInv, TestTypeOK, FollowsScript
<1>3. /\ calls' \in Seq(CallSet) /\ Len(calls') = Len(calls) - 1
      /\ \A i \in 1 .. Len(calls') : calls'[i] = calls[i + 1]
    BY <1>2
<1>4. Script' = Script
    BY DEF Script
<1>5. Position' = Position + 1
    BY <1>1, <1>3, <1>4 DEF Position
<1>6. FollowsScript'
    <2>1. \A i \in 1 .. Len(calls') : calls'[i] = Script[Position + 1 + i]
        BY <1>1, <1>2, <1>3
    <2> QED BY <1>1, <1>2, <1>3, <1>4, <1>5, <2>1 DEF FollowsScript
<1>7. ASSUME calls' # <<>>
      PROVE  /\ \A name, k : Done(name, k)' <=>
                    Done(name, k) \/ Call(Head(calls).name, Head(calls).kernel) = Call(name, k)
             /\ Head(calls).name = "end" <=> Head(calls').name = "start"
             /\ Head(calls).name # "end" => Covered' = Covered
    <2>1. Len(calls') \in Nat \ {0} /\ Position + 1 < Len(Script) /\ Head(calls') = calls'[1]
        <3>1. Len(calls') \in Nat \ {0}
            BY <1>3, <1>7, EmptySeq
        <3> QED BY <1>1, <1>2, <1>3, <1>7, <3>1 DEF Position
    <2>2. Head(calls') = Script[Position + 1 + 1]
        BY <1>1, <1>2, <1>3, <2>1
    <2>3. /\ Head(calls).name = "end" <=> Head(calls').name = "start"
          /\ Head(calls).name # "end" => TimedBy(Head(variants), Head(calls)) = TimedBy(Head(variants), Head(calls'))
        BY <1>1, <2>1, <2>2 DEF PlaceOK
    <2>4. ASSUME NEW name, NEW k
          PROVE  Done(name, k)' <=>
                    Done(name, k) \/ Call(Head(calls).name, Head(calls).kernel) = Call(name, k)
        <3>1. Done(name, k)' <=> Before(Script, Position + 1 + 1, name, k)
            BY <1>4, <1>5 DEF Done, Before
        <3>2. Before(Script, Position + 1 + 1, name, k)
                <=> Before(Script, Position + 1, name, k) \/ Script[Position + 1] = Call(name, k)
            BY <1>1, BeforeNext
        <3> QED BY <1>1, <3>1, <3>2 DEF Done
    <2> QED BY <2>3, <2>4 DEF Covered
<1>8. ASSUME calls' = <<>>
      PROVE  Head(calls).name = "end" /\ \A k \in Kernels : Done("read", k)
    <2>1. Len(calls) = 1 /\ Position + 1 = Len(Script)
        <3>1. Len(calls') = 0
            BY <1>8, EmptySeq
        <3> QED BY <1>1, <1>3, <3>1 DEF Position
    <2> QED BY <1>1, <2>1 DEF ScriptOK, Done
<1> QED BY <1>1, <1>3, <1>6, <1>7, <1>8

\* Nothing is submitted in the beginning.
LEMMA TestInitInv == TestInit => TestInv
<1> SUFFICES ASSUME TestInit PROVE TestInv
    OBVIOUS
<1>1. variants \in Seq(Variants)
    BY DEF TestInit, Variants
<1>2. TestTypeOK
    BY <1>1 DEF TestInit, TestTypeOK, Zeros
<1> QED BY <1>2 DEF TestInit, TestInv, FollowsScript, KernelsFollow, TimedFollows

\* A call that changes no kernel keeps what the invariant says of them.
LEMMA QuietCallKeeps ==
    ASSUME TestInv, calls # <<>>, calls' = Tail(calls),
           Head(calls).name \notin {"submit", "read"},
           UNCHANGED <<variants, device, results, output>>,
           Head(calls).name # "start" => timed' = timed,
           Head(calls).name = "start" => timed' = AtWork
    PROVE  TestInv'
<1>1. TestTypeOK /\ KernelsFollow /\ TimedFollows
    BY DEF TestInv
<1>2. /\ variants' \in Seq(Variants) /\ calls' \in Seq(CallSet)
      /\ FollowsScript'
      /\ calls' # <<>> =>
             /\ \A name, k : Done(name, k)' <=>
                    Done(name, k) \/ Call(Head(calls).name, Head(calls).kernel) = Call(name, k)
             /\ Head(calls).name = "end" <=> Head(calls').name = "start"
             /\ Head(calls).name # "end" => Covered' = Covered
      /\ calls' = <<>> =>
             /\ Head(calls).name = "end"
             /\ \A k \in Kernels : Done("read", k)
    BY CallTaken
<1>3. calls' # <<>> => \A k : /\ Done("submit", k)' <=> Done("submit", k)
                              /\ Done("read", k)' <=> Done("read", k)
    BY <1>2 DEF Call
<1>4. TestTypeOK'
    BY <1>1, <1>2 DEF TestTypeOK
<1>5. KernelsFollow'
    BY <1>1, <1>2, <1>3 DEF KernelsFollow
<1>6. TimedFollows'
    <2> SUFFICES ASSUME calls' # <<>>, Head(calls').name # "start"
                 PROVE  timed' = {k \in Covered : Done("submit", k)}'
        BY DEF TimedFollows
    <2>1. Covered' = Covered /\ Head(calls).name # "end"
        BY <1>2
    <2>2. {k \in Covered : Done("submit", k)}' = {k \in Covered : Done("submit", k)}
        BY <1>3, <2>1
    <2>3. CASE Head(calls).name # "start"
        BY <1>1, <2>2, <2>3 DEF TimedFollows
    <2>4. CASE Head(calls).name = "start"
        <3>1. /\ \A q \in Kernels : Done("submit", q) => Done("read", q)
              /\ \A q \in Covered : ~Done("submit", q)
            BY <2>4, AtCall DEF PlaceOK, Done, Covered
        <3>2. AtWork = {}
            BY <1>1, <3>1 DEF KernelsFollow, AtWork
        <3> QED BY <2>2, <2>4, <3>1, <3>2
    <2> QED BY <2>3, <2>4
<1> QED BY <1>2, <1>4, <1>5, <1>6 DEF TestInv

\* A kernel is submitted,
LEMMA SubmitKeeps ==
    ASSUME TestInv, Submit
    PROVE  TestInv'
<1> DEFINE k == Head(calls).kernel
<1>1. /\ TestTypeOK /\ KernelsFollow /\ TimedFollows
      /\ calls # <<>> /\ Head(calls).name = "submit" /\ calls' = Tail(calls)
      /\ device' = [device EXCEPT ![k] = 0 .. Size(k) - 1]
      /\ timed' = timed \cup {k}
      /\ variants' = variants /\ results' = results /\ output' = output
    BY DEF TestInv, Submit, Calls
<1>2. /\ k \in Kernels
      /\ ~Done("submit", k) /\ ~Done("read", k)
      /\ k \in Covered
    BY <1>1, AtCall DEF PlaceOK, Done, Covered, TimedBy, CallSet
<1>3. /\ variants' \in Seq(Variants) /\ calls' \in Seq(CallSet)
      /\ FollowsScript'
      /\ calls' # <<>>
      /\ \A name, q : Done(name, q)' <=>
             Done(name, q) \/ Call(Head(calls).name, Head(calls).kernel) = Call(name, q)
      /\ Covered' = Covered
    BY <1>1, CallTaken
<1> HIDE DEF k
<1>4. \A q : /\ Done("submit", q)' <=> Done("submit", q) \/ q = k
             /\ Done("read", q)' <=> Done("read", q)
    <2>1. \A name, q : Call(Head(calls).name, k) = Call(name, q) <=> Head(calls).name = name /\ k = q
        BY DEF Call
    <2>2. \A name, q : Done(name, q)' <=> Done(name, q) \/ (Head(calls).name = name /\ k = q)
        BY <1>3, <2>1 DEF k
    <2> QED BY <1>1, <2>2
<1>5. /\ device'[k] = 0 .. Size(k) - 1
      /\ \A q \in Kernels : q # k => device'[q] = device[q]
    BY <1>1, <1>2 DEF TestTypeOK
<1>6. 0 .. Size(k) - 1 \in SUBSET Nat
    BY TransferTestAssumption DEF Size
<1>7. TestTypeOK'
    BY <1>1, <1>2, <1>3, <1>5, <1>6 DEF TestTypeOK
<1>8. KernelsFollow'
    <2> SUFFICES ASSUME NEW q \in Kernels
                 PROVE  /\ (device'[q] # {} => Done("submit", q)' /\ ~Done("read", q)')
                        /\ (Done("submit", q)' =>
                             \A i \in 0 .. Size(q) - 1 : i \in device'[q] \/ results'[q][i] = ResultAt(q, i))
                        /\ (Done("read", q)' =>
                               \A i \in 0 .. Size(q) - 1 : output'[q][i] = ResultAt(q, i))
        BY <1>3 DEF KernelsFollow
    <2>1. CASE q = k
        BY <1>1, <1>2, <1>4, <1>5, <2>1
    <2>2. CASE q # k
        BY <1>1, <1>4, <1>5, <2>2 DEF KernelsFollow
    <2> QED BY <2>1, <2>2
<1>9. TimedFollows'
    <2>1. timed = {q \in Covered : Done("submit", q)}
        BY <1>1 DEF TimedFollows
    <2>2. timed' = {q \in Covered : Done("submit", q)}'
        BY <1>1, <1>2, <1>3, <1>4, <2>1
    <2> QED BY <2>2 DEF TimedFollows
<1> QED BY <1>3, <1>7, <1>8, <1>9 DEF TestInv

\* its output is read,
LEMMA ReadOutputKeeps ==
    ASSUME TestInv, Read
    PROVE  TestInv'
<1> DEFINE k == Head(calls).kernel
<1>1. /\ TestTypeOK /\ KernelsFollow /\ TimedFollows
      /\ calls # <<>> /\ Head(calls).name = "read" /\ calls' = Tail(calls)
      /\ k \notin AtWork
      /\ output' = [output EXCEPT ![k] = results[k]]
      /\ variants' = variants /\ device' = device /\ results' = results /\ timed' = timed
    BY DEF TestInv, Read, Calls
<1>2. k \in Kernels /\ Done("submit", k)
    BY <1>1, AtCall DEF PlaceOK, Done, CallSet
<1>3. /\ variants' \in Seq(Variants) /\ calls' \in Seq(CallSet)
      /\ FollowsScript'
      /\ calls' # <<>>
      /\ \A name, q : Done(name, q)' <=>
             Done(name, q) \/ Call(Head(calls).name, Head(calls).kernel) = Call(name, q)
      /\ Covered' = Covered
    BY <1>1, CallTaken
<1> HIDE DEF k
<1>4. \A q : /\ Done("submit", q)' <=> Done("submit", q)
             /\ Done("read", q)' <=> Done("read", q) \/ q = k
    <2>1. \A name, q : Call(Head(calls).name, k) = Call(name, q) <=> Head(calls).name = name /\ k = q
        BY DEF Call
    <2>2. \A name, q : Done(name, q)' <=> Done(name, q) \/ (Head(calls).name = name /\ k = q)
        BY <1>3, <2>1 DEF k
    <2> QED BY <1>1, <2>2
<1>5. /\ output'[k] = results[k]
      /\ \A q \in Kernels : q # k => output'[q] = output[q]
    BY <1>1, <1>2 DEF TestTypeOK
<1>6. device[k] = {}
    BY <1>1, <1>2 DEF AtWork
<1>7. TestTypeOK'
    BY <1>1, <1>2, <1>3, <1>5 DEF TestTypeOK
<1>8. KernelsFollow'
    <2> SUFFICES ASSUME NEW q \in Kernels
                 PROVE  /\ (device'[q] # {} => Done("submit", q)' /\ ~Done("read", q)')
                        /\ (Done("submit", q)' =>
                             \A i \in 0 .. Size(q) - 1 : i \in device'[q] \/ results'[q][i] = ResultAt(q, i))
                        /\ (Done("read", q)' =>
                               \A i \in 0 .. Size(q) - 1 : output'[q][i] = ResultAt(q, i))
        BY <1>3 DEF KernelsFollow
    <2>1. CASE q = k
        BY <1>1, <1>2, <1>4, <1>5, <1>6, <2>1 DEF KernelsFollow
    <2>2. CASE q # k
        BY <1>1, <1>4, <1>5, <2>2 DEF KernelsFollow
    <2> QED BY <2>1, <2>2
<1>9. TimedFollows'
    <2>1. timed = {q \in Covered : Done("submit", q)}
        BY <1>1 DEF TimedFollows
    <2>2. timed' = {q \in Covered : Done("submit", q)}'
        BY <1>1, <1>3, <1>4, <2>1
    <2> QED BY <2>2 DEF TimedFollows
<1> QED BY <1>3, <1>7, <1>8, <1>9 DEF TestInv

\* one of its work items runs,
LEMMA WorkItemKeeps ==
    ASSUME TestInv, NEW k \in Kernels, NEW i \in device[k], WorkItemRuns(k, i)
    PROVE  TestInv'
<1>1. /\ TestTypeOK /\ FollowsScript /\ KernelsFollow /\ TimedFollows
      /\ device' = [device EXCEPT ![k] = @ \ {i}]
      /\ results' = [results EXCEPT ![k][i] = ResultAt(k, i)]
      /\ variants' = variants /\ calls' = calls /\ output' = output /\ timed' = timed
    BY DEF TestInv, WorkItemRuns
<1>2. \A name, q : Done(name, q)' <=> Done(name, q)
    BY <1>1 DEF Done, Before, Script, Position
<1>3. FollowsScript' /\ Covered' = Covered
    BY <1>1 DEF FollowsScript, Script, Position, Covered
<1>4. /\ device'[k] = device[k] \ {i} /\ i \in 0 .. Size(k) - 1
      /\ \A q \in Kernels : q # k => device'[q] = device[q]
      /\ \A q \in Kernels : q # k => results'[q] = results[q]
      /\ \A j \in 0 .. Size(k) - 1 : results'[k][j] = IF j = i THEN ResultAt(k, i) ELSE results[k][j]
      /\ results' = [q \in Kernels |-> [j \in 0 .. Size(q) - 1 |-> results'[q][j]]]
    <2>1. device'[k] = device[k] \ {i} /\ \A q \in Kernels : q # k => device'[q] = device[q]
        BY <1>1 DEF TestTypeOK
    <2>2. i \in 0 .. Size(k) - 1
        BY <1>1 DEF TestTypeOK
    <2>3. /\ DOMAIN results = Kernels
          /\ \A q \in Kernels : results[q] = [j \in 0 .. Size(q) - 1 |-> results[q][j]]
        BY <1>1 DEF TestTypeOK
    <2>4. /\ results' = [q \in Kernels |-> IF q = k THEN [results[k] EXCEPT ![i] = ResultAt(k, i)]
                                           ELSE results[q]]
        BY <1>1, <2>3
    <2>5. [results[k] EXCEPT ![i] = ResultAt(k, i)]
            = [j \in 0 .. Size(k) - 1 |-> IF j = i THEN ResultAt(k, i) ELSE results[k][j]]
        BY <2>2, <2>3
    <2>6. \A q \in Kernels : results'[q] = [j \in 0 .. Size(q) - 1 |-> results'[q][j]]
        BY <2>3, <2>4, <2>5
    <2> QED BY <2>1, <2>2, <2>3, <2>4, <2>5, <2>6
<1>5. TestTypeOK'
    BY <1>1, <1>4 DEF TestTypeOK
<1>6. KernelsFollow'
    <2> SUFFICES ASSUME NEW q \in Kernels
                 PROVE  /\ (device'[q] # {} => calls' # <<>> /\ Done("submit", q)' /\ ~Done("read", q)')
                        /\ (calls' # <<>> /\ Done("submit", q)' =>
                             \A j \in 0 .. Size(q) - 1 : j \in device'[q] \/ results'[q][j] = ResultAt(q, j))
                        /\ (calls' # <<>> /\ Done("read", q)' =>
                               \A j \in 0 .. Size(q) - 1 : output'[q][j] = ResultAt(q, j))
        BY DEF KernelsFollow
    <2>1. CASE q = k
        BY <1>1, <1>2, <1>4, <2>1 DEF KernelsFollow
    <2>2. CASE q # k
        BY <1>1, <1>2, <1>4, <2>2 DEF KernelsFollow
    <2> QED BY <2>1, <2>2
<1>7. TimedFollows'
    BY <1>1, <1>2, <1>3 DEF TimedFollows
<1> QED BY <1>3, <1>5, <1>6, <1>7 DEF TestInv

\* or the next iteration begins.
LEMMA BeginIterationKeeps ==
    ASSUME TestInv, BeginIteration
    PROVE  TestInv'
<1>1. /\ TestTypeOK /\ KernelsFollow
      /\ variants # <<>> /\ calls = <<>>
      /\ calls' = CallsOf(Head(variants))
      /\ results' = [k \in Kernels |-> Zeros(k)] /\ output' = results'
      /\ variants' = variants /\ device' = device /\ timed' = timed
    BY DEF TestInv, BeginIteration
<1>2. Head(variants) \in Variants /\ variants \in Seq(Variants)
    BY <1>1 DEF TestTypeOK
<1>3. ScriptOK(Head(variants), calls') /\ Script' = calls'
    BY <1>1, <1>2, ScriptsOK DEF Script
<1>4. calls' \in Seq(CallSet) /\ calls' # <<>> /\ calls'[1].name = "start"
      /\ Len(calls') \in Nat
    BY <1>3 DEF ScriptOK
<1>5. Position' = 0
    BY <1>3, <1>4 DEF Position
<1>6. \A name, k : ~Done(name, k)'
    BY <1>5 DEF Done, Before
<1>7. \A k \in Kernels : device[k] = {}
    BY <1>1 DEF KernelsFollow
<1>8. TestTypeOK'
    BY <1>1, <1>2, <1>4 DEF TestTypeOK, Zeros
<1>9. FollowsScript'
    BY <1>1, <1>3, <1>4, <1>5 DEF FollowsScript
<1>10. KernelsFollow'
    BY <1>1, <1>6, <1>7 DEF KernelsFollow
<1>11. TimedFollows'
    BY <1>4 DEF TimedFollows
<1> QED BY <1>8, <1>9, <1>10, <1>11 DEF TestInv

\* Every step keeps the invariant.
LEMMA TestNextKeeps ==
    ASSUME TestInv, [TestNext]_testVars
    PROVE  TestInv'
<1>1. ASSUME BeginIteration PROVE TestInv'
    BY <1>1, BeginIterationKeeps
<1>2. ASSUME NextVariant PROVE TestInv'
    <2>1. /\ variants \in Seq(Variants) /\ variants # <<>> /\ variants' = Tail(variants)
          /\ calls = <<>> /\ UNCHANGED <<calls, device, results, output, timed>>
        BY <1>2 DEF NextVariant, TestInv, TestTypeOK
    <2>2. variants' \in Seq(Variants)
        BY <2>1
    <2> QED BY <2>1, <2>2 DEF TestInv, TestTypeOK, FollowsScript, KernelsFollow, TimedFollows
<1>3. ASSUME ReadClock PROVE TestInv'
    BY <1>3, QuietCallKeeps DEF ReadClock, Calls
<1>4. ASSUME Submit PROVE TestInv'
    BY <1>4, SubmitKeeps
<1>5. ASSUME Read PROVE TestInv'
    BY <1>5, ReadOutputKeeps
<1>6. ASSUME Wait PROVE TestInv'
    BY <1>6, QuietCallKeeps DEF Wait, Calls
<1>7. ASSUME ReadClockAgain PROVE TestInv'
    BY <1>7, QuietCallKeeps DEF ReadClockAgain, Calls
<1>8. ASSUME NEW k \in Kernels, NEW i \in device[k], WorkItemRuns(k, i) PROVE TestInv'
    BY <1>8, WorkItemKeeps
<1>9. ASSUME UNCHANGED testVars PROVE TestInv'
    <2>1. UNCHANGED <<variants, calls, device, results, output, timed>>
        BY <1>9 DEF testVars
    <2>2. /\ \A name, q : Done(name, q)' <=> Done(name, q)
          /\ Covered' = Covered /\ Script' = Script /\ Position' = Position
        BY <2>1 DEF Done, Before, Script, Position, Covered
    <2> QED BY <2>1, <2>2 DEF TestInv, TestTypeOK, FollowsScript, KernelsFollow, TimedFollows
<1> QED BY <1>1, <1>2, <1>3, <1>4, <1>5, <1>6, <1>7, <1>8, <1>9 DEF TestNext

\* Where the clock is read again, all it covers has been submitted and read.
LEMMA MeasuredWhole == TestInv => MeasuresWholeKernels
<1> SUFFICES ASSUME TestInv, calls # <<>>, Head(calls).name = "end"
             PROVE  /\ \A k \in timed : /\ k \notin AtWork
                                        /\ \A i \in 0 .. Size(k) - 1 : output[k][i] = ResultAt(k, i)
                    /\ timed = Covered
    BY DEF MeasuresWholeKernels, Covered, TimedBy
<1>1. /\ \A q \in Covered : Done("submit", q) /\ Done("read", q)
      /\ Covered \subseteq Kernels
    BY AtCall DEF PlaceOK, Done, Covered, TimedBy, CallSet
<1>2. timed = Covered
    BY <1>1 DEF TestInv, TimedFollows
<1> QED BY <1>1, <1>2 DEF TestInv, KernelsFollow, AtWork

\* However the work items of the two kernels interleave, a time that is printed covers all
\* work items of the kernels it is about and none of another kernel.
THEOREM AlwaysMeasuresWholeKernels == TestSpec => []MeasuresWholeKernels
BY TestInitInv, TestNextKeeps, MeasuredWhole, PTL DEF TestSpec

-----------------------------------------------------------------------------
(* HoughAccumulators: both accumulators are functions of the points filled so far.  *)

LinePoint == [r : Int, phi : Int, layer : 0 .. layers - 1]

\* The types of the constants.
LEMMA GridFacts ==
    /\ layers \in Nat \ {0} /\ x_dpi \in Nat \ {0} /\ y_dpi \in Nat \ {0} /\ threshold \in Nat
    /\ dx \in Nat \ {0} /\ dy \in Nat \ {0} /\ x_begin \in Int /\ y_begin \in Int
    /\ \A set \in PointSets : set \subseteq LinePoint /\ IsFiniteSet(set)
BY GridAssumption DEF LinePoint

\* Half a cell is a whole number.
LEMMA HalfFacts ==
    /\ dx \div 2 \in Int /\ dy \div 2 \in Int /\ 2 * (dy \div 2) = dy
<1>1. dx \in Nat \ {0} /\ dy \in Nat \ {0} /\ dx % 2 = 0 /\ dy % 2 = 0
    BY GridAssumption
<1>2. \A n \in Nat : n \div 2 \in Int /\ n = 2 * (n \div 2) + (n % 2)
    BY Z3
<1> QED BY <1>1, <1>2

\* Rounding is to an integer at most half a unit off, and less than that when no two are
\* equally near.
LEMMA RoundFacts ==
    ASSUME NEW n \in Int, NEW d \in Nat \ {0}
    PROVE  /\ Round(n, d) \in Int
           /\ 2 * n - d <= 2 * (d * Round(n, d)) /\ 2 * (d * Round(n, d)) <= 2 * n + d
           /\ 2 * (n % d) # d => 2 * n - d < 2 * (d * Round(n, d))
           /\ 2 * (n % d) # d => 2 * (d * Round(n, d)) < 2 * n + d
<1> DEFINE floor == n \div d  rest == n % d
<1>1. floor \in Int /\ rest \in 0 .. d - 1 /\ n = d * floor + rest
    BY Z3
<1>2. \/ Round(n, d) = floor /\ 2 * rest <= d
      \/ Round(n, d) = floor + 1 /\ 2 * rest >= d
    BY <1>1 DEF Round
<1> HIDE DEF floor, rest
<1>3. d * (floor + 1) = d * floor + d /\ d * floor \in Int
    BY <1>1, Z3
<1> DEFINE m == d * floor
<1>4. m \in Int /\ n = m + rest
    BY <1>1, <1>3
<1>5. CASE Round(n, d) = floor /\ 2 * rest <= d
    <2>1. d * Round(n, d) = m
        BY <1>5
    <2> HIDE DEF m
    <2> QED BY <1>1, <1>4, <1>5, <2>1 DEF rest
<1>6. CASE Round(n, d) = floor + 1 /\ 2 * rest >= d
    <2>1. d * Round(n, d) = m + d
        BY <1>3, <1>6
    <2> HIDE DEF m
    <2> QED BY <1>1, <1>4, <1>6, <2>1 DEF rest
<1> QED BY <1>2, <1>5, <1>6

\* A line falls or rises by its radius in a column.
LEMMA LineFacts ==
    ASSUME NEW point \in LinePoint, NEW column \in Columns
    PROVE  Left(point, column) \in Int /\ Right(point, column) \in Int
<1>1. column \in Int /\ point.r \in Int /\ point.phi \in Int
    BY DEF Columns, LinePoint
<1>2. dx * column \in Int
    BY <1>1, GridFacts
<1>3. X(column) - dx \div 2 \in Int /\ X(column) + dx \div 2 \in Int
    BY <1>2, GridFacts, HalfFacts DEF X
<1>4. \A x \in Int : point.phi - point.r * x \in Int
    BY <1>1
<1> QED BY <1>3, <1>4 DEF Left, Right, LineAt

\* The row of a cell that a line passes is between the indices of the line's ends, and
\* the other way round, except where an end falls between two rows.
LEMMA IndexFacts ==
    ASSUME NEW y \in Int, NEW row \in Rows
    PROVE  /\ map_to_bean_index(y) \in Int
           /\ row >= map_to_bean_index(y) => y <= Y(row) + dy \div 2
           /\ row <= map_to_bean_index(y) => y >= Y(row) - dy \div 2
           /\ 2 * ((y - y_begin) % dy) # dy =>
                  /\ y <= Y(row) + dy \div 2 => row >= map_to_bean_index(y)
                  /\ y >= Y(row) - dy \div 2 => row <= map_to_bean_index(y)
<1> DEFINE n == y - y_begin  k == map_to_bean_index(y)  half == dy \div 2
           tie == 2 * (n % dy) = dy
<1>1. n \in Int /\ dy \in Nat \ {0} /\ row \in Int /\ y_begin \in Int /\ half \in Int /\ 2 * half = dy
    BY GridFacts, HalfFacts DEF Rows
<1>2. /\ k \in Int
      /\ 2 * n - dy <= 2 * (dy * k) /\ 2 * (dy * k) <= 2 * n + dy
      /\ ~ tie => 2 * n - dy < 2 * (dy * k) /\ 2 * (dy * k) < 2 * n + dy
    BY <1>1, RoundFacts DEF map_to_bean_index
<1>3. Y(row) = y_begin + dy * row
    BY DEF Y
<1>4. y = n + y_begin
    BY <1>1
<1> HIDE DEF n, k, half, tie
<1>5. /\ dy * row \in Int /\ dy * k \in Int
      /\ row >= k => dy * row >= dy * k
      /\ row <= k => dy * row <= dy * k
      /\ row < k => dy * row + dy <= dy * k
      /\ row > k => dy * row >= dy * k + dy
    <2>1. \A a \in Int, b \in Int : a <= b => dy * a <= dy * b
        BY <1>1, Z3
    <2>2. \A a \in Int : dy * (a + 1) = dy * a + dy
        BY <1>1, Z3
    <2> QED BY <1>1, <1>2, <2>1, <2>2
<1> DEFINE u == dy * row  v == dy * k
<1>6. /\ u \in Int /\ v \in Int
      /\ row >= k => u >= v
      /\ row <= k => u <= v
      /\ row < k => u + dy <= v
      /\ row > k => u >= v + dy
      /\ 2 * n - dy <= 2 * v /\ 2 * v <= 2 * n + dy
      /\ ~ tie => 2 * n - dy < 2 * v /\ 2 * v < 2 * n + dy
      /\ Y(row) = y_begin + u
    BY <1>2, <1>3, <1>5
<1> HIDE DEF u, v
<1>7. row >= k => y <= Y(row) + half
    BY <1>1, <1>2, <1>4, <1>6
<1>8. row <= k => y >= Y(row) - half
    BY <1>1, <1>2, <1>4, <1>6
<1>9. ~ tie => (y <= Y(row) + half => row >= k)
    BY <1>1, <1>2, <1>4, <1>6
<1>10. ~ tie => (y >= Y(row) - half => row <= k)
    BY <1>1, <1>2, <1>4, <1>6
<1> QED BY <1>2, <1>7, <1>8, <1>9, <1>10 DEF k, half, tie, n

\* What 2d-acc fills, the naive count counts.
LEMMA PassedIsHit ==
    ASSUME NEW point \in LinePoint, NEW column \in Columns, NEW row \in Rows,
           row \in RowsPassed(point, column)
    PROVE  IsHit(point, column, row)
<1> DEFINE l == Left(point, column)  r == Right(point, column)
<1>1. l \in Int /\ r \in Int
    BY LineFacts
<1>2. /\ row \in map_to_bean_index(r) .. map_to_bean_index(l)
      /\ row \in Int
    BY DEF RowsPassed, Rows
<1>3. map_to_bean_index(r) \in Int /\ map_to_bean_index(l) \in Int
    BY <1>1, IndexFacts
<1>4. row >= map_to_bean_index(r) /\ row <= map_to_bean_index(l)
    BY <1>2, <1>3
<1> HIDE DEF l, r
<1>5. r <= Y(row) + dy \div 2 /\ l >= Y(row) - dy \div 2
    BY <1>1, <1>4, IndexFacts
<1> QED BY <1>5 DEF IsHit, l, r

\* And the other way round where the line stays inside.
LEMMA HitIsPassed ==
    ASSUME NEW point \in LinePoint, NEW column \in Columns, NEW row \in Rows,
           Inside(point, column), IsHit(point, column, row)
    PROVE  row \in RowsPassed(point, column)
<1> DEFINE l == Left(point, column)  r == Right(point, column)
<1>1. l \in Int /\ r \in Int
    BY LineFacts
<1>2. /\ map_to_bean_index(r) >= 0 /\ map_to_bean_index(l) < y_dpi
      /\ 2 * ((r - y_begin) % dy) # dy /\ 2 * ((l - y_begin) % dy) # dy
    BY DEF Inside
<1>3. r <= Y(row) + dy \div 2 /\ l >= Y(row) - dy \div 2
    BY DEF IsHit
<1> HIDE DEF l, r
<1>4. map_to_bean_index(r) \in Int /\ map_to_bean_index(l) \in Int
    BY <1>1, IndexFacts
<1>5. row >= map_to_bean_index(r) /\ row <= map_to_bean_index(l)
    BY <1>1, <1>2, <1>3, IndexFacts
<1>6. row \in Int
    BY DEF Rows
<1>7. row \in map_to_bean_index(r) .. map_to_bean_index(l)
    BY <1>4, <1>5, <1>6
<1>8. ~ (map_to_bean_index(r) < 0 \/ map_to_bean_index(l) >= y_dpi)
    BY <1>2, <1>4, GridFacts
<1> QED BY <1>7, <1>8 DEF RowsPassed, l, r

Grid(values) == [Rows -> [Columns -> values]]
Filled == allPoints \ pointsLeft
Hits(set, row, column) == {p \in set : IsHit(p, column, row)}

AccTypeOK ==
    /\ accPc \in {"Started", "Filling"}
    /\ allPoints \subseteq LinePoint /\ IsFiniteSet(allPoints) /\ pointsLeft \subseteq allPoints
    /\ accumulator \in Grid(Nat)
    /\ map \in [0 .. layers - 1 -> Grid({0, 1})]

\* The grids hold the points that have been filled.
CountsFilled ==
    \A row \in Rows, column \in Columns :
        accumulator[row][column] = Cardinality(Hits(Filled, row, column))

MarksFilled ==
    \A layer \in 0 .. layers - 1, row \in Rows, column \in Columns :
        map[layer][row][column] = 1
        <=> \E p \in Filled : p.layer = layer /\ row \in RowsPassed(p, column)

AccInv ==
    /\ AccTypeOK /\ CountsFilled /\ MarksFilled
    /\ accPc = "Started" => allPoints = {}

\* The accumulators are empty in the beginning.
LEMMA AccInitInv == AccInit => AccInv
<1> SUFFICES ASSUME AccInit PROVE AccInv
    OBVIOUS
<1>1. /\ accPc = "Started" /\ pointsLeft = {} /\ allPoints = {}
      /\ accumulator = [row \in Rows |-> [column \in Columns |-> 0]]
      /\ map = [layer \in 0 .. layers - 1 |-> [row \in Rows |-> [column \in Columns |-> 0]]]
    BY DEF AccInit
<1>2. AccTypeOK
    BY <1>1, FS_EmptySet DEF AccTypeOK, Grid
<1>3. Filled = {}
    BY <1>1 DEF Filled
<1>4. \A row \in Rows, column \in Columns : Hits(Filled, row, column) = {}
    BY <1>3 DEF Hits
<1>5. CountsFilled
    BY <1>1, <1>4, FS_EmptySet DEF CountsFilled
<1>6. MarksFilled
    BY <1>1, <1>3 DEF MarksFilled
<1> QED BY <1>1, <1>2, <1>5, <1>6 DEF AccInv

\* A set of points to fill.
LEMMA LoadKeeps ==
    ASSUME AccInv, LoadPoints
    PROVE  AccInv'
<1>1. /\ accPc = "Started" /\ accPc' = "Filling"
      /\ allPoints' \in PointSets /\ pointsLeft' = allPoints'
      /\ accumulator' = accumulator /\ map' = map
    BY DEF LoadPoints
<1>2. Filled = {} /\ Filled' = {}
    BY <1>1 DEF Filled, AccInv
<1>3. AccTypeOK'
    BY <1>1, GridFacts DEF AccInv, AccTypeOK
<1>4. CountsFilled' /\ MarksFilled'
    BY <1>1, <1>2 DEF AccInv, CountsFilled, MarksFilled, Hits
<1> QED BY <1>1, <1>3, <1>4 DEF AccInv

\* A point is filled in both.
LEMMA FillPointKeeps ==
    ASSUME AccInv, NEW point \in pointsLeft, FillPoint(point)
    PROVE  AccInv'
<1> DEFINE hit(row, column) == IF IsHit(point, column, row) THEN 1 ELSE 0
           passed(row, column) == row \in RowsPassed(point, column)
           layer == point.layer
<1>1. /\ accPc' = accPc /\ allPoints' = allPoints /\ pointsLeft' = pointsLeft \ {point}
      /\ accumulator' = [row \in Rows |-> [column \in Columns |->
             accumulator[row][column] + hit(row, column)]]
      /\ map' = [map EXCEPT ![layer] = [row \in Rows |-> [column \in Columns |->
             IF passed(row, column) THEN 1 ELSE map[layer][row][column]]]]
    BY DEF FillPoint
<1>2. AccTypeOK /\ CountsFilled /\ MarksFilled
    BY DEF AccInv
<1>3. point \in LinePoint /\ layer \in 0 .. layers - 1
    BY <1>2 DEF AccTypeOK, LinePoint
<1>4. Filled' = Filled \cup {point} /\ point \notin Filled /\ IsFiniteSet(Filled)
    BY <1>1, <1>2, FS_Subset DEF Filled, AccTypeOK
<1>5. /\ \A row \in Rows, column \in Columns :
             /\ accumulator[row][column] \in Nat
             /\ accumulator'[row][column] = accumulator[row][column] + hit(row, column)
      /\ accumulator' \in Grid(Nat)
    <2>1. \A row \in Rows, column \in Columns : accumulator[row][column] \in Nat
        BY <1>2 DEF AccTypeOK, Grid
    <2>2. \A row \in Rows, column \in Columns : accumulator[row][column] + hit(row, column) \in Nat
        BY <2>1
    <2> HIDE DEF hit
    <2> QED BY <1>1, <2>1, <2>2 DEF Grid
<1>6. CountsFilled'
    <2> SUFFICES ASSUME NEW row \in Rows, NEW column \in Columns
                 PROVE  accumulator'[row][column] = Cardinality(Hits(Filled', row, column))
        BY DEF CountsFilled, Hits
    <2>1. accumulator[row][column] = Cardinality(Hits(Filled, row, column))
        BY <1>2 DEF CountsFilled
    <2>2. /\ IsFiniteSet(Hits(Filled, row, column)) /\ point \notin Hits(Filled, row, column)
          /\ Cardinality(Hits(Filled, row, column)) \in Nat
        BY <1>4, FS_Subset, FS_CardinalityType DEF Hits
    <2>3. CASE IsHit(point, column, row)
        <3>1. Hits(Filled', row, column) = Hits(Filled, row, column) \cup {point}
            BY <1>4, <2>3 DEF Hits
        <3>2. hit(row, column) = 1
            BY <2>3
        <3>3. Cardinality(Hits(Filled', row, column)) = Cardinality(Hits(Filled, row, column)) + 1
            BY <2>2, <3>1, FS_AddElement
        <3>4. accumulator'[row][column] = accumulator[row][column] + 1
            BY <1>5, <3>2
        <3> QED BY <2>1, <3>3, <3>4
    <2>4. CASE ~ IsHit(point, column, row)
        <3>1. Hits(Filled', row, column) = Hits(Filled, row, column)
            BY <1>4, <2>4 DEF Hits
        <3>2. hit(row, column) = 0
            BY <2>4
        <3> QED BY <1>5, <2>1, <2>2, <3>1, <3>2
    <2> QED BY <2>3, <2>4
<1> HIDE DEF hit, layer
<1>7. map \in [0 .. layers - 1 -> Grid({0, 1})]
    BY <1>2 DEF AccTypeOK
<1>8. \A l \in 0 .. layers - 1, row \in Rows, column \in Columns : map[l][row][column] \in {0, 1}
    BY <1>7 DEF Grid
<1>9. /\ map' \in [0 .. layers - 1 -> Grid({0, 1})]
      /\ \A l \in 0 .. layers - 1 : l # layer => map'[l] = map[l]
      /\ \A row \in Rows, column \in Columns :
             map'[layer][row][column] = IF passed(row, column) THEN 1 ELSE map[layer][row][column]
    <2> DEFINE new == [row \in Rows |-> [column \in Columns |->
                   IF passed(row, column) THEN 1 ELSE map[layer][row][column]]]
    <2> HIDE DEF passed
    <2>1. new \in Grid({0, 1})
        BY <1>3, <1>8 DEF Grid
    <2>2. \A row \in Rows, column \in Columns :
              new[row][column] = IF passed(row, column) THEN 1 ELSE map[layer][row][column]
        OBVIOUS
    <2>3. map' = [map EXCEPT ![layer] = new]
        BY <1>1
    <2> HIDE DEF new
    <2> QED BY <1>3, <1>7, <2>1, <2>2, <2>3
<1>10. MarksFilled'
    <2> SUFFICES ASSUME NEW l \in 0 .. layers - 1, NEW row \in Rows, NEW column \in Columns
                 PROVE  map'[l][row][column] = 1
                        <=> \E p \in Filled' : p.layer = l /\ row \in RowsPassed(p, column)
        BY DEF MarksFilled
    <2>1. map[l][row][column] = 1 <=> \E p \in Filled : p.layer = l /\ row \in RowsPassed(p, column)
        BY <1>2 DEF MarksFilled
    <2>2. CASE l # layer
        BY <1>4, <1>9, <2>1, <2>2 DEF layer
    <2>3. CASE l = layer
        <3>1. map'[l][row][column] = IF passed(row, column) THEN 1 ELSE map[l][row][column]
            BY <1>9, <2>3
        <3> QED BY <1>4, <2>1, <2>3, <3>1 DEF layer
    <2> QED BY <2>2, <2>3
<1>11. AccTypeOK'
    BY <1>1, <1>2, <1>5, <1>9 DEF AccTypeOK
<1>12. (accPc = "Started" => allPoints = {})'
    BY <1>1 DEF AccInv
<1> QED BY <1>6, <1>10, <1>11, <1>12 DEF AccInv

\* At the end every point has been filled.
LEMMA AccInvAgrees == AccInv => AccumulatorsAgree
<1> SUFFICES ASSUME AccInv, AccEnded PROVE
        /\ \A cell \in get_cells_above_threshold : accumulator[cell[1]][cell[2]] > threshold
        /\ \A column \in Columns :
               (/\ \A point \in allPoints : Inside(point, column)
                /\ \A p \in allPoints : \A q \in allPoints \ {p} : p.layer # q.layer)
               => \A row \in Rows : SummedMap(row, column) = accumulator[row][column]
    BY DEF AccumulatorsAgree
<1>1. AccTypeOK /\ CountsFilled /\ MarksFilled /\ Filled = allPoints
    BY DEF AccInv, AccEnded, Filled
<1> DEFINE Set(row, column) == {l \in DOMAIN map : map[l][row][column] = 1}
<1>2. ASSUME NEW row \in Rows, NEW column \in Columns
      PROVE  /\ IsFiniteSet(Set(row, column)) /\ Cardinality(Set(row, column)) \in Nat
             /\ IsFiniteSet(Hits(allPoints, row, column))
             /\ Cardinality(Hits(allPoints, row, column)) \in Nat
             /\ SummedMap(row, column) = Cardinality(Set(row, column))
             /\ accumulator[row][column] = Cardinality(Hits(allPoints, row, column))
    <2>1. DOMAIN map = 0 .. layers - 1 /\ IsFiniteSet(0 .. layers - 1)
        BY <1>1, GridFacts, FS_Interval DEF AccTypeOK
    <2>2. IsFiniteSet(Set(row, column)) /\ Cardinality(Set(row, column)) \in Nat
        BY <2>1, FS_Subset, FS_CardinalityType
    <2>3. /\ IsFiniteSet(Hits(allPoints, row, column))
          /\ Cardinality(Hits(allPoints, row, column)) \in Nat
        BY <1>1, FS_Subset, FS_CardinalityType DEF Hits, AccTypeOK
    <2> QED BY <1>1, <2>2, <2>3 DEF SummedMap, CountsFilled
<1>3. ASSUME NEW row \in Rows, NEW column \in Columns, NEW l \in Set(row, column)
      PROVE  \E p \in Hits(allPoints, row, column) : p.layer = l
    <2>1. l \in 0 .. layers - 1 /\ map[l][row][column] = 1
        BY <1>1 DEF AccTypeOK
    <2>2. PICK p \in allPoints : p.layer = l /\ row \in RowsPassed(p, column)
        BY <1>1, <2>1 DEF MarksFilled
    <2>3. IsHit(p, column, row)
        BY <1>1, <2>2, PassedIsHit DEF AccTypeOK
    <2> QED BY <2>2, <2>3 DEF Hits
<1>4. ASSUME NEW row \in Rows, NEW column \in Columns
      PROVE  SummedMap(row, column) <= accumulator[row][column]
    <2> DEFINE S == Set(row, column)  T == Hits(allPoints, row, column)
               f == [l \in S |-> CHOOSE p \in T : p.layer = l]
    <2>1. \A l \in S : f[l] \in T /\ f[l].layer = l
        BY <1>3
    <2>2. f \in [S -> T]
        BY <2>1
    <2>3. IsFiniteSet(S) /\ IsFiniteSet(T) /\ Cardinality(S) \in Nat /\ Cardinality(T) \in Nat
        BY <1>2
    <2> HIDE DEF S, T, f
    <2>4. ~ (Cardinality(T) < Cardinality(S))
        BY <2>1, <2>2, <2>3, FS_PigeonHole
    <2> QED BY <1>2, <2>3, <2>4 DEF S, T
<1>5. ASSUME NEW column \in Columns, NEW row \in Rows,
             \A point \in allPoints : Inside(point, column),
             \A p \in allPoints : \A q \in allPoints \ {p} : p.layer # q.layer
      PROVE  accumulator[row][column] <= SummedMap(row, column)
    <2> DEFINE S == Set(row, column)  T == Hits(allPoints, row, column)
               f == [p \in T |-> p.layer]
    <2>1. ASSUME NEW p \in T PROVE p.layer \in S
        <3>1. p \in allPoints /\ IsHit(p, column, row) /\ p \in LinePoint
            BY <1>1 DEF Hits, AccTypeOK
        <3>2. row \in RowsPassed(p, column)
            BY <1>5, <3>1, HitIsPassed
        <3>3. p.layer \in 0 .. layers - 1
            BY <3>1 DEF LinePoint
        <3> QED BY <1>1, <3>1, <3>2, <3>3 DEF MarksFilled, AccTypeOK
    <2>2. f \in [T -> S]
        BY <2>1
    <2>3. \A p, q \in T : p # q => f[p] # f[q]
        BY <1>5 DEF Hits
    <2>4. IsFiniteSet(S) /\ IsFiniteSet(T) /\ Cardinality(S) \in Nat /\ Cardinality(T) \in Nat
        BY <1>2
    <2> HIDE DEF S, T, f
    <2>5. ~ (Cardinality(S) < Cardinality(T))
        BY <2>2, <2>3, <2>4, FS_PigeonHole
    <2> QED BY <1>2, <2>4, <2>5 DEF S, T
<1>6. ASSUME NEW cell \in get_cells_above_threshold
      PROVE  accumulator[cell[1]][cell[2]] > threshold
    <2>1. /\ cell[1] \in Rows /\ cell[2] \in Columns
          /\ SummedMap(cell[1], cell[2]) > threshold
        BY DEF get_cells_above_threshold
    <2> DEFINE s == SummedMap(cell[1], cell[2])  a == accumulator[cell[1]][cell[2]]
    <2>2. s \in Nat /\ a \in Nat /\ s <= a /\ s > threshold
        BY <1>2, <1>4, <2>1
    <2> HIDE DEF s, a
    <2>3. a > threshold
        BY <2>2, GridFacts
    <2> QED BY <2>3 DEF a
<1>7. ASSUME NEW column \in Columns, NEW row \in Rows,
             \A point \in allPoints : Inside(point, column),
             \A p \in allPoints : \A q \in allPoints \ {p} : p.layer # q.layer
      PROVE  SummedMap(row, column) = accumulator[row][column]
    <2> DEFINE s == SummedMap(row, column)  a == accumulator[row][column]
    <2>1. s \in Nat /\ a \in Nat /\ s <= a /\ a <= s
        BY <1>2, <1>4, <1>5, <1>7
    <2> HIDE DEF s, a
    <2>2. s = a
        BY <2>1
    <2> QED BY <2>2 DEF s, a
<1> QED BY <1>6, <1>7

\* Every step keeps the invariant.
LEMMA AccNextKeeps == AccInv /\ [AccNext]_accVars => AccInv'
<1> SUFFICES ASSUME AccInv, [AccNext]_accVars PROVE AccInv'
    OBVIOUS
<1>1. CASE UNCHANGED accVars
    BY <1>1 DEF accVars, AccInv, AccTypeOK, CountsFilled, MarksFilled, Filled, Hits
<1>2. CASE LoadPoints
    BY <1>2, LoadKeeps
<1>3. ASSUME NEW point \in pointsLeft, FillPoint(point) PROVE AccInv'
    BY <1>3, FillPointKeeps
<1> QED BY <1>1, <1>2, <1>3 DEF AccNext

\* Whatever order the points are filled in, a cell 2d-acc reports has more lines than the
\* threshold by the naive count, and the two counts are equal in every column that all
\* lines pass inside the grid, off the corners of its cells, one line to a layer.
THEOREM AccumulatorsAlwaysAgree == AccSpec => []AccumulatorsAgree
<1>1. AccInit => AccInv
    BY AccInitInv
<1>2. AccInv /\ [AccNext]_accVars => AccInv'
    BY AccNextKeeps
<1>3. AccInv => AccumulatorsAgree
    BY AccInvAgrees
<1> QED BY <1>1, <1>2, <1>3, PTL DEF AccSpec

\* 3d-acc.py gives every radius to exactly one thread, however many threads and radii there are.
THEOREM EveryRadiusHasOneThread ==
    ASSUME NEW r_len \in Nat, NEW n \in Nat \ {0}, NEW k \in 0 .. r_len - 1
    PROVE  Cardinality({i \in 0 .. n - 1 : k \in radius_list(r_len, n, i)}) = 1
<1> DEFINE one == (r_len + n - 1) \div n  q == k \div one
<1>1. one \in Int /\ r_len + n - 1 = n * one + ((r_len + n - 1) % n) /\ (r_len + n - 1) % n \in 0 .. n - 1
    BY Z3
<1> HIDE DEF one
<1>2. one \in Nat \ {0}
    <2>1. n * one > 0
        BY <1>1
    <2> QED BY <1>1, <2>1, Z3
<1>3. q \in Int /\ k = one * q + (k % one) /\ k % one \in 0 .. one - 1
    BY <1>2, Z3
<1> HIDE DEF q
<1>4. q >= 0 /\ k < (q + 1) * one /\ q * one <= k
    <2>1. one * q > -one
        BY <1>2, <1>3, Z3
    <2>2. q > -1
        BY <1>2, <1>3, <2>1, Z3
    <2>3. q * one = one * q /\ (q + 1) * one = one * q + one
        BY <1>2, <1>3, Z3
    <2> QED BY <1>2, <1>3, <2>2, <2>3, Z3
<1>5. q < n
    <2>1. ASSUME q >= n PROVE FALSE
        <3>1. q * one >= n * one
            BY <1>2, <1>3, <2>1, Z3
        <3>2. n * one >= r_len
            BY <1>1
        <3> QED BY <1>2, <1>3, <1>4, <3>1, <3>2, Z3
    <2> QED BY <1>3, <2>1
<1>6. ASSUME NEW i \in 0 .. n - 1, i * one <= k, k < (i + 1) * one PROVE i = q
    <2>1. ASSUME i < q PROVE FALSE
        <3>1. (i + 1) * one <= q * one
            BY <1>2, <1>3, <2>1, Z3
        <3> QED BY <1>2, <1>3, <1>4, <1>6, <3>1, Z3
    <2>2. ASSUME q < i PROVE FALSE
        <3>1. (q + 1) * one <= i * one
            BY <1>2, <1>3, <2>2, Z3
        <3> QED BY <1>2, <1>3, <1>4, <1>6, <3>1, Z3
    <2> QED BY <1>3, <2>1, <2>2
<1>7. \A i \in 0 .. n - 1 : k \in radius_list(r_len, n, i) <=> i * one <= k /\ k < (i + 1) * one
    BY DEF radius_list, one
<1>8. {i \in 0 .. n - 1 : k \in radius_list(r_len, n, i)} = {q}
    <2>1. q \in 0 .. n - 1
        BY <1>3, <1>4, <1>5
    <2> QED BY <1>4, <1>6, <1>7, <2>1, Zenon
<1> QED BY <1>8, FS_Singleton

=============================================================================
