----------------------- MODULE AdaptiveHoughGpuKernel -----------------------
(***************************************************************************)
(* AdaptiveHoughGpuKernel: for each wedge of the detector, the accumulator *)
(* is searched depth first.  A section with too few lines is dropped, a    *)
(* large one is split, a small one is a cell that may become a solution.   *)
(* The methods are those of HS/src/AdaptiveHoughGpuKernel.cpp.  At this    *)
(* commit the body of its operator() is commented out; the loop over the   *)
(* wedges is the one of old/src/AdaptiveHoughGpuKernel.cpp.  With          *)
(* ADAPTIVE_KERNEL_INITIAL_DIVISIONS = 1 there is one work item.           *)
(***************************************************************************)
EXTENDS CrossingsSorter, SequencesExt

CONSTANTS
    Events,             \* the sequences of points a kernel may be given
    Precisions,         \* the pairs [x, pt] of ACC_X_PRECISION, ACC_PT_PRECISION
    INVALID_PHI,        \* of a slot that is not taken, doubled as the phi of a solution
    INVALID,            \* what the eta, nhits and q of such a slot are
    N_PHI_WEDGE, N_ETA_WEDGE, ETA_WEDGE_MIN, ETA_WEDGE_MAX,
    wedge_z_center, wedge_z_width, excess_wedge_phi_width, excess_wedge_eta_width,
    MAX_SECTIONS_BUFFER_SIZE,
    MaxSolutions,       \* the size of the buffer of solutions
    OrderCheckLevel,    \* THRESHOLD_DIVISION_LEVEL_COUNT_HITS_ORDER_CHECK
    MIN_COUNT_CHANGES,
    ThresholdAngle,     \* 1 / THRESHOLD_PT_THRESHOLD
    LOW_PT_THRESHOLD, HIGH_PT_THRESHOLD,
    PhiSpread,          \* N_SIGMA_PHI * sd_phi
    N_SIGMA_GAUSS,
    STDEV_CORRECTION,   \* as a pair <<numerator, denominator>>
    MIN_LINES_GAUSS,
    MinQOverPt,         \* 1 / MAX_PT
    MaxDeltaR, MaxDeltaPhi

ASSUME KernelAssumption ==
    /\ N_PHI_WEDGE \in Nat \ {0} /\ N_ETA_WEDGE \in Nat \ {0}
    /\ LOW_PT_THRESHOLD \in Nat \ {0} /\ HIGH_PT_THRESHOLD \in Nat \ {0}
    /\ MAX_SECTIONS_BUFFER_SIZE \in Nat \ {0}
    /\ MaxSolutions \in Nat
    /\ Precisions \subseteq [x : Nat, pt : Nat]
    /\ excess_wedge_phi_width \in Nat
    /\ Q_OVER_PT_BEGIN = -Q_OVER_PT_END
    /\ MinQOverPt \in Nat \ {0}
    /\ INVALID_PHI \in Int /\ INVALID_PHI < 2 * (PHI_BEGIN - excess_wedge_phi_width)
    /\ {wedge_z_center, wedge_z_width, ETA_WEDGE_MIN, ETA_WEDGE_MAX} \subseteq Int
    /\ wedge_z_width > Abs(wedge_z_center) /\ excess_wedge_eta_width \in Nat
    /\ \A event \in Events : event \in Seq([r : Nat \ {0}, phi : -PI .. PI, z : Int])

VARIABLES
    points,         \* rs, phis, zs
    precision,      \* the two precisions of opts
    assures,        \* does ASSURE_THAT throw (the build without SYCL)?
    kernelPc,       \* "Called", "Searching", "Returned", "Aborted"
    wedge,          \* the wedges begun
    wedgePoints,    \* rs_wedge, phis_wedge, zs_wedge
    sections,       \* the stack, sectionsBufferSize its length
    solutions,      \* the output buffer
    closed,         \* ghost: what became of the sections of this wedge
    accepted        \* ghost: the first MaxSolutions curved cells given to addSolution

kernelInput == <<points, precision, assures>>
kernelVars == <<kernelInput, kernelPc, wedge, wedgePoints, sections, solutions, closed, accepted>>

----------------------------------------------------------------------------
\* The wedges of operator(), numbered from 0.
PhiReg(k) ==
    LET width == (PHI_END - PHI_BEGIN) \div N_PHI_WEDGE
    IN  Reg(PHI_BEGIN + width * (k \div N_ETA_WEDGE) + width \div 2,
            width \div 2 + excess_wedge_phi_width)

EtaReg(k) ==
    LET width == (ETA_WEDGE_MAX - ETA_WEDGE_MIN) \div N_ETA_WEDGE
    IN  Reg(ETA_WEDGE_MIN + width \div 2 + width * (k % N_ETA_WEDGE),
            width \div 2 + excess_wedge_eta_width)

WedgeNumber(k) == WedgeOf(PhiReg(k), Reg(wedge_z_center, wedge_z_width), EtaReg(k))
Wedges == 0 .. N_PHI_WEDGE * N_ETA_WEDGE - 1

\* Mutant: points are moved at one end of the range only.
MovedPhiBelowOnly(w, phi) ==
    IF phi_min(w) < -PI /\ phi > phi_max(w) THEN phi - 2 * PI ELSE phi

\* A wedge across +-PI has the angles of one side moved by 2 PI.
MovedPhi(w, phi) ==
    IF phi_min(w) < -PI /\ phi > phi_max(w) THEN phi - 2 * PI
    ELSE IF phi_max(w) > PI /\ phi < phi_min(w) THEN phi + 2 * PI
    ELSE phi

PointsOfWedge(k) ==
    LET w == WedgeNumber(k)
        inside == SelectSeq(points, LAMBDA p : in_wedge_r_phi_z(w, p.r, p.phi, p.z))
    IN  [i \in DOMAIN inside |-> [inside[i] EXCEPT !.phi = MovedPhi(w, @)]]

\* The part of the accumulator one wedge searches.
InitialSection(k) ==
    Section(2 * PhiReg(k).width, Q_OVER_PT_END - Q_OVER_PT_BEGIN,
            PhiReg(k).center - PhiReg(k).width, Q_OVER_PT_BEGIN, 0)

----------------------------------------------------------------------------
Intercept(p) == -(Slope(p) * p.phi)

\* The indices of the first MAX_COUNT_PER_SECTION lines inside, of the points that qualify.
FirstLines(s, qualifies(_)) ==
    LET hits == SelectSeq([i \in DOMAIN wedgePoints |-> i],
                    LAMBDA i : /\ qualifies(wedgePoints[i])
                               /\ isLineInside(s, Slope(wedgePoints[i]), Intercept(wedgePoints[i])))
    IN  SubSeq(hits, 1, IF Len(hits) < MAX_COUNT_PER_SECTION THEN Len(hits) ELSE MAX_COUNT_PER_SECTION)

\* A section and the number of lines a count returns for it.
Counted(s, indices, counts, number) ==
    [section |-> [s EXCEPT !.indices = indices, !.counts = counts], count |-> number]

countHits(s) ==
    LET hits == FirstLines(s, LAMBDA p : TRUE)
    IN  Counted(s, hits, CountsOf(Len(hits)), Len(hits))

\* The x of the section is what the code compares, as if it were a momentum.
Threshold(s) ==
    IF Abs(s.xBegin) > ThresholdAngle THEN LOW_PT_THRESHOLD ELSE HIGH_PT_THRESHOLD

\* Lines far from the mean angle are only subtracted from the counter, which
\* also bounds the loop.
WithoutOutliers(hits) ==
    LET n == Len(hits)
        sum == Sum([i \in 1 .. n |-> wedgePoints[hits[i]].phi])
        outlies(i) == Abs(n * wedgePoints[hits[i]].phi - sum) > PhiSpread * n
        counter[i \in 0 .. n] ==
            IF i = 0 THEN n
            ELSE IF i <= counter[i - 1] /\ outlies(i) THEN counter[i - 1] - 1
            ELSE counter[i - 1]
    IN  counter[n]

\* The number of places that differ in the orders in which lines enter and leave.
CountChanges(s, hits, counter) ==
    LET line(i) == wedgePoints[hits[i]]
        ids == [i \in 1 .. counter |-> i]
        acc == [i \in 1 .. counter |-> distACC(s, Slope(line(i)), Intercept(line(i)))]
        cc == [i \in 1 .. counter |-> distCC(s, Slope(line(i)), Intercept(line(i)))]
    IN  count(sort(acc, ids), sort(cc, ids))

countHits_checkOrder(s) ==
    LET hits == FirstLines(s, LAMBDA p : isPhiOnTheRightSide(s, p.phi))
        counter == WithoutOutliers(hits)
    IN  IF counter < Threshold(s) THEN Counted(s, hits, s.counts, 0)
        ELSE IF CountChanges(s, hits, counter) < MIN_COUNT_CHANGES THEN Counted(s, hits, 0, 0)
        ELSE Counted(s, hits, CountsOf(counter), counter)

\* Mutant: the order of crossings is checked at every level.
CountAtEveryLevel(s) ==
    IF countHits(s).count < MAX_COUNT_PER_SECTION
    THEN countHits_checkOrder(countHits(s).section)
    ELSE countHits(s)

\* What fillAccumulatorSection counts in a section it has popped.
CountOf(s) ==
    LET hits == countHits(s)
    IN  IF s.divisionLevel >= OrderCheckLevel /\ hits.count < MAX_COUNT_PER_SECTION
        THEN countHits_checkOrder(hits.section)
        ELSE hits

----------------------------------------------------------------------------
\* isPeakWithinCell.

\* The pairs of a section's lines in the order of its loops.
LinePairs(n) ==
    LET upTo[m \in 0 .. n] ==
            IF m = 0 THEN <<>> ELSE upTo[m - 1] \o [k \in 1 .. m - 1 |-> <<m, k>>]
    IN  upTo[n]

REJECTED == -100

\* Of two lines of about the same radius and not the same angle one is rejected.
RejectOne(s, indices, main, secondary) ==
    LET one == wedgePoints[indices[main]]
        other == wedgePoints[indices[secondary]]
    IN  IF Abs(one.r - other.r) < MaxDeltaR /\ phi_dist(one.phi, other.phi) > MaxDeltaPhi
        THEN IF NearerToSectionCenter(s, one, other)
             THEN [indices EXCEPT ![main] = REJECTED]
             ELSE [indices EXCEPT ![secondary] = REJECTED]
        ELSE indices

WithoutParallels(s) ==
    LET pairs == LinePairs(returnCounter(s))
        after[k \in 0 .. Len(pairs)] ==
            IF k = 0 THEN s.indices
            ELSE LET indices == after[k - 1]
                     main == pairs[k][1]
                     secondary == pairs[k][2]
                 IN  IF indices[main] < 0 \/ indices[secondary] < 0 THEN indices
                     ELSE RejectOne(s, indices, main, secondary)
    IN  after[Len(pairs)]

\* The crossing points of the pairs that may be of one track.  The test of the
\* curvature is given the radius of the second point where it expects its angle.
Crossings(s) ==
    LET first(pair) == wedgePoints[s.indices[pair[1]]]
        second(pair) == wedgePoints[s.indices[pair[2]]]
        taken == SelectSeq(LinePairs(returnCounter(s)), LAMBDA pair :
                     /\ isCurvatureRight(first(pair).r, first(pair).phi,
                                         second(pair).r, RadiusAsAngle * second(pair).r)
                     /\ isIntersectionCloseEnough(first(pair), second(pair)))
    IN  [k \in DOMAIN taken |->
            [phi |-> PhiIntersection(first(taken[k]), second(taken[k])),
             qOverPt |-> qOverPtIntersection(first(taken[k]), second(taken[k]))]]

Phis(crossings) == [k \in DOMAIN crossings |-> crossings[k].phi]
QOverPts(crossings) == [k \in DOMAIN crossings |-> crossings[k].qOverPt]

\* Strictly within N_SIGMA_GAUSS standard deviations of the mean.
IsWithinSigmas(x, values) ==
    LET off == Len(values) * x - Total(values)
    IN  /\ BelowSpread(off, N_SIGMA_GAUSS, Spread(values))
        /\ BelowSpread(-off, N_SIGMA_GAUSS, Spread(values))

\* Crossings far from the mean are removed until none is.
Concentrated(crossings) ==
    LET keep(c) == SelectSeq(c, LAMBDA x : /\ IsWithinSigmas(x.phi, Phis(c))
                                           /\ IsWithinSigmas(x.qOverPt, QOverPts(c)))
        after[k \in 0 .. Len(crossings)] == IF k = 0 THEN crossings ELSE keep(after[k - 1])
    IN  after[Len(crossings)]

\* The mean is in the interval, widened by STDEV_CORRECTION standard deviations.
IsMeanWithin(values, begin, end) ==
    LET n == Len(values)
        below(x) == BelowSpread(STDEV_CORRECTION[2] * x, STDEV_CORRECTION[1], Spread(values))
    IN  below(n * Scale * begin - Total(values)) /\ below(Total(values) - n * Scale * end)

HasPeak(s) ==
    LET crossings == Concentrated(Crossings(s))
    IN  /\ Len(crossings) > MIN_LINES_GAUSS
        /\ IsMeanWithin(Phis(crossings), s.xBegin, s.xBegin + s.xSize)
        /\ IsMeanWithin(QOverPts(crossings), s.yBegin, s.yBegin + s.ySize)

MaxPairs == (MAX_COUNT_PER_SECTION * (MAX_COUNT_PER_SECTION - 1)) \div 2

\* "throws" is the assertion that the pairs are fewer than the array has places.
DeterminedOutcomes(s) ==
    IF assures /\ Len(Crossings(s)) >= MaxPairs THEN {"throws"}
    ELSE IF HasPeak(s) THEN {"peak"} ELSE {"flat"}

\* Where lines leave the accumulator the code works on a copy of the angles up
\* to, not including, the index of the last line: with two lines or more it
\* reads what it has not written, and the outcome is arbitrary.
RotatedOutcomes(s) ==
    IF returnCounter(s) < 2 THEN {"flat"}
    ELSE {"peak", "flat"} \cup
         IF assures /\ returnCounter(s) = MAX_COUNT_PER_SECTION THEN {"throws"} ELSE {}

\* areAllSectionLinesInsideAccumulator looks up the rejected index -100: which
\* branch is taken then is arbitrary too.
PeakOutcomes(s) ==
    IF \E k \in 1 .. returnCounter(s) : WithoutParallels(s)[k] = REJECTED
    THEN RotatedOutcomes(s)
    ELSE IF areAllSectionLinesInsideAccumulator(s, wedgePoints)
    THEN DeterminedOutcomes(s)
    ELSE RotatedOutcomes(s)

----------------------------------------------------------------------------
\* addSolution.
NoSolution ==
    [pt |-> <<0, 1>>, phi |-> INVALID_PHI, eta |-> INVALID, nhits |-> INVALID, q |-> INVALID]

IsFreeSlot(k) == solutions[k].phi = INVALID_PHI
FreeSlots == {k \in 1 .. MaxSolutions : IsFreeSlot(k)}
FirstFreeSlot == CHOOSE k \in FreeSlots : \A j \in FreeSlots : k <= j

\* pt is 1 / |q/pt|; q/pt and phi are those of the centre of the cell, doubled.
SolutionOf(s) ==
    [pt |-> <<1, Abs(2 * s.yBegin + s.ySize)>>, phi |-> 2 * s.xBegin + s.xSize,
     eta |-> EtaReg(wedge - 1).center, nhits |-> s.counts,
     q |-> IF 2 * s.yBegin + s.ySize < 0 THEN -1 ELSE 1]

IsStraight(s) == Abs(2 * s.yBegin + s.ySize) < 2 * MinQOverPt

\* Mutant: the last slot is taken when there is no free one.
AddSolutionOverLast(s) ==
    /\ solutions' = IF IsStraight(s) THEN solutions
                    ELSE [solutions EXCEPT ![IF FreeSlots = {} THEN MaxSolutions ELSE FirstFreeSlot]
                              = SolutionOf(s)]
    /\ UNCHANGED kernelPc

addSolution(s) ==
    \/ IsStraight(s) /\ UNCHANGED <<solutions, kernelPc>>
    \/ /\ ~IsStraight(s) /\ FreeSlots # {}
       /\ solutions' = [solutions EXCEPT ![FirstFreeSlot] = SolutionOf(s)]
       /\ UNCHANGED kernelPc
    \/ /\ ~IsStraight(s) /\ FreeSlots = {}
       /\ kernelPc' = IF assures THEN "Aborted" ELSE kernelPc
       /\ UNCHANGED solutions

----------------------------------------------------------------------------
\* fillAccumulatorSection, by what becomes of the section on top of the stack.
Close(s, why) ==
    closed' = closed \cup {[xBegin |-> s.xBegin, yBegin |-> s.yBegin,
                            xSize |-> s.xSize, ySize |-> s.ySize, why |-> why]}

Enough(s) == CountOf(s).count >= Threshold(s)
Wide(s) == s.xSize > precision.x
High(s) == s.ySize > precision.pt

Reject(s) ==
    /\ ~Enough(s)
    /\ Close(s, IF countHits(s).count < Threshold(s) THEN "few" ELSE "parallel")
    /\ sections' = Front(sections)
    /\ UNCHANGED <<kernelPc, solutions, accepted>>

\* Mutant: the parts come on top of the section they are parts of.
PushKeepingSection(parts) ==
    LET fits == Len(sections) - 1 + Len(parts) - 1 < MAX_SECTIONS_BUFFER_SIZE
    IN  /\ kernelPc' = IF assures /\ ~fits THEN "Aborted" ELSE kernelPc
        /\ sections' = sections \o IF assures /\ ~fits THEN <<>> ELSE parts
        /\ UNCHANGED <<solutions, closed, accepted>>

\* The parts replace the section on the stack, unless ASSURE_THAT finds no room.
Push(parts) ==
    LET fits == Len(sections) - 1 + Len(parts) - 1 < MAX_SECTIONS_BUFFER_SIZE
    IN  /\ kernelPc' = IF assures /\ ~fits THEN "Aborted" ELSE kernelPc
        /\ sections' = Front(sections) \o IF assures /\ ~fits THEN <<>> ELSE parts
        /\ UNCHANGED <<solutions, closed, accepted>>

SplitIntoFour(s) ==
    /\ Enough(s) /\ Wide(s) /\ High(s)
    /\ Push(<<bottomLeft(s, 2, 2), topLeft(s, 2, 2), topRight(s, 2, 2), bottomRight(s, 2, 2)>>)

SplitInX(s) == Enough(s) /\ Wide(s) /\ ~High(s) /\ Push(<<left(s), right(s)>>)
SplitInY(s) == Enough(s) /\ ~Wide(s) /\ High(s) /\ Push(<<bottom(s), top(s)>>)

Accept(s) ==
    accepted' = IF IsStraight(s) \/ Len(accepted) = MaxSolutions THEN accepted
                ELSE Append(accepted, s)

\* USE_GAUSS_FILTERING is set.
ExamineCell(s) ==
    /\ Enough(s) /\ ~Wide(s) /\ ~High(s)
    /\ Close(s, "cell")
    /\ sections' = Front(sections)
    /\ \E outcome \in PeakOutcomes(CountOf(s).section) :
           \/ /\ outcome = "flat"
              /\ UNCHANGED <<kernelPc, solutions, accepted>>
           \/ /\ outcome = "peak"
              /\ Accept(s)
              /\ addSolution(CountOf(s).section)
           \/ /\ outcome = "throws"
              /\ kernelPc' = "Aborted"
              /\ UNCHANGED <<solutions, accepted>>

fillAccumulatorSection ==
    /\ kernelPc = "Searching" /\ sections # <<>>
    /\ LET s == Last(sections)
       IN  Reject(s) \/ SplitIntoFour(s) \/ SplitInX(s) \/ SplitInY(s) \/ ExamineCell(s)
    /\ UNCHANGED <<kernelInput, wedge, wedgePoints>>

----------------------------------------------------------------------------
KernelInit ==
    /\ points = <<>> /\ precision = [x |-> 0, pt |-> 0] /\ assures = FALSE
    /\ kernelPc = "Called"
    /\ wedge = 0 /\ wedgePoints = <<>> /\ sections = <<>>
    /\ solutions = [k \in 1 .. MaxSolutions |-> NoSolution]
    /\ closed = {} /\ accepted = <<>>

\* The kernel starts on an event, with the options of the configuration.
CallKernel ==
    /\ kernelPc = "Called"
    /\ points' \in Events /\ precision' \in Precisions /\ assures' \in BOOLEAN
    /\ kernelPc' = "Searching"
    /\ UNCHANGED <<wedge, wedgePoints, sections, solutions, closed, accepted>>

\* The next wedge; an empty one is skipped.
EnterWedge ==
    /\ kernelPc = "Searching" /\ sections = <<>> /\ wedge \in Wedges
    /\ wedge' = wedge + 1
    /\ wedgePoints' = PointsOfWedge(wedge)
    /\ sections' = IF wedgePoints' = <<>> THEN <<>> ELSE <<InitialSection(wedge)>>
    /\ closed' = {}
    /\ UNCHANGED <<kernelInput, kernelPc, solutions, accepted>>

LastWedgeDone ==
    /\ kernelPc = "Searching" /\ sections = <<>> /\ wedge \notin Wedges
    /\ kernelPc' = "Returned"
    /\ UNCHANGED <<kernelInput, wedge, wedgePoints, sections, solutions, closed, accepted>>

KernelStep == EnterWedge \/ fillAccumulatorSection \/ LastWedgeDone
KernelEnded == kernelPc \in {"Returned", "Aborted"}
KernelNext == CallKernel \/ KernelStep \/ (KernelEnded /\ UNCHANGED kernelVars)
KernelSpec == KernelInit /\ [][KernelNext]_kernelVars

\* The kernel runs: weak fairness of KernelStep, with its enabling condition
\* written out, since it can always be taken while the kernel is searching.
KernelRuns == <>[](kernelPc = "Searching") => []<><<KernelStep>>_kernelVars
FairKernelSpec == KernelSpec /\ KernelRuns

----------------------------------------------------------------------------
WedgeSearched == kernelPc = "Searching" /\ wedgePoints # <<>> /\ sections = <<>>

\* The tile has the unit square at (x, y).
Covers(c, x, y) ==
    /\ c.xBegin <= x /\ x < c.xBegin + c.xSize
    /\ c.yBegin <= y /\ y < c.yBegin + c.ySize

Overlap(c, d) ==
    /\ c.xBegin < d.xBegin + d.xSize /\ d.xBegin < c.xBegin + c.xSize
    /\ c.yBegin < d.yBegin + d.ySize /\ d.yBegin < c.yBegin + c.ySize

\* When a wedge has been searched, each place of its part of the accumulator was
\* looked at once: the sections that fillAccumulatorSection dropped or examined
\* lie in that part, do not overlap and fill it.
SearchTilesRegion ==
    WedgeSearched =>
        LET region == InitialSection(wedge - 1)
        IN  /\ \A c \in closed : \A d \in closed \ {c} : ~Overlap(c, d)
            /\ \A c \in closed :
                   /\ c.xBegin >= region.xBegin /\ c.xBegin + c.xSize <= region.xBegin + region.xSize
                   /\ c.yBegin >= region.yBegin /\ c.yBegin + c.ySize <= region.yBegin + region.ySize
            /\ \A x \in region.xBegin .. region.xBegin + region.xSize - 1 :
                   \A y \in region.yBegin .. region.yBegin + region.ySize - 1 :
                       \E c \in closed : Covers(c, x, y)

\* The stack of sections never grows past its array, which the build with SYCL
\* does not check.
SectionsFitBuffer == Len(sections) <= MAX_SECTIONS_BUFFER_SIZE

\* The cells at which the search of this wedge may end.
CellSize(full, limit) == CHOOSE size \in 1 .. full :
    /\ size <= limit
    /\ \E n \in 0 .. 10 : full = size * 2^n /\ (n = 0 \/ 2 * size > limit)

CellsOf(region) ==
    LET w == CellSize(region.xSize, precision.x)
        h == CellSize(region.ySize, precision.pt)
    IN  {Section(w, h, region.xBegin + w * i, region.yBegin + h * j, 0) :
            i \in 0 .. (region.xSize \div w) - 1, j \in 0 .. (region.ySize \div h) - 1}

\* The line of p is the steeper one and crosses that of q in the interior of the cell;
\* phi and q/pt of the crossing point are multiplied by the difference of the slopes.
SteeperCrosses(c, p, q) ==
    LET slope == Slope(p) - Slope(q)
        phi == Intercept(q) - Intercept(p)
        qOverPt == Slope(p) * Intercept(q) - Slope(q) * Intercept(p)
    IN  /\ slope > 0
        /\ slope * c.xBegin < phi /\ phi < slope * (c.xBegin + c.xSize)
        /\ slope * c.yBegin < qOverPt /\ qOverPt < slope * (c.yBegin + c.ySize)

CrossInside(c, p, q) == SteeperCrosses(c, p, q) \/ SteeperCrosses(c, q, p)

\* What the whole search is for: where more than MIN_COUNT_CHANGES points (and at
\* least the higher threshold) have lines that cross each other inside a cell, on
\* the side a track of that charge comes from, the cell reaches isPeakWithinCell.
\* No section above it is dropped, and the check of the order of crossings, with
\* its sorts, lets it pass.
CandidatesAreExamined ==
    WedgeSearched =>
        \A c \in CellsOf(InitialSection(wedge - 1)) :
            LET hits == {i \in DOMAIN wedgePoints :
                            /\ isPhiOnTheRightSide(c, wedgePoints[i].phi)
                            /\ isLineInside(c, Slope(wedgePoints[i]), Intercept(wedgePoints[i]))}
            IN  (/\ Cardinality(hits) > MIN_COUNT_CHANGES
                 /\ Cardinality(hits) >= HIGH_PT_THRESHOLD
                 /\ \A i \in hits : \A j \in hits \ {i} :
                        CrossInside(c, wedgePoints[i], wedgePoints[j]))
                => \E d \in closed : /\ d.why = "cell"
                                     /\ d.xBegin = c.xBegin /\ d.yBegin = c.yBegin

\* The buffer of solutions holds the cells that were accepted and have enough
\* curvature, in the order of the search, as many as there is room for: no cell
\* is skipped, written twice or over another.
SlotsHoldAcceptedCells ==
    \A k \in 1 .. MaxSolutions :
        IF k > Len(accepted) THEN IsFreeSlot(k)
        ELSE /\ ~IsFreeSlot(k)
             /\ solutions[k].phi = 2 * accepted[k].xBegin + accepted[k].xSize
             /\ solutions[k].pt[2] = Abs(2 * accepted[k].yBegin + accepted[k].ySize)
             /\ solutions[k].q = 1 <=> accepted[k].yBegin >= 0

\* Every point within the range of phi and eta is given to some wedge, and every
\* wedge that has it searches an angle of it that lies in the wedge.
EveryPointIsSearched ==
    kernelPc = "Searching" /\ wedge = 0 =>
        \A i \in DOMAIN points :
            LET p == points[i]
                has(k) == in_wedge_r_phi_z(WedgeNumber(k), p.r, p.phi, p.z)
            IN  /\ (Tilt * p.z >= p.r * ETA_WEDGE_MIN /\ Tilt * p.z <= p.r * ETA_WEDGE_MAX)
                       => \E k \in Wedges : has(k)
                /\ \A k \in Wedges : has(k) =>
                       LET phi == MovedPhi(WedgeNumber(k), p.phi)
                       IN  /\ phi \in phi_min(WedgeNumber(k)) .. phi_max(WedgeNumber(k))
                           /\ phi_wrap(phi) = phi_wrap(p.phi)

\* operator() returns (or, in the build with assertions, throws).
SearchEnds == (kernelPc = "Searching") ~> KernelEnded

=============================================================================
