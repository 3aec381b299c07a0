--------------------------- MODULE CrossingsSorter ---------------------------
(***************************************************************************)
(* CrossingsSorter (HS/include/HelixSolver/Sorting.h): how the order in    *)
(* which lines cross the border of a section, the points where pairs of    *)
(* them cross, and their spread are computed.  `wp` is the wedge's arrays  *)
(* rs_wedge, phis_wedge, zs_wedge as one sequence of points.  Crossing     *)
(* points are rational; they are kept in 1/Scale.                          *)
(***************************************************************************)
EXTENDS AccumulatorSection, Wedge, FiniteSets, Functions

CONSTANTS
    PHI_BEGIN, PHI_END, Q_OVER_PT_BEGIN, Q_OVER_PT_END,
    Scale,              \* a common multiple of the differences of two radii
    RadiusAsAngle,      \* a unit of radius, as the bare number the code compares with angles
    CorrectionFactor    \* correction_factor of isCurvatureRight

ASSUME SorterAssumption ==
    /\ {PHI_BEGIN, PHI_END, Q_OVER_PT_BEGIN, Q_OVER_PT_END} \subseteq Int
    /\ PHI_BEGIN < PHI_END
    /\ Q_OVER_PT_BEGIN < Q_OVER_PT_END
    /\ Scale \in Nat \ {0}
    /\ RadiusAsAngle \in Nat
    /\ CorrectionFactor \in Nat

Sum(values) == SumFunction(values)
Square(x) == x * x
Abs(x) == IF x < 0 THEN -x ELSE x

----------------------------------------------------------------------------
\* sort: selection sort that marks what it has placed with MAX.
FAR == 1000000

NearestIndex(distances) ==
    LET near == {i \in DOMAIN distances : distances[i] < FAR}
    IN  IF near = {} THEN 1
        ELSE CHOOSE i \in near : \A j \in near :
                 distances[i] < distances[j] \/ (distances[i] = distances[j] /\ i <= j)

\* The indices, sorted by their distance.
sort(distances, indices) ==
    LET after[k \in 0 .. Len(indices)] ==
            IF k = 0 THEN [d |-> distances, i |-> indices]
            ELSE LET s == after[k - 1]
                     m == NearestIndex(s.d)
                 IN  [d |-> [s.d EXCEPT ![m] = s.d[k], ![k] = FAR],
                      i |-> [s.i EXCEPT ![k] = s.i[m], ![m] = s.i[k]]]
    IN  after[Len(indices)].i

\* The number of places where two orders differ.
count(a, b) == Cardinality({i \in DOMAIN a : a[i] # b[i]})

----------------------------------------------------------------------------
\* A track of positive charge comes from larger phi, of negative from smaller.
isPhiOnTheRightSide(s, phi) ==
    IF s.yBegin > 0 THEN phi < s.xBegin ELSE phi > s.xBegin

\* Both branches on the charge are the same.
isCurvatureRight(r, phi, rPrevious, phiPrevious) ==
    IF r > rPrevious
    THEN phi < phiPrevious + CorrectionFactor
    ELSE phi > phiPrevious - CorrectionFactor

\* Where the lines of two points of different radii cross, in 1/Scale.
PhiIntersection(main, secondary) ==
    ((main.phi * secondary.r - secondary.phi * main.r) * Scale)
        \div (secondary.r - main.r)

qOverPtIntersection(main, secondary) ==
    Slope(main) * (PhiIntersection(main, secondary) - Scale * main.phi)

\* Without radii that differ the code divides by zero and no comparison holds.
isIntersectionCloseEnough(main, secondary) ==
    /\ main.r # secondary.r
    /\ LET phi == PhiIntersection(main, secondary)
           qOverPt == qOverPtIntersection(main, secondary)
       IN  /\ phi > Scale * PHI_BEGIN /\ phi < Scale * PHI_END
           /\ qOverPt > Scale * Q_OVER_PT_BEGIN /\ qOverPt < Scale * Q_OVER_PT_END

\* The line crosses the accumulator from its lower to its upper border.
lineInsideAccumulator(point) ==
    /\ Slope(point) * (PHI_BEGIN - point.phi) <= Q_OVER_PT_BEGIN
    /\ Slope(point) * (PHI_END - point.phi) >= Q_OVER_PT_END

areAllSectionLinesInsideAccumulator(s, wp) ==
    \A i \in 1 .. returnCounter(s) : lineInsideAccumulator(wp[s.indices[i]])

\* Is the line of `one` nearer to the centre of the section than that of
\* `other`?  Compares squares of twice the distances.
NearerToSectionCenter(s, one, other) ==
    LET norm(p) == Square(Slope(p)) + 1
        offset(p) == Slope(p) * (2 * s.xBegin + s.xSize) - (2 * s.yBegin + s.ySize)
                     - 2 * Slope(p) * p.phi
    IN  Square(offset(one)) * norm(other) < Square(offset(other)) * norm(one)

----------------------------------------------------------------------------
\* calculateMean and calculateStDev of n values: the mean is Total / n, the
\* standard deviation the square root of Spread, divided by n.
Total(values) == Sum(values)
Spread(values) == Len(values) * Sum([i \in DOMAIN values |-> Square(values[i])]) - Square(Sum(values))

\* a * x < b * sqrt(spread), for b >= 0.
BelowSpread(ax, b, spread) == ax < 0 \/ Square(ax) < Square(b) * spread

----------------------------------------------------------------------------
\* Two tests of whether points lie on a line in the z-r plane.  Their calls in
\* fillAccumulatorSection are commented out.

\* R squared of the regression of r on z, against MIN_R2 = 0.85.  Where it is
\* 0/0, the comparison with NaN fails and the points are accepted.
checkLinearity_R2(points) ==
    LET n == Len(points)
        zs == [i \in 1 .. n |-> points[i].z]
        rs == [i \in 1 .. n |-> points[i].r]
        covariance == n * Sum([i \in 1 .. n |-> zs[i] * rs[i]]) - Sum(zs) * Sum(rs)
        variances == Spread(zs) * Spread(rs)
    IN  variances = 0 \/ 20 * Square(covariance) >= 17 * variances

\* The points within MAX_LINEAR_DISCREPANCY = 0.4 of the line from first to last.
linearPoints(points, first, last) ==
    LET dz == first.z - last.z
        rDash(p) == first.r * dz + (first.r - last.r) * (p.z - first.z)
    IN  {i \in DOMAIN points :
            10 * Abs(rDash(points[i]) - points[i].r * dz) < 4 * Abs(rDash(points[i]))}

\* The line through the points of smallest and largest z, 0 being no z.
LINEAR_THRESHOLD == 7

checkLinearity_Simple(points) ==
    LET seen == {i \in DOMAIN points : points[i].z # 0}
        first == IF seen = {} THEN 1 ELSE CHOOSE i \in seen : \A j \in seen :
                     points[i].z < points[j].z \/ (points[i].z = points[j].z /\ i <= j)
        last == IF seen = {} THEN 1 ELSE CHOOSE i \in seen : \A j \in seen :
                    points[i].z > points[j].z \/ (points[i].z = points[j].z /\ i <= j)
    IN  Cardinality(linearPoints(points, points[first], points[last])) >= LINEAR_THRESHOLD

=============================================================================
