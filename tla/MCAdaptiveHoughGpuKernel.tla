---------------------- MODULE MCAdaptiveHoughGpuKernel ----------------------
(* Events for model checking AdaptiveHoughGpuKernel. *)
EXTENDS AdaptiveHoughGpuKernel

Point(r, phi, z) == [r |-> r, phi |-> phi, z |-> z]

\* A track of q/pt = 36 from phi = 10, each point in two places.
SomeTracks ==
    {<<Point(1, a, 0), Point(2, b, 1), Point(3, c, 1), Point(4, d, 2)>> :
        a \in {7, 8}, b \in {4, 3}, c \in {1, 2}, d \in {-2, -3}}

\* A track of q/pt = -36 that crosses phi = PI.
AcrossPi ==
    {<<Point(1, -30, 0), Point(2, b, -1), Point(3, -24, -1), Point(4, d, -2)>> :
        b \in {-27, -28}, d \in {-21, -22}}

\* Two hits in one layer, and points in the order of falling radius.
DoubleHits ==
    {<<Point(1, 7, 0), Point(2, 4, 1), Point(2, b, 1), Point(3, 1, 1), Point(4, d, 2)>> :
        b \in {3, 5}, d \in {-2, -3}}
Falling == {<<Point(4, -2, 2), Point(3, 1, 1), Point(2, 4, 1), Point(1, 8, 0)>>}

SomeEvents == SomeTracks \cup AcrossPi \cup DoubleHits \cup Falling
SomePrecisions == {[x |-> 4, pt |-> 24], [x |-> 16, pt |-> 12]}
CorrectionOfThreeFifths == <<3, 5>>
MinusEight == -8
MinusThirtyTwo == -32
MinusFortyEight == -48
MinusThousand == -1000

-----------------------------------------------------------------------------
\* The instance is one of those the theorems about the search speak of.  The sizes of
\* the region are even as often as they are halved, and the stack has exactly the
\* places that halving may need.
Halvings(full, limit) ==
    LET times[n \in 0 .. full] == IF n <= limit THEN 0 ELSE 1 + times[n \div 2]
    IN  times[full]

ASSUME InstanceSuits ==
    LET halvings(p) == <<Halvings(InitialSection(0).xSize, p.x), Halvings(InitialSection(0).ySize, p.pt)>>
        needs(h) == 1 + h[1] + h[2] + IF h[1] < h[2] THEN h[1] ELSE h[2]
    IN  /\ \A p \in Precisions :
               /\ InitialSection(0).xSize % 2^halvings(p)[1] = 0
               /\ InitialSection(0).ySize % 2^halvings(p)[2] = 0
               /\ needs(halvings(p)) <= MAX_SECTIONS_BUFFER_SIZE
        /\ \E p \in Precisions : needs(halvings(p)) = MAX_SECTIONS_BUFFER_SIZE

\* The wedges fill the ranges of phi and eta.
ASSUME WedgesSuit ==
    /\ \E half \in 1 .. PHI_END : PHI_END - PHI_BEGIN = N_PHI_WEDGE * (2 * half)
    /\ -2 * PI < PHI_BEGIN /\ PHI_BEGIN <= -PI /\ PI <= PHI_END /\ PHI_END < 2 * PI
    /\ \E half \in 1 .. ETA_WEDGE_MAX :
           /\ ETA_WEDGE_MAX - ETA_WEDGE_MIN = N_ETA_WEDGE * (2 * half)
           /\ half + excess_wedge_eta_width >= MinEta
    /\ \A k \in Wedges : phi_min(WedgeNumber(k)) # -PI /\ phi_max(WedgeNumber(k)) # PI

\* Slopes divide the unit of distance, and all distances are below what sort marks with.
ASSUME LinesSuit ==
    /\ \A event \in Events : \A i \in DOMAIN event :
           Slope(event[i]) > 0 /\ DistanceUnit % Slope(event[i]) = 0
    /\ DistanceUnit * (InitialSection(0).xSize + InitialSection(0).ySize) <= FAR

-----------------------------------------------------------------------------
\* sort, against what sorting means, on up to four distances.
ASSUME SortSorts ==
    \A n \in 1 .. 4 : \A distances \in [1 .. n -> 0 .. 3] :
        LET order == sort(distances, [i \in 1 .. n |-> i])
        IN  /\ IsInjective(order) /\ Range(order) = 1 .. n
            /\ \A i, j \in 1 .. n : i <= j => distances[order[i]] <= distances[order[j]]

\* Points on a line in the z-r plane that is not level, r = a * z + b, in any of the
\* orders of its direction, pass both tests of linearity; points of a V do not pass
\* the regression.
OnLine(a, b, n) == [i \in 1 .. n |-> Point(a * (i - 3) + b, 0, i - 3)]

ASSUME LinesAreLinear ==
    \A a \in {-3, -1, 1, 2}, b \in {30, 40}, n \in {7, 8} :
        LET hits == OnLine(a, b, n)
        IN  /\ checkLinearity_R2(hits) /\ checkLinearity_R2(Reverse(hits))
            /\ checkLinearity_Simple(hits) /\ checkLinearity_Simple(Reverse(hits))

ASSUME VsAreNotLinear ==
    \A a \in 1 .. 3, n \in 2 .. 4 :
        ~checkLinearity_R2([i \in 1 .. 2 * n + 1 |-> Point(20 + a * Abs(i - n - 1), 0, i - n - 1)])
=============================================================================
