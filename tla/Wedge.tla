------------------------------- MODULE Wedge -------------------------------
(***************************************************************************)
(* Wedge (HS/include/HelixSolver/ZPhiPartitioning.h): a slice of the       *)
(* detector in phi and in eta, cut in the r-z plane by two lines.          *)
(*                                                                         *)
(* A line of pseudorapidity eta has the slope tan(2 atan(exp(-eta))), which*)
(* is 1/sinh(eta): odd, and decreasing on either side of 0.  The model     *)
(* takes Tilt/eta, which is so too.                                        *)
(***************************************************************************)
EXTENDS Integers

CONSTANTS
    PI,
    Tilt,           \* the slope of a line of eta 1
    MinEta,         \* 0.01 in the code: an edge closer to 0 is moved to it
    ZUnitSquared    \* the square of the unit of z, which the code takes the inverse of

ASSUME WedgeAssumption ==
    {PI, Tilt, MinEta, ZUnitSquared} \subseteq Nat \ {0}

Reg(center, width) == [center |-> center, width |-> width]

\* An interval of the range from min to max cut into equal parts.
uniform_split(min, max, index, splits) ==
    LET width == (max - min) \div splits
    IN  Reg(min + width * index + width \div 2, width \div 2)

\* The same angle in (-PI, PI].
phi_wrap(phi) == PI - ((PI - phi) % (2 * PI))

phi_dist(phi1, phi2) == phi_wrap(phi1 - phi2)

----------------------------------------------------------------------------
\* An edge at eta 0 would be vertical: the width is changed so that it is not.
EtaWidth(eta) ==
    IF -MinEta < eta.center + eta.width /\ eta.center + eta.width < MinEta
    THEN MinEta - eta.center
    ELSE IF -MinEta < eta.center - eta.width /\ eta.center - eta.width < MinEta
    THEN MinEta + eta.center
    ELSE eta.width

\* The constructor.  The lines are kept as the eta and the z they are made from.
WedgeOf(phi, z, eta) ==
    [phi |-> phi,
     left |-> [eta |-> eta.center - EtaWidth(eta), z |-> z.center - z.width],
     right |-> [eta |-> eta.center + EtaWidth(eta), z |-> z.center + z.width]]

phi_min(w) == w.phi.center - w.phi.width
phi_max(w) == w.phi.center + w.phi.width

\* a * z + b is numerator / denominator, with a = Tilt / eta and b = -a / z0.
Numerator(line, z) == Tilt * (ZUnitSquared * z * line.z - 1)
Denominator(line) == line.eta * ZUnitSquared * line.z

IsAbove(line, r, z) == Numerator(line, z) * Denominator(line) > r * Denominator(line) * Denominator(line)
IsBelow(line, r, z) == Numerator(line, z) * Denominator(line) < r * Denominator(line) * Denominator(line)

\* Both lines tilted to the right: / /; to either side: \ /; to the left: \ \.
in_wedge_r_phi_z(w, r, phi, z) ==
    /\ phi_dist(phi, w.phi.center) \in -w.phi.width .. w.phi.width
    /\ \/ /\ w.left.eta > 0 /\ w.right.eta > 0
          /\ IsAbove(w.left, r, z) /\ IsBelow(w.right, r, z)
       \/ /\ w.left.eta < 0 /\ w.right.eta > 0
          /\ IsBelow(w.left, r, z) /\ IsBelow(w.right, r, z)
       \/ /\ w.right.eta < 0
          /\ IsBelow(w.left, r, z) /\ IsAbove(w.right, r, z)

=============================================================================
