------------------------- MODULE AccumulatorSection -------------------------
(***************************************************************************)
(* AccumulatorSection (HS/include/HelixSolver/AccumulatorSection.h): a     *)
(* rectangle of the accumulator, x being phi and y being q/pt, with the    *)
(* indices of the points whose lines were last counted in it.  A point     *)
(* (r, phi) is the line y = a * (x - phi) of slope a = INVERSE_A / r.      *)
(*                                                                         *)
(* Numbers are integers: angles, q/pt and radii are in units in which      *)
(* every slope and every halved size is an integer.                        *)
(***************************************************************************)
EXTENDS Integers, Sequences

CONSTANTS
    INVERSE_A,
    MAX_COUNT_PER_SECTION,
    DistanceUnit    \* a common multiple of the slopes: distances are in 1/DistanceUnit

ASSUME SectionAssumption ==
    /\ INVERSE_A \in Nat \ {0}
    /\ MAX_COUNT_PER_SECTION \in 2 .. 110
    /\ DistanceUnit \in Nat \ {0}

Slope(point) == INVERSE_A \div point.r

\* counts has this value when there are MAX_COUNT_PER_SECTION - 1 lines.
OUT_OF_RANGE_COUNTS == 111

Section(xw, yw, xBegin, yBegin, div) ==
    [xSize |-> xw, ySize |-> yw, xBegin |-> xBegin, yBegin |-> yBegin,
     divisionLevel |-> div, indices |-> <<>>, counts |-> 0]

canUseIndices(s) == s.counts # 0

returnCounter(s) ==
    IF s.counts = OUT_OF_RANGE_COUNTS THEN MAX_COUNT_PER_SECTION - 1 ELSE s.counts

\* What both countHits and countHits_checkOrder record of a number of lines.
CountsOf(counter) ==
    IF counter + 1 = MAX_COUNT_PER_SECTION THEN OUT_OF_RANGE_COUNTS ELSE counter

\* The quarters and halves: a size is divided by xPart and yPart, 1 or 2.
bottomLeft(s, xPart, yPart) ==
    Section(s.xSize \div xPart, s.ySize \div yPart, s.xBegin, s.yBegin, s.divisionLevel + 1)

topLeft(s, xPart, yPart) ==
    Section(s.xSize \div xPart, s.ySize \div yPart,
            s.xBegin, s.yBegin + s.ySize - s.ySize \div yPart, s.divisionLevel + 1)

\* Mutant: topRight lies where bottomRight does.
topRightBelow(s, xPart, yPart) ==
    Section(s.xSize \div xPart, s.ySize \div yPart,
            s.xBegin + s.xSize - s.xSize \div xPart, s.yBegin, s.divisionLevel + 1)

topRight(s, xPart, yPart) ==
    Section(s.xSize \div xPart, s.ySize \div yPart,
            s.xBegin + s.xSize - s.xSize \div xPart,
            s.yBegin + s.ySize - s.ySize \div yPart, s.divisionLevel + 1)

bottomRight(s, xPart, yPart) ==
    Section(s.xSize \div xPart, s.ySize \div yPart,
            s.xBegin + s.xSize - s.xSize \div xPart, s.yBegin, s.divisionLevel + 1)

bottom(s) == bottomLeft(s, 1, 2)
top(s) == topLeft(s, 1, 2)
left(s) == bottomLeft(s, 2, 1)
right(s) == bottomRight(s, 2, 1)

\* The line y = a * x + b enters at the left edge below the top of the section
\* and leaves at the right edge above its bottom.
isLineInside(s, a, b) ==
    /\ a * s.xBegin + b < s.yBegin + s.ySize
    /\ a * (s.xBegin + s.xSize) + b > s.yBegin

\* Where the line leaves the section, clockwise from the upper left corner, and
\* where it enters, anticlockwise.
distCC(s, a, b) ==
    LET y == a * (s.xBegin + s.xSize) + b
        yEnd == s.yBegin + s.ySize
    IN  IF y <= yEnd
        THEN DistanceUnit * (s.xSize + yEnd - y)
        ELSE (DistanceUnit \div a) * (yEnd - b) - DistanceUnit * s.xBegin

distACC(s, a, b) ==
    LET y == a * s.xBegin + b
    IN  IF y <= s.yBegin
        THEN DistanceUnit * (s.ySize - s.xBegin) + (DistanceUnit \div a) * (s.yBegin - b)
        ELSE DistanceUnit * (s.yBegin + s.ySize - y)

=============================================================================
