-------------------------- MODULE HoughAccumulators --------------------------
(***************************************************************************)
(* The two Python programs the solver's accumulator was compared with, on  *)
(* the same grid and points: naive_imlementation.py (old/tools), "intended *)
(* for OneAPI implementation correctness tests", looks at every cell;      *)
(* 2d-acc.py (old/tools/python-impl) computes, per column, the rows a line *)
(* passes.  A point (r, phi) is the line phi - r * x.                      *)
(*                                                                         *)
(* Coordinates are integers: x_begin, y_begin and the distances dx, dy of  *)
(* the cells' centres are even, so that the edges are integers as well.    *)
(***************************************************************************)
EXTENDS Integers, FiniteSets

CONSTANTS
    PointSets,              \* the sets of points [r, phi, layer]
    layers,                 \* the layers are 0 .. layers - 1
    x_begin, dx, x_dpi,
    y_begin, dy, y_dpi,
    threshold

ASSUME GridAssumption ==
    /\ {layers, x_dpi, y_dpi} \subseteq Nat \ {0} /\ threshold \in Nat
    /\ dx \in Nat \ {0} /\ dy \in Nat \ {0} /\ dx % 2 = 0 /\ dy % 2 = 0
    /\ {x_begin, y_begin} \subseteq Int
    /\ \A set \in PointSets :
           set \subseteq [r : Int, phi : Int, layer : 0 .. layers - 1] /\ IsFiniteSet(set)

VARIABLES
    accPc,          \* "Started", "Filling"
    pointsLeft,     \* the points the loops have not reached
    allPoints,
    accumulator,    \* naive: the lines counted in each cell
    map             \* 2d-acc: whether a line of each layer passes the cell

accVars == <<accPc, pointsLeft, allPoints, accumulator, map>>

Columns == 0 .. x_dpi - 1
Rows == 0 .. y_dpi - 1

----------------------------------------------------------------------------
\* lerp(begin, end, k / (dpi - 1)), as np.linspace: the centre of a column, a row.
X(k) == x_begin + dx * k
Y(k) == y_begin + dy * k

LineAt(point, x) == point.phi - point.r * x
Left(point, column) == LineAt(point, X(column) - dx \div 2)
Right(point, column) == LineAt(point, X(column) + dx \div 2)

\* fill_one_point: the line enters above the lower edge and leaves below the upper.
IsHit(point, column, row) ==
    /\ Left(point, column) >= Y(row) - dy \div 2
    /\ Right(point, column) <= Y(row) + dy \div 2

\* Python's round: to the even of two integers equally near.
Round(numerator, denominator) ==
    LET floor == numerator \div denominator
        rest == 2 * (numerator % denominator)
    IN  IF rest < denominator \/ (rest = denominator /\ floor % 2 = 0) THEN floor ELSE floor + 1

\* Mutant: the rows are y_dpi apart over the range, not y_dpi - 1.
BeanIndexByDpi(y) == Round(y_dpi * (y - y_begin), dy * (y_dpi - 1))

map_to_bean_index(y) == Round(y - y_begin, dy)

\* The rows fill sets in a column: none if the line has left the grid.  A negative
\* y_right_idx is skipped as well, although the line may come in from below.
RowsPassed(point, column) ==
    LET y_left_idx == map_to_bean_index(Left(point, column))
        y_right_idx == map_to_bean_index(Right(point, column))
    IN  IF y_right_idx < 0 \/ y_left_idx >= y_dpi THEN {} ELSE y_right_idx .. y_left_idx

\* The helper that clips a line to the grid instead; fill no longer calls it.
Distance(a, b) == IF a < b THEN b - a ELSE a - b
find_nearest(y) ==
    CHOOSE k \in Rows : \A j \in Rows :
        \/ Distance(Y(k), y) < Distance(Y(j), y)
        \/ Distance(Y(k), y) = Distance(Y(j), y) /\ k <= j

y_end == Y(y_dpi - 1)
prepare_y_idx(y_left, y_right) ==
    LET IsWithin(y) == y > y_begin /\ y < y_end
    IN  CASE IsWithin(y_left) /\ IsWithin(y_right) -> find_nearest(y_right) .. find_nearest(y_left)
          [] y_left > y_begin /\ y_right < y_begin -> 0 .. find_nearest(y_left)
          [] y_left < y_begin /\ y_right > y_begin -> find_nearest(y_right) .. 0
          [] y_left > y_end /\ y_begin <= y_right /\ y_right < y_end
                -> find_nearest(y_right) .. y_dpi - 1
          [] y_begin <= y_left /\ y_left < y_end /\ y_right > y_end
                -> y_dpi - 1 .. find_nearest(y_left)
          [] OTHER -> {}

\* 3d-acc.py (old/tools/python-impl) shares the r_len radii out to its threads; this is
\* r_range[begin:end] of thread i, by its indices.
radius_list(r_len, num_of_threads, i) ==
    LET one_range_len == (r_len + num_of_threads - 1) \div num_of_threads
    IN  {k \in 0 .. r_len - 1 : i * one_range_len <= k /\ k < (i + 1) * one_range_len}

----------------------------------------------------------------------------
AccInit ==
    /\ accPc = "Started" /\ pointsLeft = {} /\ allPoints = {}
    /\ accumulator = [row \in Rows |-> [column \in Columns |-> 0]]
    /\ map = [layer \in 0 .. layers - 1 |-> [row \in Rows |-> [column \in Columns |-> 0]]]

LoadPoints ==
    /\ accPc = "Started" /\ accPc' = "Filling"
    /\ allPoints' \in PointSets /\ pointsLeft' = allPoints'
    /\ UNCHANGED <<accumulator, map>>

FillPoint(point) ==
    /\ accumulator' = [row \in Rows |-> [column \in Columns |->
           accumulator[row][column] + IF IsHit(point, column, row) THEN 1 ELSE 0]]
    /\ map' = [map EXCEPT ![point.layer] = [row \in Rows |-> [column \in Columns |->
           IF row \in RowsPassed(point, column) THEN 1 ELSE map[point.layer][row][column]]]]
    /\ pointsLeft' = pointsLeft \ {point}
    /\ UNCHANGED <<accPc, allPoints>>

AccNext == LoadPoints \/ \E point \in pointsLeft : FillPoint(point)
AccSpec == AccInit /\ [][AccNext]_accVars
AccEnded == accPc = "Filling" /\ pointsLeft = {}

\* The cells 2d-acc reports.
SummedMap(row, column) == Cardinality({layer \in DOMAIN map : map[layer][row][column] = 1})
get_cells_above_threshold == {cell \in Rows \X Columns : SummedMap(cell[1], cell[2]) > threshold}

----------------------------------------------------------------------------
\* The line passes the column within the grid, and not through a corner of a cell.
Inside(point, column) ==
    /\ map_to_bean_index(Right(point, column)) >= 0
    /\ map_to_bean_index(Left(point, column)) < y_dpi
    /\ \A y \in {Left(point, column), Right(point, column)} : 2 * ((y - y_begin) % dy) # dy

\* The two programs agree.  Every cell 2d-acc reports has more lines than the
\* threshold by the naive count too, whatever leaves the grid; and where all lines
\* pass a column inside and each layer has one, the counts are the same.
AccumulatorsAgree ==
    AccEnded =>
        /\ \A cell \in get_cells_above_threshold : accumulator[cell[1]][cell[2]] > threshold
        /\ \A column \in Columns :
               (/\ \A point \in allPoints : Inside(point, column)
                /\ \A p \in allPoints : \A q \in allPoints \ {p} : p.layer # q.layer)
               => \A row \in Rows : SummedMap(row, column) = accumulator[row][column]

=============================================================================
