------------------------- MODULE ConstraintEvaluator -------------------------
(***************************************************************************)
(* Cartogram.eval_constraints (dorlingcartogram.py): the score of a layout *)
(* = optimize_ratio * broken links + (1 - optimize_ratio) * collisions     *)
(* + 0.2 * units away from their anchor.  make() calls it once per         *)
(* iteration on the just-moved positions.                                  *)
(*                                                                         *)
(* Positions, anchors, radii and tolerances are integers; a distance is    *)
(* never computed as a square root, it is compared with a bound through    *)
(* its square, which decides every comparison of the code exactly.  The    *)
(* score is kept in tenths, so the weights 0.4, 0.6 and 0.2 are integers.  *)
(***************************************************************************)
EXTENDS Integers, FiniteSets

CONSTANTS
  N,                  \* number of units; units are the indices 0..N-1
  Coord,              \* coordinates a position may take on either axis
  Radius,             \* Radius[i] = self.radius_values[i]
  Anchor,             \* Anchor[i] = <<longitude, latitude>> of unit i
  Tolerance,          \* self.tolerance
  PositionTolerance,  \* self.positiontolerance
  OptimizeRatio       \* self.optimize_ratio, in tenths

ASSUME N \in Nat \ {0}
ASSUME Radius \in [0..N-1 -> Nat \ {0}]
ASSUME Anchor \in [0..N-1 -> Coord \X Coord]
ASSUME Tolerance \in Nat /\ PositionTolerance \in Nat
ASSUME OptimizeRatio \in 0..10

Units == 0..N-1

VARIABLES
  x_values,   \* self.x_values
  y_values,   \* self.y_values
  neighbors,  \* neighbors[j] = the units in queryset[key_j]['neighbors']
  score,      \* the value eval_constraints returned, in tenths
  evaluated   \* whether eval_constraints has been called

vars == <<x_values, y_values, neighbors, score, evaluated>>

(* Squared distance between units i and j, and from unit i to its anchor. *)
Dist2(i, j) == (x_values[i] - x_values[j])^2 + (y_values[i] - y_values[j])^2
AnchorDist2(i) == (Anchor[i][1] - x_values[i])^2 + (Anchor[i][2] - y_values[i])^2

(* sqrt(d2) < b and sqrt(d2) > b, decided on squares. *)
SqrtBelow(d2, b) == b > 0 /\ d2 < b * b
SqrtAbove(d2, b) == b < 0 \/ d2 > b * b

(* space = dist - r_i - r_j; space < lower_threshold and space > upper_threshold. *)
Collides(i, j) == SqrtBelow(Dist2(i, j), Radius[i] + Radius[j] - Tolerance)
Apart(i, j)    == SqrtAbove(Dist2(i, j), Radius[i] + Radius[j] + Tolerance)

(* isneighbor(i, j): the key of i is in the neighbor list of j. *)
IsNeighbor(i, j) == i \in neighbors[j]

(* The pairs the two loops visit: i in xrange(n-1), j in xrange(i+1, n). *)
Pairs == {<<i, j>> \in (0..N-2) \X Units : i < j}

(* The units whose anchor deviation is tested: the outer loop's i only. *)
PositionChecked == 0..N-2

Collisions  == Cardinality({p \in Pairs : Collides(p[1], p[2])})
BrokenLinks == Cardinality({p \in Pairs : IsNeighbor(p[1], p[2]) /\ Apart(p[1], p[2])})
PositionsOff ==
  Cardinality({i \in PositionChecked : SqrtAbove(AnchorDist2(i), PositionTolerance)})

(* A bug variant of EvalConstraints with the collision weight written as *)
(* optimize_ratio - 1 instead of 1 - optimize_ratio.                      *)
EvalConstraintsSignSlip ==
  OptimizeRatio * BrokenLinks + (OptimizeRatio - 10) * Collisions + 2 * PositionsOff

(* The return value of eval_constraints, in tenths. *)
EvalConstraints ==
  OptimizeRatio * BrokenLinks + (10 - OptimizeRatio) * Collisions + 2 * PositionsOff

(* Symmetric neighbor lists, without self-references. *)
NeighborTables ==
  {nb \in [Units -> SUBSET Units] :
     \A i, j \in Units : (i \notin nb[i]) /\ (i \in nb[j] <=> j \in nb[i])}

Init ==
  /\ x_values \in [Units -> Coord]
  /\ y_values \in [Units -> Coord]
  /\ neighbors \in NeighborTables
  /\ score = 0
  /\ evaluated = FALSE

(* One call of eval_constraints. *)
Evaluate ==
  /\ ~evaluated
  /\ score' = EvalConstraints
  /\ evaluated' = TRUE
  /\ UNCHANGED <<x_values, y_values, neighbors>>

Next == Evaluate

Spec == Init /\ [][Next]_vars

-----------------------------------------------------------------------------
(* Reference counts of section 4.6 of spec.md, over unordered pairs of     *)
(* distinct units and over all units.                                      *)
SpecPairs == {{i, j} : i, j \in Units} \ {{i} : i \in Units}
SpecCollisions ==
  Cardinality({p \in SpecPairs : \E i, j \in p : i # j /\ Collides(i, j)})
SpecBrokenLinks ==
  Cardinality({p \in SpecPairs : \E i, j \in p : i # j /\ j \in neighbors[i] /\ Apart(i, j)})
SpecPositionsOff ==
  Cardinality({i \in Units : SqrtAbove(AnchorDist2(i), PositionTolerance)})

TypeOK ==
  /\ x_values \in [Units -> Coord]
  /\ y_values \in [Units -> Coord]
  /\ neighbors \in NeighborTables
  /\ score \in Nat
  /\ evaluated \in BOOLEAN

(* Section 4.6 of spec.md: the score adds 0.2 for every unit farther than  *)
(* positionTolerance from its anchor.  The code tests the anchor distance  *)
(* inside the outer pair loop, which stops at n-2.                         *)
ScoreMatchesSpec ==
  evaluated =>
    score = OptimizeRatio * SpecBrokenLinks + (10 - OptimizeRatio) * SpecCollisions
              + 2 * SpecPositionsOff

=============================================================================
