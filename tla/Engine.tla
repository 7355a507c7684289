------------------------------- MODULE Engine -------------------------------
(***************************************************************************)
(* Cartogram.__init__ and Cartogram.make (dorlingcartogram.py) on          *)
(* collinear datasets: every unit has the same latitude.  Then every       *)
(* y-force is 0, the latitudes never change, and every distance is the     *)
(* absolute difference of longitudes: no square root is needed, and the    *)
(* whole force model, clamp, blend, velocity update, convergence test and  *)
(* score run in the fixed-point arithmetic of FixedPoint.  A unit's value  *)
(* is pi * S[i]^2, so sqrt(value / pi) = S[i].                             *)
(*                                                                         *)
(* The spatial index is used through the set its query returns, the box   *)
(* (x-d, x+d] (SpatialIndex shows the tree returns exactly that set).      *)
(* Constants that are floats in the code are given in units of 1/Unit.     *)
(***************************************************************************)
EXTENDS Integers, Sequences, FiniteSets, FiniteSetsExt, Functions, FixedPoint

CONSTANTS
  N,               \* number of units (self.n); units are 0..N-1
  AnchorChoices,   \* integer longitudes a unit's anchor may have
  SChoices,        \* values of sqrt(value / pi) a unit may have
  Iterations,      \* self.iterations
  Friction,        \* self.friction, in units of 1/Unit
  Ratio,           \* self.ratio
  Tolerance,       \* self.tolerance
  DisplacementTolerance,  \* self.displacement_tolerance
  PositionTolerance,      \* self.positiontolerance
  OptimizeRatio,   \* self.optimize_ratio
  Stride           \* ANIMATION_STEPS

ASSUME N \in Nat \ {0} /\ Iterations \in Nat /\ Stride \in Nat \ {0}
ASSUME AnchorChoices \subseteq Int /\ SChoices \subseteq Nat \ {0}

Units == 0..N-1

VARIABLES
  anchor,       \* queryset[k]['longitude'], fixed
  sval,         \* sqrt(queryset[k][data_attr] / pi), fixed
  nbrs,         \* nbrs[i] = the filtered obj['neighbors'] of unit i
  radius,       \* self.radius_values
  widest,       \* self.widest_radius
  positionratio, \* self.positionratio, in units of 1/Unit
  x_values,     \* self.x_values
  x_vectors,    \* self.x_vectors
  iteration,    \* loop variable of `for iteration in range(self.iterations)`
  k,            \* the next unit of the force loop `for k in self.queryset`
  displacement, \* `displacement` of the current iteration
  step,         \* step[i] = <<xtotal, closest>> of unit i this iteration
  out_idx,      \* out_idx
  sampled,      \* every longitude written into out_data so far
  box,          \* <<x_min, x_max>> of the samples; <<>> while x_min,
                \* x_max still hold their +-10e10 initial values
  optimize_value, \* <<score>> of the last eval_constraints; <<>> unbound
  pc,           \* "setup" | "force" | "end" | "done"
  status        \* "ok" or the exception make() raised

vars == <<anchor, sval, nbrs, positionratio, radius, widest, x_values, x_vectors, iteration,
          k, displacement, step, out_idx, sampled, box,
          optimize_value, pc, status>>

(* compute_distance on a collinear layout. *)
Dist(x, i, j) == AbsInt(x[i] - x[j])

(* The sum of f[e] over the elements e of a set S. *)
SumOver(f, S) == SumFunctionOnSet(f, S)

(***************************************************************************)
(* __init__: proximities[(i, j)], the inverse anchor distance of j from i *)
(* normalised over all other units.                                        *)
(***************************************************************************)
InverseDistance(i, j) == FDiv(Unit, FromInt(AbsInt(anchor[i] - anchor[j])))

(* A bug variant of ProximityRaises for a table that skips zero distances. *)
ProximityNeverRaises == FALSE

(* 1.0/dist of line 146 divides by zero: two units share an anchor. *)
ProximityRaises == \E i, j \in Units : i # j /\ anchor[i] = anchor[j]

Proximity(i, j) ==
  FDiv(InverseDistance(i, j),
       SumOver([c \in Units \ {i} |-> InverseDistance(i, c)], Units \ {i}))

(***************************************************************************)
(* make(): scale = total_distance / total_radius over every (unit,         *)
(* neighbor) entry, and radius = scale * sqrt(value / pi).                 *)
(***************************************************************************)
NeighborEntries == {<<i, j>> \in Units \X Units : j \in nbrs[i]}

TotalDistance ==
  SumOver([e \in NeighborEntries |-> FromInt(AbsInt(anchor[e[1]] - anchor[e[2]]))],
          NeighborEntries)

TotalRadius ==
  SumOver([e \in NeighborEntries |-> FromInt(sval[e[1]] + sval[e[2]])], NeighborEntries)

(***************************************************************************)
(* The force of one unit u on layout x (make, lines 272-354).             *)
(***************************************************************************)
(* A bug variant of Candidates without the `other_i != obj['i']` test. *)
CandidatesWithSelf(x, u) ==
  LET d == widest + radius[u]
  IN  {o \in Units : x[u] - d < x[o] /\ x[o] <= x[u] + d}

(* A bug variant of Candidates that queries with widest_radius alone. *)
CandidatesWidestOnly(x, u) ==
  LET d == widest
  IN  {o \in Units \ {u} : x[u] - d < x[o] /\ x[o] <= x[u] + d}

(* The units get_point returns for u, other than u itself. *)
Candidates(x, u) ==
  LET d == widest + radius[u]
  IN  {o \in Units \ {u} : x[u] - d < x[o] /\ x[o] <= x[u] + d}

(* closest: widest_radius, lowered by every candidate's distance. *)
Closest(x, u) == Min({widest} \cup {Dist(x, o, u) : o \in Candidates(x, u)})

(* The repulsion loop divides by the distance of an overlapping candidate. *)
RepelDividesByZero(x, u) == \E o \in Candidates(x, u) : Dist(x, o, u) = 0

Repulsion(x, u) ==
  LET overlap(o) == radius[u] + radius[o] - Dist(x, o, u)
      C == {o \in Candidates(x, u) : overlap(o) > 0}
  IN  SumOver([o \in C |-> -FDiv(FMul(overlap(o), x[o] - x[u]), Dist(x, o, u))], C)

(* Attraction to the neighbors that do not touch u, plus the pull back to *)
(* the anchor.                                                             *)
Attraction(x, u) ==
  LET overlap(o) == Dist(x, u, o) - radius[u] - radius[o]
      C == {o \in nbrs[u] : overlap(o) > 0}
      pull == SumOver([o \in C |-> FDiv(FMul(FMul(overlap(o), Proximity(u, o)),
                                             x[o] - x[u]), Dist(x, u, o))], C)
      xd == FromInt(anchor[u]) - x[u]
  IN  IF AbsInt(xd) > 0
      THEN pull + FDiv(FMul(FMul(positionratio, xd), AbsInt(xd)), radius[u])
      ELSE pull

(* A bug variant of LoneAttract that never clamps it. *)
LoneAttractUnclamped(xattract, closest) == xattract

(* Lines 349-352: an attraction acting alone is clamped to closest. *)
LoneAttract(xattract, closest) ==
  IF AbsInt(xattract) > closest
  THEN FDiv(FMul(closest, xattract), AbsInt(xattract) + Unit)
  ELSE xattract

(* Clamp and blend of repulsion and attraction (lines 334-354). *)
Blend(xrepel, xattract, closest) ==
  LET base    == Unit
      repdst  == AbsInt(xrepel)
      clamped == repdst > closest
      rep     == IF clamped THEN FDiv(FMul(closest, xrepel), repdst + base) ELSE xrepel
      repd    == IF clamped THEN closest ELSE repdst
  IN  IF repd > 0
      THEN FMul(Unit - Ratio, rep) + FMul(Ratio, FDiv(FMul(repd, xattract), AbsInt(xattract) + base))
      ELSE LoneAttract(xattract, closest)

Force(x, u) == Blend(Repulsion(x, u), Attraction(x, u), Closest(x, u))

(***************************************************************************)
(* eval_constraints on a collinear layout, with its loops over i < n-1.    *)
(***************************************************************************)
(* A bug variant of CollisionWeight with the sign slipped. *)
CollisionWeightSlip == OptimizeRatio - Unit

(* The weight 1 - optimize_ratio of the collisions (line 204). *)
CollisionWeight == Unit - OptimizeRatio

Score(x) ==
  LET space(i, j) == Dist(x, i, j) - radius[i] - radius[j]
      pairs  == {<<i, j>> \in (0..N-2) \X Units : i < j}
      coll   == Cardinality({p \in pairs : space(p[1], p[2]) < -Tolerance})
      broken == Cardinality({p \in pairs : p[1] \in nbrs[p[2]]
                                          /\ space(p[1], p[2]) > Tolerance})
      off    == Cardinality({i \in 0..N-2 :
                               AbsInt(FromInt(anchor[i]) - x[i]) > PositionTolerance})
  IN  OptimizeRatio * broken + CollisionWeight * coll + FDiv(FromInt(off), FromInt(5))

(* A bug variant of WidenBox that starts the box afresh at every sample. *)
WidenBoxFresh(b, xs) == <<Min(xs), Max(xs)>>

(* x_min, x_max = min(x, x_min), max(x, x_max) over one sample's positions; *)
(* <<>> stands for the initial -+10e10.                                    *)
WidenBox(b, xs) ==
  LET old == IF b = <<>> THEN {} ELSE {b[1], b[2]}
  IN  <<Min(xs \cup old), Max(xs \cup old)>>

-----------------------------------------------------------------------------
SymmetricTables ==
  {nb \in [Units -> SUBSET Units] :
     \A i, j \in Units : i \notin nb[i] /\ (i \in nb[j] <=> j \in nb[i])}

(* The dataset of queryset and the neighbor file: anchors, shared ones    *)
(* included, sizes and symmetric lists.                                   *)
Dataset ==
  /\ anchor \in [Units -> AnchorChoices]
  /\ sval \in [Units -> SChoices]
  /\ nbrs \in SymmetricTables

(* The state Cartogram(..., positionratio=pr, ...) leaves: __init__ on   *)
(* the loaded dataset, positions at the anchors, zero velocities, and     *)
(* make() about to start, unless the proximity table raised.              *)
Constructed(pr) ==
  /\ positionratio = pr
  /\ radius = [i \in Units |-> 0]
  /\ widest = 0
  /\ x_values = [i \in Units |-> FromInt(anchor[i])]
  /\ x_vectors = [i \in Units |-> 0]
  /\ iteration = 0 /\ k = 0 /\ displacement = 0
  /\ step = [i \in Units |-> <<0, 0>>]
  /\ out_idx = -1 /\ sampled = {} /\ box = <<>>
  /\ optimize_value = <<>>
  /\ pc = IF ProximityRaises THEN "done" ELSE "setup"
  /\ status = IF ProximityRaises THEN "ZeroDivisionError(proximity)" ELSE "ok"

(* The same construction as a step of a caller. *)
Construct(pr) ==
  /\ positionratio' = pr
  /\ radius' = [i \in Units |-> 0]
  /\ widest' = 0
  /\ x_values' = [i \in Units |-> FromInt(anchor[i])]
  /\ x_vectors' = [i \in Units |-> 0]
  /\ iteration' = 0 /\ k' = 0 /\ displacement' = 0
  /\ step' = [i \in Units |-> <<0, 0>>]
  /\ out_idx' = -1 /\ sampled' = {} /\ box' = <<>>
  /\ optimize_value' = <<>>
  /\ pc' = IF ProximityRaises THEN "done" ELSE "setup"
  /\ status' = IF ProximityRaises THEN "ZeroDivisionError(proximity)" ELSE "ok"

(* Scale and radii (lines 224-254), then the start of the loop. *)
Setup ==
  /\ pc = "setup"
  /\ IF TotalRadius = 0
     THEN /\ status' = "ZeroDivisionError(scale)"
          /\ pc' = "done"
          /\ UNCHANGED <<radius, widest>>
     ELSE LET scale == FDiv(TotalDistance, TotalRadius)
              r     == [i \in Units |-> FMul(scale, FromInt(sval[i]))]
          IN  /\ radius' = r
              /\ widest' = Max({0} \cup {r[i] : i \in Units})
              /\ status' = status
              /\ pc' = IF Iterations > 0 THEN "force" ELSE "done"
  /\ UNCHANGED <<anchor, sval, nbrs, positionratio, x_values, x_vectors, iteration, k,
                 displacement, step, out_idx, sampled, box,
                 optimize_value>>

(* A bug variant of ForcePositions that sees the units before kk already *)
(* moved by their new velocities (a Gauss-Seidel sweep).                   *)
ForcePositionsMoved(xv, xvec, kk) ==
  [i \in Units |-> IF i < kk THEN xv[i] + xvec[i] ELSE xv[i]]

(* compute_distance reads self.x_values, which only the position update *)
(* after the force loop changes (lines 164-167, 362).                    *)
ForcePositions(xv, xvec, kk) == xv

(* One pass of the force loop for unit k (lines 270-357): its force,     *)
(* its velocity update and its share of the displacement.  Positions are  *)
(* not touched.                                                            *)
ForceStep ==
  /\ pc = "force"
  /\ LET x == ForcePositions(x_values, x_vectors, k) IN
     IF RepelDividesByZero(x, k)
         THEN /\ status' = "ZeroDivisionError(repel)"
              /\ pc' = "done"
              /\ UNCHANGED <<x_vectors, displacement, step, k>>
         ELSE LET f == Force(x, k) IN
              /\ x_vectors' = [x_vectors EXCEPT ![k] = FMul(Friction, @ + f)]
              /\ displacement' = displacement + AbsInt(f)
              /\ step' = [step EXCEPT ![k] = <<f, Closest(x, k)>>]
              /\ k' = k + 1
              /\ pc' = IF k + 1 = N THEN "end" ELSE "force"
              /\ status' = status
  /\ UNCHANGED <<anchor, sval, nbrs, positionratio, radius, widest, x_values, iteration,
                 out_idx, sampled, box, optimize_value>>

(* The rest of the iteration (lines 362-433): move every unit by its       *)
(* velocity, write a sample every Stride iterations and widen the          *)
(* bounding box with it, score the layout, then stop on convergence or at *)
(* the iteration cap.                                                      *)
EndIteration ==
  /\ pc = "end"
  /\ LET x    == [i \in Units |-> x_values[i] + x_vectors[i]]
         xs   == {x[i] : i \in Units}
         write == iteration % Stride = 0
     IN  /\ x_values' = x
         /\ out_idx' = IF write THEN out_idx + 1 ELSE out_idx
         /\ sampled' = IF write THEN sampled \cup xs ELSE sampled
         /\ box' = IF write THEN WidenBox(box, xs) ELSE box
         /\ optimize_value' = <<Score(x)>>
  /\ IF displacement <= DisplacementTolerance \/ iteration + 1 = Iterations
     THEN pc' = "done" /\ UNCHANGED <<iteration, k, displacement>>
     ELSE /\ pc' = "force"
          /\ iteration' = iteration + 1
          /\ k' = 0
          /\ displacement' = 0
  /\ UNCHANGED <<anchor, sval, nbrs, positionratio, radius, widest, x_vectors, step, status>>

Next == Setup \/ ForceStep \/ EndIteration

-----------------------------------------------------------------------------
TypeOK ==
  /\ pc \in {"setup", "force", "end", "done"}
  /\ status \in {"ok", "ZeroDivisionError(proximity)", "ZeroDivisionError(scale)",
                 "ZeroDivisionError(repel)"}
  /\ iteration \in 0..Iterations
  /\ k \in 0..N
  /\ out_idx \in -1..Iterations
  /\ optimize_value = <<>> \/ (Len(optimize_value) = 1 /\ optimize_value[1] \in Nat)

(* The per-iteration hot loop never raises: spec section 7 says every      *)
(* numeric operation inside it is total once the radii are valid, and a    *)
(* run is aborted by a fatal precondition before the loop starts.  Shared  *)
(* anchors are among the inputs: only __init__'s raise at line 146 keeps   *)
(* their coincident units out of the loop's division by dist.             *)
LoopNeverRaises == status # "ZeroDivisionError(repel)"

(* No unit's blended force, the move make() adds to its velocity, is       *)
(* longer than `closest`, its distance to the nearest candidate: the      *)
(* clamp of lines 342-353 bounds both the repulsion and the attraction     *)
(* branch.                                                                 *)
StepWithinClosest ==
  \A i \in 0..k-1 : pc \in {"force", "end"} => AbsInt(step[i][1]) <= step[i][2]

(* The bounding box make() returns in out_data['limitation'] covers every *)
(* position written into out_data, over all sampled iterations and not     *)
(* only the last one (spec section 4.5: a running bounding box).           *)
BoxCoversSamples ==
  sampled # {} => box # <<>> /\ \A v \in sampled : box[1] <= v /\ v <= box[2]

(* The range query of line 273 (distance = widest_radius + radius of the *)
(* unit, a box open on one side) finds every unit that overlaps the unit: *)
(* no overlapping pair escapes the repulsion loop, whatever the radii the *)
(* scale gave and wherever the layout has moved.                          *)
RepulsionSeesOverlaps ==
  pc \in {"force", "end"} =>
    \A u, o \in Units :
      u # o /\ Dist(x_values, o, u) < radius[u] + radius[o] => o \in Candidates(x_values, u)

(* Spec section 8 runs three units with no shared neighbors to the end,  *)
(* and sections 4.2 and 7 make only an empty dataset or a non-positive     *)
(* value fatal: on every dataset of positive values the scale of line 239 *)
(* is defined, and Setup does not raise.                                   *)
ScaleDefined == status # "ZeroDivisionError(scale)"
=============================================================================
