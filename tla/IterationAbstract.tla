--------------------------- MODULE IterationAbstract ---------------------------
(***************************************************************************)
(* What make()'s loop (dorlingcartogram.py lines 259-433) promises of the  *)
(* positions: every iteration is one Jacobi step.  Each unit's velocity    *)
(* becomes friction * (velocity + force), with every force taken on the    *)
(* layout as it was when the iteration began; then every unit moves by its *)
(* new velocity at once.  The loop stops once the forces of an iteration   *)
(* sum to at most the displacement tolerance, or at the iteration cap.     *)
(* The force model is not part of this promise: `force` is the force field *)
(* of the layout, an input the environment sets (Sense) and the step       *)
(* reads.  The setup either fails or starts the loop.                      *)
(***************************************************************************)
EXTENDS Integers, FiniteSets, Functions, FixedPoint

CONSTANTS
  N,                      \* number of units
  Iterations,             \* self.iterations
  Friction,               \* self.friction, in units of 1/Unit
  DisplacementTolerance   \* self.displacement_tolerance, in units of 1/Unit

Units == 0..N-1

VARIABLES
  x,      \* the positions (x_values)
  v,      \* the velocities at the start of the iteration (x_vectors)
  iter,   \* the loop variable `iteration`
  phase,  \* "setup" | "run" | "done" | the exception the loop raised
  force,  \* force[u]: the force on u in the current layout
  raising \* the units whose force the current layout cannot give

vars == <<x, v, iter, phase, force, raising>>

(* The environment: any force field, any units that raise. *)
IsField(f, r) == DOMAIN f = Units /\ \A u \in Units : f[u] \in Int /\ r \subseteq Units
Field == IsField(force', raising')

Init ==
  /\ x \in [Units -> Int]
  /\ v = [u \in Units |-> 0]
  /\ iter = 0
  /\ phase = "setup"
  /\ IsField(force, raising)

(* The setup of make(): the scale raises, or the loop starts (at once done *)
(* when there are no iterations).                                         *)
Start ==
  /\ phase = "setup"
  /\ phase' \in {IF Iterations > 0 THEN "run" ELSE "done", "ZeroDivisionError(scale)"}
  /\ Field
  /\ UNCHANGED <<x, v, iter>>

(* A force the layout cannot give raises, before any unit has moved. *)
Raise ==
  /\ phase = "run"
  /\ raising # {}
  /\ phase' = "ZeroDivisionError(repel)"
  /\ UNCHANGED <<x, v, iter, force, raising>>

(* The layout's forces become known, or change, while the loop runs. *)
Sense ==
  /\ phase = "run"
  /\ Field
  /\ UNCHANGED <<x, v, iter, phase>>

(* One whole iteration, on the forces of the layout it starts from. *)
Iterate ==
  /\ phase = "run"
  /\ raising = {}
  /\ LET f  == force
         vn == [u \in Units |-> FMul(Friction, v[u] + f[u])]
         displacement == SumFunctionOnSet([u \in Units |-> AbsInt(f[u])], Units)
     IN  /\ v' = vn
         /\ x' = [u \in Units |-> x[u] + vn[u]]
         /\ IF displacement <= DisplacementTolerance \/ iter + 1 = Iterations
            THEN phase' = "done" /\ iter' = iter
            ELSE phase' = "run" /\ iter' = iter + 1
  /\ Field

(* A caller builds a new object on the same units and starts again, as   *)
(* objectivefn does; the new positions are the caller's (x' is left free). *)
Restart ==
  /\ phase = "done"
  /\ phase' = "setup"
  /\ v' = [u \in Units |-> 0]
  /\ iter' = 0
  /\ Field

Next == Start \/ Sense \/ Raise \/ Iterate \/ Restart

Spec == Init /\ [][Next]_vars
=============================================================================
