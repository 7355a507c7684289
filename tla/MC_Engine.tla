------------------------------ MODULE MC_Engine ------------------------------
(* The constants of main()'s choice 1 (friction 0.5, ratio 0.4,            *)
(* positionratio 1.3, tolerance and displacement_tolerance 0.001,          *)
(* positiontolerance 0.01, optimize_ratio 0.4 by default) in units of      *)
(* 1/1024; three collinear units on four anchor longitudes.                *)
EXTENDS ObjectiveSearch

(* objectivefn's candidates: main()'s positionratio 1.3, then 0.  Engine  *)
(* alone calls make() once, with 1.3.                                      *)
MC_Xar == <<1331, 0>>
MC_XarOne == <<1331>>

(* Two auxiliary variables.  vStart holds the velocities at the start of  *)
(* the current iteration: EndIteration, the only step taken at pc = "end", *)
(* records the velocities the force loop left.  fEnd holds, once the force *)
(* loop is over, the force of every unit on the positions, which the loop  *)
(* has not moved; it is the engine's own Force, computed once per          *)
(* iteration.                                                               *)
VARIABLES vStart, fEnd

NoForces == [u \in Units |-> 0]

InitH == SearchInit /\ vStart = x_vectors /\ fEnd = NoForces

Aux ==
  /\ vStart' = IF pc = "end" THEN x_vectors
               ELSE IF pc' = "setup" THEN x_vectors' ELSE vStart
  /\ fEnd' = IF pc' = "end" /\ pc # "end"
             THEN [u \in Units |-> Force(x_values', u)]
             ELSE IF pc' = "end" THEN fEnd ELSE NoForces

NextH == \/ Setup /\ UNCHANGED searchVars /\ Aux
         \/ ForceStep /\ UNCHANGED searchVars /\ Aux
         \/ EndIteration /\ UNCHANGED searchVars /\ Aux
         \/ NextCandidate /\ Aux
         \/ Return /\ Aux

SpecH == InitH /\ [][NextH]_<<allVars, vStart, fEnd>>

(* The abstract loop seen through the engine: positions as they are, the  *)
(* velocities of the iteration's start, the units whose repulsion would   *)
(* divide by a zero distance, and, once the force loop is over, the force *)
(* field of the positions.  Force is the engine's own force of a unit on  *)
(* a layout, so the check is on the scheduling, not on the force model.   *)
Abstract == INSTANCE IterationAbstract
  WITH x <- x_values, v <- vStart, iter <- iteration,
       phase <- IF pc = "setup" THEN "setup"
                ELSE IF status = "ZeroDivisionError(proximity)" THEN "setup"
                ELSE IF status # "ok" THEN status
                ELSE IF pc = "done" THEN "done" ELSE "run",
       raising <- IF pc \in {"force", "end"} \/ status = "ZeroDivisionError(repel)"
                  THEN {u \in Units : RepelDividesByZero(x_values, u)} ELSE {},
       force <- fEnd

(* The per-unit force loop of make() followed by the position update is   *)
(* one Jacobi iteration: no unit's force sees a velocity or a position     *)
(* updated earlier in the same iteration, every unit moves by its new      *)
(* velocity together, and the loop stops as the abstract loop does.         *)
JacobiIterations == Abstract!Spec
=============================================================================
