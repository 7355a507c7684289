----------------------- MODULE MC_ConstraintEvaluator -----------------------
(* Three units of radius 1 on a 4 x 4 grid, every symmetric neighbor      *)
(* table: pairs at distance below, at and above 2 (touching) all occur.    *)
EXTENDS ConstraintEvaluator

MC_Radius == [i \in 0..2 |-> 1]
MC_Anchor == [i \in 0..2 |-> <<i, i>>]
=============================================================================
