-------------------------- MODULE MC_SpatialIndex --------------------------
(* Three units of radius 1 on a 3 x 3 grid, two iterations: every query   *)
(* range is 2, so a box edge falls on the grid border and both pruning    *)
(* tests of get_point take both outcomes.                                 *)
EXTENDS SpatialIndex

MC_Radius == [i \in 0..2 |-> 1]
=============================================================================
