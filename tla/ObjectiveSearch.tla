---------------------------- MODULE ObjectiveSearch ----------------------------
(***************************************************************************)
(* objectivefn(xar) (dorlingcartogram.py lines 26-38): for every candidate *)
(* positionratio x of xar it builds a new Cartogram on the same dataset,   *)
(* runs make() (the actions of Engine), keeps the first least objective    *)
(* and prints the pair; then it returns the best candidate.  An exception  *)
(* of make() ends objectivefn, so no step leaves such a state.             *)
(***************************************************************************)
EXTENDS Engine

CONSTANT Xar   \* objectivefn's argument, positionratios in units of 1/Unit

ASSUME Xar \in Seq(Nat) /\ Len(Xar) > 0

VARIABLES
  xi,       \* the index i of enumerate(xar) of the current candidate
  optimal,  \* optimal
  best,     \* best
  printed,  \* the <<x, objective>> pairs line 37 has printed
  returned  \* <<xar[best]>> once objectivefn has returned

searchVars == <<xi, optimal, best, printed, returned>>
allVars == <<vars, searchVars>>

(* optimal = 10e10.  Every score of these datasets is below 2^30, which is *)
(* below 10e10 in units of 1/Unit, so comparisons decide alike.            *)
Optimal0 == 2^30

SearchInit ==
  /\ Dataset
  /\ Constructed(Xar[1])
  /\ xi = 0 /\ optimal = Optimal0 /\ best = -1
  /\ printed = <<>> /\ returned = <<>>

(* A bug variant of Improves that lets a tie replace the best so far. *)
ImprovesOrTies(objective, opt) == objective <= opt

(* Line 34: `if objective < optimal`. *)
Improves(objective, opt) == objective < opt

(* One make() of the current candidate. *)
MakeStep == (Setup \/ ForceStep \/ EndIteration) /\ UNCHANGED searchVars

(* Lines 32-37 once make() has returned: its objective, the comparison   *)
(* with the best so far, and the print.                                    *)
Recorded ==
  /\ pc = "done" /\ status = "ok" /\ optimize_value # <<>>
  /\ returned = <<>>
  /\ LET objective == optimize_value[1] IN
       /\ IF Improves(objective, optimal)
          THEN optimal' = objective /\ best' = xi
          ELSE UNCHANGED <<optimal, best>>
       /\ printed' = Append(printed, <<Xar[xi + 1], objective>>)
  /\ xi' = xi + 1

(* The next pass of the for loop: a new Cartogram with the next ratio. *)
NextCandidate ==
  /\ xi + 1 < Len(Xar)
  /\ Recorded
  /\ Construct(Xar[xi + 2])
  /\ UNCHANGED <<anchor, sval, nbrs, returned>>

(* Line 38 after the last candidate: xar[best], Python's xar[-1] when no  *)
(* objective was below 10e10.                                             *)
Return ==
  /\ xi + 1 = Len(Xar)
  /\ Recorded
  /\ returned' = <<Xar[IF best' = -1 THEN Len(Xar) ELSE best' + 1]>>
  /\ UNCHANGED vars

SearchNext == MakeStep \/ NextCandidate \/ Return

SearchSpec == SearchInit /\ [][SearchNext]_allVars

-----------------------------------------------------------------------------
(* objectivefn returns the candidate whose make() scored least, the first *)
(* of them on a tie, as its printed log shows.  A slip in the comparison *)
(* or in the index kept as best shows only when two ratios tie or the     *)
(* best is not the last.                                                   *)
ReturnsBestRatio ==
  returned # <<>> =>
    \E m \in DOMAIN printed :
      /\ returned[1] = printed[m][1]
      /\ \A c \in DOMAIN printed :
           /\ printed[m][2] <= printed[c][2]
           /\ c < m => printed[c][2] > printed[m][2]

=============================================================================
