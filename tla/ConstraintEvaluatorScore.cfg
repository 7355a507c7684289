CONSTANTS
  N = 3
  Coord = {0, 1, 2, 3}
  Radius <- MC_Radius
  Anchor <- MC_Anchor
  Tolerance = 0
  PositionTolerance = 0
  OptimizeRatio = 4
SPECIFICATION Spec
CHECK_DEADLOCK FALSE
INVARIANTS
  ScoreMatchesSpec
