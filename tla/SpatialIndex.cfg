CONSTANTS
  N = 3
  Coord = {0, 1, 2}
  Radius <- MC_Radius
  MaxIter = 2
SPECIFICATION Spec
CHECK_DEADLOCK FALSE
INVARIANTS
  TypeOK
  NoKeyError
  TreeHoldsEveryUnitOnce
  QueryMatchesBox
