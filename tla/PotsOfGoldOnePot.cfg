CONSTANTS
  Vals = {0, 1, 2}
  MaxPots = 5
SPECIFICATION Spec
CHECK_DEADLOCK FALSE
INVARIANT
  SolveNeverRaises
