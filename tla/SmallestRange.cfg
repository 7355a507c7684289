CONSTANTS
  K = 3
  Vals = {0, 1, 2, 3}
  MaxLen = 3
SPECIFICATION Spec
CHECK_DEADLOCK FALSE
INVARIANTS
  TypeOK
  LargestIsHeapMax
  SmallestIsOptimal
