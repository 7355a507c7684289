CONSTANTS
  Vals = {0, 1, 2, 3}
  MaxLen = 5
  Methods = {"dp", "optimal"}
SPECIFICATION FairSpec
CHECK_DEADLOCK FALSE
INVARIANTS
  TypeOK
  TailsIncreasing
  LisIsIncreasingSubsequence
  LengthIsLIS
PROPERTY
  Termination
