CONSTANTS
  Letters = {"p", "q"}
  MaxLen = 4
  Methods = {"recursive", "iterative", "optimal"}
SPECIFICATION Spec
CHECK_DEADLOCK FALSE
INVARIANTS
  TypeOK
  TableCellsAreDistances
  AnswerIsEditDistance
