CONSTANTS
  Unit = 1024
  N = 3
  AnchorChoices = {0, 1, 2, 3}
  SChoices = {1, 3}
  Iterations = 8
  Friction = 512
  Ratio = 410
  Xar <- MC_Xar
  Tolerance = 1
  DisplacementTolerance = 1
  PositionTolerance = 10
  OptimizeRatio = 410
  Stride = 2
SPECIFICATION SpecH
CHECK_DEADLOCK FALSE
INVARIANTS
  TypeOK
  LoopNeverRaises
  StepWithinClosest
  BoxCoversSamples
  RepulsionSeesOverlaps
  ReturnsBestRatio
PROPERTY
  JacobiIterations
