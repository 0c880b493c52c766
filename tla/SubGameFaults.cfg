CONSTANTS
  GridSize = 3
  MoveSet <- MCMoveSet
  MaxBarriers = 2
  ThiefStart <- MCThiefCorner
  CopStart <- MCCopDiagonal
  MaxMoves = 3
  SurvivalThreshold <- MCThreshold3
  MaxBreaches = 2
  Faults = TRUE
  MaxCopies = 1
SPECIFICATION Spec
INVARIANTS
  TypeOK
  TurnToken
  MapsAgree
  HonestNeverRejected
  NoOpposedVerdicts
  CaptureIsReal
  SurvivalIsEarned
  ThiefHasExit
  NeverForged
PROPERTIES
  LegalLifecycle
