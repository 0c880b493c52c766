CONSTANTS
  GridSize = 3
  MoveSet <- MCMoveSet
  MaxBarriers = 2
  ThiefStart <- MCThiefCorner
  CopStart <- MCCopDiagonal
  MaxMoves = 1
  SurvivalThreshold <- MCThreshold2
  MaxBreaches = 2
  Faults = FALSE
  MaxCopies = 0
SPECIFICATION Spec
INVARIANT OutcomesAgree
