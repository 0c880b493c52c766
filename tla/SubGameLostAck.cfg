CONSTANTS
  GridSize = 2
  MoveSet <- MCMoveSet
  MaxBarriers = 2
  ThiefStart <- MCThiefCorner
  CopStart <- MCCopDiagonal
  MaxMoves = 2
  SurvivalThreshold <- MCThreshold2
  MaxBreaches = 2
  Faults = TRUE
  MaxCopies = 0
SPECIFICATION Spec
INVARIANT TechnicalLossIsMutual
