CONSTANTS
  GridSize = 2
  MoveSet <- MCMoveSet
  MaxBarriers = 2
  ThiefStart <- MCThiefCorner
  CopStart <- MCCopDiagonal
  MaxMoves = 3
  SurvivalThreshold <- MCThreshold3
  MaxBreaches = 2
  Faults = TRUE
  MaxCopies = 0
  Reveals <- MCReveals
SPECIFICATION ForeignSpec
INVARIANTS
  OneReplyPerTurn
  StrikesInARow
  QuotaIsEnforced
  SurvivalNeedsTheClock
PROPERTIES
  SwapIsConvicted
  OnlyDuplicatesHold
