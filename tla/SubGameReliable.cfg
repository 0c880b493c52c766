CONSTANTS
  GridSize = 3
  MoveSet <- MCMoveSet
  MaxBarriers = 2
  ThiefStart <- MCThiefCorner
  CopStart <- MCCopDiagonal
  MaxMoves = 3
  SurvivalThreshold <- MCThreshold3
  MaxBreaches = 2
  Faults = FALSE
  MaxCopies = 1
SPECIFICATION FairSpec
INVARIANT OutcomesAgree
PROPERTIES
  Termination
  CaughtIsSettled
