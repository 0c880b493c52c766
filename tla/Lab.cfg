CONSTANTS
  GridSize = 4
  MoveSet <- MCMoveSet
  MaxBarriers = 3
  FinisherP = 800
  CageRadius = 2
  WDist = 10
  WMob = 4
  MobilityK = 3
  JailMinMobility = 2
  DecoyMargin = 4
  SmellGrid = 5
  Emit0 = 900
  Rho = 100
  Floor0 = 500
  Grain = 100
  ZeroWeight = 6
  ResyncAt = 36841
  Starts <- MCStarts
  SurvivalThreshold = 9
  MaxMoves = 8
  Points <- MCPoints
  Laws <- MCLaws
  Pairs = 1
  Matches <- MCMatches
  Coins <- MCCoins
SPECIFICATION Spec
INVARIANTS
  NoGameRaises
  ModeIsTruth
  HonestStreamIsExplained
  MirrorMatchIsEven
PROPERTIES
  KeepsRoute
  AvoidsPockets
