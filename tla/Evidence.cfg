CONSTANTS
  Copies <- MCCopies
  GroupId <- MCGroupId
  NumGames = 2
  BoardSize = 7
  MaxTurns = 1
  MaxRestarts = 1
  MaxOffers = 2
SPECIFICATION Spec
INVARIANTS
  AgreedAlike
  ConvictedForCause
  LogsReplay
