CONSTANTS
  NumGames = 2
  Rounds = 2
  MaxBreaches = 2
  Scoring <- MCScoring
  GroupId <- MCGroups
  Faults = 2
  MaxCopies = 0
SPECIFICATION Spec
INVARIANT NoFalseForgery
