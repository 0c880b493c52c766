CONSTANTS
  NumGames = 2
  Rounds = 2
  MaxBreaches = 2
  Scoring <- MCScoring
  GroupId <- MCGroups
  Faults = 0
  MaxCopies = 1
SPECIFICATION Spec
INVARIANT DrainIsSafe
