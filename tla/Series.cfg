CONSTANTS
  NumGames = 3
  Rounds = 2
  MaxBreaches = 2
  Scoring <- MCScoring
  GroupId <- MCGroups
  Faults = 4
  MaxCopies = 0
SPECIFICATION FairSpec
INVARIANTS
  DrainIsSafe
  TurnsAreCurrent
  AgreementsAreCurrent
  CleanSeriesAgrees
  ReportAddsUp
PROPERTY SeriesEnds
