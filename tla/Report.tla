------------------------------- MODULE Report -------------------------------
(***************************************************************************)
(* The documents a series leaves behind: the row of a sub-game              *)
(* (sdk/series_log.py), the totals and the tie rule (domain/scoring.py) and *)
(* the result artifact (report/artifacts.py, report/schema.py).  A Python   *)
(* dict keyed by the two group ids is a function of the set of the two: of  *)
(* two equal keys the later value stays.                                    *)
(***************************************************************************)
EXTENDS Integers, Sequences, FiniteSets

CONSTANT Scoring  \* the scoring block of game.json

ScoreKey ==
  {"capture_cop", "capture_thief", "survival_cop", "survival_thief", "technical_loss",
   "tie_score"}

\* ScoreTable.__init__: anything else is a ConfigError.
TableAccepted == \A key \in ScoreKey : key \in DOMAIN Scoring /\ Scoring[key] \in Int

ASSUME ReportAssumption == TableAccepted

OpponentRole(role) == IF role = "police" THEN "thief" ELSE "police"

NoGroup == "none"

\* {my_gid: a, opp_gid: b}
Keyed(my, a, opp, b) == [g \in {my, opp} |-> IF g = opp THEN b ELSE a]

-----------------------------------------------------------------------------
\* A result names its winner; anything else is technical to both.
WinnerRole(result) ==
  IF result = "capture" THEN "police"
  ELSE IF result = "survival" THEN "thief" ELSE "none"

ScoreSubgame(result, role) ==
  IF result = "capture" THEN Scoring[IF role = "police" THEN "capture_cop" ELSE "capture_thief"]
  ELSE IF result = "survival"
       THEN Scoring[IF role = "police" THEN "survival_cop" ELSE "survival_thief"]
       ELSE Scoring["technical_loss"]

RowOneSided(number, role, my, opp, result, audit) ==
  [sub_game_number |-> number,
   roles |-> Keyed(my, role, opp, OpponentRole(role)),
   result |-> result, winner_role |-> WinnerRole(result),
   score |-> Keyed(my, ScoreSubgame(result, role), opp, ScoreSubgame(result, role)),
   audit |-> audit]

SubRow(number, role, my, opp, result, audit) ==
  [sub_game_number |-> number,
   roles |-> Keyed(my, role, opp, OpponentRole(role)),
   result |-> result, winner_role |-> WinnerRole(result),
   score |-> Keyed(my, ScoreSubgame(result, role),
                   opp, ScoreSubgame(result, OpponentRole(role))),
   audit |-> audit]

-----------------------------------------------------------------------------
Sum(rows, g) ==
  LET upTo[i \in 0 .. Len(rows)] ==
        IF i = 0 THEN 0
        ELSE upTo[i - 1] + (IF g \in DOMAIN rows[i].score THEN rows[i].score[g] ELSE 0)
  IN  upTo[Len(rows)]

Leaders(sums) == {g \in DOMAIN sums : \A h \in DOMAIN sums : sums[g] >= sums[h]}

BonusForTheLeaders(rows) ==
  LET sums == [g \in UNION {DOMAIN rows[i].score : i \in DOMAIN rows} |-> Sum(rows, g)]
      top == Leaders(sums)
  IN  [totals |-> [g \in DOMAIN sums |->
                     IF g \in top THEN sums[g] + Scoring["tie_score"] ELSE sums[g]],
       tie |-> Cardinality(top) > 1,
       winner |-> IF Cardinality(top) = 1 THEN CHOOSE g \in top : TRUE ELSE NoGroup]

\* One leader wins; several share the tie bonus.
SeriesTotals(rows) ==
  LET sums == [g \in UNION {DOMAIN rows[i].score : i \in DOMAIN rows} |-> Sum(rows, g)]
      top == Leaders(sums)
      tie == Cardinality(top) > 1
  IN  [totals |-> [g \in DOMAIN sums |->
                     IF tie /\ g \in top THEN sums[g] + Scoring["tie_score"] ELSE sums[g]],
       tie |-> tie,
       winner |-> IF Cardinality(top) = 1 THEN CHOOSE g \in top : TRUE ELSE NoGroup]

-----------------------------------------------------------------------------
WinnerGroup(row) ==
  LET holders == {g \in DOMAIN row.roles : row.roles[g] = row.winner_role}
  IN  IF holders = {} THEN NoGroup ELSE CHOOSE g \in holders : TRUE

\* Anything that is no capture and no survival is a technical loss.  (The
\* third word the code passes through, tie, is no sub-game's result.)
ResultString(row) ==
  IF row.result \in {"capture", "survival"} THEN row.result ELSE "technical_loss"

\* One condensed row of the artifact: of the audit, its verdict only.
SubResultRow(row) ==
  [sub_game_number |-> row.sub_game_number, roles |-> row.roles,
   result |-> ResultString(row), winner_group |-> WinnerGroup(row), score |-> row.score,
   log_verified |-> row.audit.passed, tampered |-> row.audit.forgery]

ResultArtifact(rows, my, opp) ==
  LET sums == SeriesTotals(rows)
      condensed == [i \in DOMAIN rows |-> SubResultRow(rows[i])]
  IN  [groups |-> {my, opp}, sub_games |-> condensed,
       total_score |-> sums.totals, winner_group |-> sums.winner, series_tie |-> sums.tie,
       sub_games_won |-> [g \in {my, opp} |->
          Cardinality({i \in DOMAIN rows : condensed[i].winner_group = g})],
       confirmed |-> \A i \in DOMAIN rows : condensed[i].log_verified]
=============================================================================
