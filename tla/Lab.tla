-------------------------------- MODULE Lab ---------------------------------
(***************************************************************************)
(* The simulation lab (lab/, sdk/lab_gate.py): two agents meet in one       *)
(* process, each seed played twice with the roles swapped, and the rows     *)
(* decide which agent's brains are better.  The arena is a sequential       *)
(* referee: one action per turn, with everything the loop does in it.       *)
(*                                                                         *)
(* A side's belief is ScentBelief (run_lab_versus, use_belief_v2 off); the  *)
(* field seen keeps the snapshot before the latest one it was shown, which  *)
(* is what BeliefV2, fed with the same stream, inverts.                     *)
(***************************************************************************)
EXTENDS Brains, Beliefs

CONSTANTS
  Starts,                \* the cop_start and thief_start looked at
  SurvivalThreshold, MaxMoves,
  Points,                \* the scoring block
  Laws,                  \* the dialects looked at
  Pairs,                 \* n_games
  Matches,               \* the line-ups looked at: agent -> role -> its brain
  Coins                  \* the coin sequences looked at, one toss per cop turn

Role == {"police", "thief"}
Opponent(r) == IF r = "police" THEN "thief" ELSE "police"

Agent == {"A", "B"}
OtherAgent(a) == IF a = "A" THEN "B" ELSE "A"

\* The shipped policies, by the role they play.
LineUp == [police : {"interceptor", "greedy cop"}, thief : {"survivor", "decoy", "greedy"}]

ASSUME LabAssumption ==
  /\ \A s \in Starts : s["police"] \in Cell /\ s["thief"] \in Cell /\ s["police"] # s["thief"]
  /\ SurvivalThreshold \in Nat \ {0} /\ MaxMoves \in Nat
  /\ Laws \subseteq Law /\ Pairs \in Nat \ {0}
  /\ Matches \subseteq [Agent -> LineUp]
  /\ Coins \subseteq [1 .. MaxMoves -> BOOLEAN]
  /\ \A result \in {"capture", "survival", "technical_loss"}, r \in Role :
       Points[result][r] \in Int

VARIABLES
  law,       \* pheromones.dialect
  start,     \* role -> its start cell
  spec,      \* agent -> its brains
  luck,      \* the coins of this seed's police rng, by the cop's turn
  pair,      \* the seed being played
  lead,      \* the agent that plays the police
  own,       \* role -> OwnGameState
  field,     \* role -> its ScentModel's field
  snap,      \* role -> its last broadcast, Silent before the first
  mode, conf, \* role -> ScentBelief's mode and its p, thousandths
  seen,      \* role -> the two latest snapshots it was shown, oldest first
  counter,   \* the thief's StepCounter
  copSteps,
  toMove,
  outcome,   \* of this game: result, winner and kind; "playing" before
  rows       \* run_match's rows

world == <<own, field, snap, mode, conf, seen, counter, copSteps, toMove, outcome>>
match == <<law, start, spec, luck, pair, lead, rows>>
vars == <<world, match>>

Playing == [result |-> "playing", winner |-> "none", kind |-> "none"]
Capture(kind) == [result |-> "capture", winner |-> "police", kind |-> kind]
Survival == [result |-> "survival", winner |-> "thief", kind |-> "none"]
\* An IllegalMoveError, which nothing catches: the match is lost.
Raised == [result |-> "raised", winner |-> "none", kind |-> "none"]

\* build: a fresh stack for each side.
FreshSide(r) == [at |-> start[r], visited |-> {start[r]}, walls |-> {}, used |-> 0]

FreshOwn == [r \in Role |-> FreshSide(r)]
NoScent == [r \in Role |-> Silent]
FreshMode == [r \in Role |-> start[Opponent(r)]]
FreshConf == [r \in Role |-> 1000]
\* run_lab's line-up: both agents bring the same two classes.
RunLab(police, thief) == [a \in Agent |-> [police |-> police, thief |-> thief]]

\* belief_v2_factory: what BeliefV2 takes for the first broadcast is a stamp
\* on the opponent's start cell, not yet faded.
Seeded == [r \in Role |->
  <<Silent, Snapshot(Deposited(law, Silent, start[Opponent(r)]))>>]

Init ==
  /\ law \in Laws
  /\ start \in Starts
  /\ spec \in Matches
  /\ luck \in Coins
  /\ pair = 1 /\ lead = "A"
  /\ rows = << >>
  /\ own = FreshOwn /\ field = NoScent /\ snap = NoScent
  /\ mode = FreshMode /\ conf = FreshConf /\ seen = Seeded
  /\ counter = 0 /\ copSteps = 0
  /\ toMove = "thief" /\ outcome = Playing

-----------------------------------------------------------------------------
\* ScentBelief.observe_smell: an empty snapshot leaves the belief alone.
Reads(r, cells) ==
  /\ mode' = [mode EXCEPT ![r] = IF cells = Silent THEN @ ELSE Strongest(cells)]
  /\ conf' = [conf EXCEPT ![r] = IF cells = Silent THEN @
                                 ELSE IF cells[mode'[r]] > 1000 THEN 1000 ELSE cells[mode'[r]]]

\* Side.decide, the belief's half: diffuse is a no-op, then the opponent's
\* latest broadcast is observed.
Observe(r) ==
  /\ Reads(r, snap[Opponent(r)])
  /\ seen' = [seen EXCEPT ![r] = <<@[2], Parsed(snap[Opponent(r)])>>]

\* _spec_for: the class that plays the role is the agent's own.
BrainOf(r) == spec[IF r = "police" THEN lead ELSE OtherAgent(lead)][r]

\* LabView: what a brain may see on its turn, of which the shipped ones read
\* their own state and the belief's mode and p.
View(r) == [state |-> own[r], most_likely |-> mode'[r], most_likely_p |-> conf'[r]]

\* BrainBase.decide; what its talk says decides nothing.
Decides(r) ==
  LET brain == BrainOf(r)
      view == View(r)
      me == view.state
      target == view.most_likely
  IN CASE brain = "interceptor" -> InterceptorDecides(me, target, view.most_likely_p)
       [] brain = "greedy cop"  -> GreedyPoliceDecides(me, target, luck[copSteps + 1])
       [] brain = "survivor"    -> SurvivorDecides(me, target)
       [] brain = "decoy"       -> DecoyDecides(me, target)
       [] brain = "greedy"      -> GreedyThiefDecides(me, target)

\* _apply_step's validate_step; HOLD is a STAY, and is validated like any step.
StepOk(r, dir) == StepLegal(own[r].at, dir, own[r].walls)

Stepped(r, dir) ==
  own' = [own EXCEPT ![r].at = Shift(@, dir),
                     ![r].visited = @ \cup {Shift(own[r].at, dir)}]

\* Side.emit, where the side now stands.
Emits(r) ==
  /\ field' = [field EXCEPT ![r] = Emitted(law, @, own'[r].at)]
  /\ snap' = [snap EXCEPT ![r] = Snapshot(field'[r])]

Raises ==
  /\ outcome' = Raised
  /\ UNCHANGED <<own, field, snap>>

\* The checks after the thief's move: landing first, then its own clock, then
\* the cop's ceiling.
ThiefVerdict(at, clock) ==
  IF CaptureByLanding(own["police"].at, at) THEN Capture("landing")
  ELSE IF clock >= SurvivalThreshold \/ copSteps >= MaxMoves THEN Survival
  ELSE Playing

\* The thief's StepCounter: its own valid moves count, and nothing else does.
RecordValidMove == counter' = counter + 1
RecordNothing == UNCHANGED counter

ThiefTurn ==
  /\ outcome = Playing /\ toMove = "thief"
  /\ Observe("thief")
  /\ LET dir == Decides("thief").dir IN
       IF StepOk("thief", dir)
       THEN /\ Stepped("thief", dir)
            /\ RecordValidMove
            /\ Emits("thief")
            /\ outcome' = ThiefVerdict(own'["thief"].at, counter + 1)
       ELSE Raises /\ RecordNothing
  /\ toMove' = "police"
  /\ UNCHANGED <<copSteps, match>>

\* apply_barrier, and note_opponent_barrier on the thief's map.
Built(wall) ==
  own' = [r \in Role |-> [own[r] EXCEPT !.walls = @ \cup {wall},
                                       !.used = IF r = "police" THEN @ + 1 ELSE @]]

\* A wall: the cop emits where it stands, and the thief may be under it or out
\* of exits.
Walled(wall) ==
  /\ Built(wall)
  /\ Emits("police")
  /\ outcome' = IF CaptureByBarrier(wall, own["thief"].at) THEN Capture("barrier")
                ELSE IF Jailed(own["thief"].at, own["thief"].walls \cup {wall})
                THEN Capture("jailed")
                ELSE Playing

Landed(dir) ==
  /\ Stepped("police", dir)
  /\ Emits("police")
  /\ outcome' = IF CaptureByLanding(own'["police"].at, own["thief"].at)
                THEN Capture("landing") ELSE Playing

\* _LabBrain.decide: the cell a barrier decision names.
WallOf(r, decision) == Shift(own[r].at, decision.dir)

\* A wall costs the cop's turn like a step (ruling A5).
CopTurn ==
  /\ outcome = Playing /\ toMove = "police"
  /\ Observe("police")
  /\ copSteps' = copSteps + 1
  /\ LET me == own["police"]
         decision == Decides("police")
         wall == WallOf("police", decision)
     IN \/ /\ decision.type = "BARRIER" /\ BarrierLegal(me.at, wall, me.walls, me.used)
           /\ Walled(wall)
        \/ /\ decision.type = "BARRIER" /\ ~BarrierLegal(me.at, wall, me.walls, me.used)
           /\ Raises
        \/ /\ decision.type # "BARRIER" /\ StepOk("police", decision.dir)
           /\ Landed(decision.dir)
        \/ /\ decision.type # "BARRIER" /\ ~StepOk("police", decision.dir)
           /\ Raises
  /\ toMove' = "thief"
  /\ RecordNothing
  /\ UNCHANGED match

\* _play_one's row.
RowOf ==
  [police |-> lead, result |-> outcome.result, winnerRole |-> outcome.winner,
   winner |-> CASE outcome.winner = "police" -> lead
                [] outcome.winner = "thief"  -> OtherAgent(lead)
                [] OTHER                     -> "none",
   steps |-> counter, copSteps |-> copSteps, kind |-> outcome.kind]

FreshLuck == luck' \in Coins

\* The seed of the next game: the same for B as police, then base_seed + pair.
NextSeed == IF lead = "A" THEN luck' = luck ELSE luck' \in Coins

\* run_match: A as police, then B on the same seed, then the next seed.
NextGame ==
  /\ outcome.result \in {"capture", "survival"}
  /\ rows' = Append(rows, RowOf)
  /\ IF Len(rows') < 2 * Pairs
     THEN /\ own' = FreshOwn /\ field' = NoScent /\ snap' = NoScent
          /\ mode' = FreshMode /\ conf' = FreshConf /\ seen' = Seeded
          /\ counter' = 0 /\ copSteps' = 0
          /\ toMove' = "thief" /\ outcome' = Playing
          /\ lead' = OtherAgent(lead)
          /\ pair' = IF lead = "B" THEN pair + 1 ELSE pair
          /\ NextSeed
     ELSE /\ outcome' = [outcome EXCEPT !.result = "over"]
          /\ UNCHANGED <<own, field, snap, mode, conf, seen, counter, copSteps, toMove,
                         pair, lead, luck>>
  /\ UNCHANGED <<law, start, spec>>

Over == outcome.result \in {"over", "raised"}

Next == ThiefTurn \/ CopTurn \/ NextGame \/ (Over /\ UNCHANGED vars)

Spec == Init /\ [][Next]_vars

-----------------------------------------------------------------------------
(* lab/stats.py.                                                            *)

DecisiveWins(agent) == Cardinality({i \in DOMAIN rows : rows[i].winner = agent})

ScoreSubgame(row, r) ==
  IF <<row.result, row.winnerRole>> \in {<<"capture", "police">>, <<"survival", "thief">>}
  THEN Points[row.result][r] ELSE Points["technical_loss"][r]

\* binomial_p_value at 1/2: of the 2^n outcomes of n even games, those with at
\* least that many wins.
UpperTail(wins, n) == Cardinality({won \in SUBSET (1 .. n) : Cardinality(won) >= wins})

\* a_beats_b_p_value's numerator, over 2^Decisive.
Decisive == Cardinality({i \in DOMAIN rows : rows[i].winner # "none"})
Chance(agent) == UpperTail(DecisiveWins(agent), Decisive)

PointsOf(agent) ==
  SumOf([i \in DOMAIN rows |->
    ScoreSubgame(rows[i], IF rows[i].police = agent THEN "police" ELSE "thief")])

\* _summary, with the rate and the p-value of A as the fractions they are.
Summary ==
  [games |-> Len(rows),
   win_rate_A |-> <<DecisiveWins("A"), Decisive>>,
   p_value_A |-> <<Chance("A"), 2 ^ Decisive>>,
   points |-> [a \in Agent |-> PointsOf(a)]]

-----------------------------------------------------------------------------
(* What must hold.                                                          *)

\* Whatever a brain decides from its own map and its belief, the referee's
\* rulebook accepts: no game of a match raises.
NoGameRaises == outcome # Raised

\* Under the subtractive dialect the strongest cell of an honest broadcast is
\* where its sender stands, so the belief a side has just decided on is the
\* opponent's true cell.
ModeIsTruth ==
  law = "reference" /\ outcome = Playing =>
    \/ toMove = "thief" /\ copSteps = 0
    \/ mode[Opponent(toMove)] = own[toMove].at

\* BeliefV2 fed with an honest stream, in order, throws its prior away on the
\* seed's account at most: from the second broadcast on, some cell explains
\* what is observed.  And a resync never loses the sender: its true cell is
\* always among the best refits of the snapshot alone, trail and all.
HonestStreamIsExplained ==
  LET r == Opponent(toMove)
      turns == IF r = "thief" THEN counter ELSE copSteps
  IN  outcome = Playing =>
        /\ turns >= 2 => ~Resyncs(law, seen[r][2], seen[r][1], {})
        /\ copSteps >= 1 => own[toMove].at \in Refit(law, seen[r][2], {})

\* A sure interceptor's wall never lengthens its own way to the thief, unless
\* it ends the game.
KeepsRoute ==
  [][own'["police"].walls # own["police"].walls
     /\ outcome = Playing /\ outcome' = Playing /\ law = "reference"
     /\ spec[lead]["police"] = "interceptor" =>
       BfsDistance(own["police"].at, own["thief"].at, own'["police"].walls)
         <= BfsDistance(own["police"].at, own["thief"].at, own["police"].walls)]_vars

\* While the cop has walls left, a survivor never steps into a pocket one
\* wall could seal if another step avoids it.
SafeSteps(me) ==
  {dir \in LegalMoves(me.at, me.walls) : ~JailRisk(me, Shift(me.at, dir))}

AvoidsPockets ==
  [][counter' = counter + 1
     /\ spec[OtherAgent(lead)]["thief"] = "survivor"
     /\ SafeSteps(own["thief"]) # {} =>
       ~JailRisk(own["thief"], own'["thief"].at)]_vars

\* The promotion test is unbiased: an agent against a copy of itself wins
\* exactly half of the games, with equal points, whatever the seeds, and the
\* p-value never falls below a half.  (run_lab plays every agent against its
\* copy: its p-value can promote nothing.)
MirrorMatchIsEven ==
  outcome.result = "over" /\ spec["A"] = spec["B"] =>
    /\ 2 * Summary.win_rate_A[1] = Summary.win_rate_A[2]
    /\ Summary.points["A"] = Summary.points["B"]
    /\ 2 * Summary.p_value_A[1] >= Summary.p_value_A[2]
=============================================================================
