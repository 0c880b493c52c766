------------------------------- MODULE Brains -------------------------------
(***************************************************************************)
(* strategy/: the move policies, as what each brain decides from its own    *)
(* state and its belief's mode.  A brain never sees the opponent's cell.    *)
(*                                                                         *)
(* "me" is the OwnGameState a brain reads: [at, visited, walls, used].      *)
(* Every policy is deterministic but the greedy cop's coin.  Weights are    *)
(* tenths, probabilities thousandths; the code's floats agree with them up  *)
(* to a rounding in the last place, which could only break a tie otherwise. *)
(***************************************************************************)
EXTENDS Rules, Paths

CONSTANTS
  FinisherP,        \* barrier_finisher_p, thousandths
  CageRadius,       \* cage_radius
  WDist, WMob,      \* w_dist, w_mob, tenths
  MobilityK,        \* mobility_k
  JailMinMobility,  \* jail_min_mobility
  DecoyMargin       \* decoy_margin

ASSUME BrainAssumption ==
  /\ {FinisherP, CageRadius, WDist, WMob, MobilityK, JailMinMobility, DecoyMargin}
        \subseteq Nat

Move(dir) == [type |-> "MOVE", dir |-> dir]
Barrier(dir) == [type |-> "BARRIER", dir |-> dir]
HoldStill == [type |-> "HOLD", dir |-> "STAY"]

Some(set) == CHOOSE x \in set : TRUE

\* The place with the highest score, the first of several.
FirstBest[scored \in SUBSET (Int \X Nat)] ==
  (CHOOSE p \in scored : \A q \in scored :
     p[1] > q[1] \/ (p[1] = q[1] /\ p[2] <= q[2]))[2]

\* Python's max(moves, key=...): the first of the best; min is FirstMax of the
\* negated key.
FirstMax(moves, Key(_)) == MoveSet[FirstBest[{<<Key(MoveSet[i]), i>> : i \in moves}]]

\* base.BrainBase._decide_move: the legal move picked, HOLD only when there is
\* none to pick from.
MoveOrHold(me, pick) ==
  IF Moves(me.at, me.walls) = {} THEN HoldStill ELSE Move(pick)

-----------------------------------------------------------------------------
\* The interceptor cop (strategy/police.py).

DirectionToward(origin, dest) ==
  CHOOSE dir \in Direction : Shift(origin, dir) = dest

SelfHarmingNever(pos, target, walls, wall) == FALSE

\* _self_harming: the wall lengthens or severs the cop's own route.
SelfHarming(pos, target, walls, wall) ==
  LET after == BfsDistance(pos, target, walls \cup {wall})
  IN after = Far \/ after > BfsDistance(pos, target, walls)

\* _tempo_lane: the thief's best wallable escape lane, as a set of at most one.
TempoLane(pos, target, walls, options) ==
  LET distance == BfsDistance(pos, target, walls)
      lanes == {Shift(target, dir) : dir \in LegalMoves(target, walls)}
      safe == {c \in (lanes \cap options) \ {pos, target} :
                 ~SelfHarming(pos, target, walls, c)}
      flee(c) == BfsDistance(c, pos, walls)
  IN IF distance = 0 \/ distance = Far \/ distance > CageRadius THEN {}
     ELSE {c \in safe : \A d \in safe :
             flee(c) > flee(d) \/ (flee(c) = flee(d) /\ Rank(c) <= Rank(d))}

\* InterceptorPoliceBrain._pick_move: nearest to the mode, then most mobile.
Chase(me, target) ==
  LET key(dir) ==
        LET cell == Shift(me.at, dir)
        IN Exits(cell, me.walls) - 5 * BfsDistance(cell, target, me.walls)
  IN FirstMax(Moves(me.at, me.walls), key)

\* InterceptorPoliceBrain._decide_move: land on the mode, wall it, wall its
\* lane, or chase.
InterceptorDecides(me, target, confidence) ==
  LET options == BarrierOptions(me.at, me.walls)
      sure == confidence >= FinisherP
      landing == {dir \in LegalMoves(me.at, me.walls) \ {"STAY"} :
                    Shift(me.at, dir) = target}
      charged == me.used < MaxBarriers
      lane == TempoLane(me.at, target, me.walls, options)
  IN CASE sure /\ landing # {}                       -> Move(Some(landing))
       [] sure /\ landing = {} /\ charged /\ target \in options
                                                     -> Barrier(DirectionToward(me.at, target))
       [] charged /\ lane # {} /\ ~(sure /\ (landing # {} \/ target \in options))
                                                     -> Barrier(DirectionToward(me.at, Some(lane)))
       [] OTHER -> MoveOrHold(me, Chase(me, target))

-----------------------------------------------------------------------------
\* The survivor thief (strategy/thief.py) and its decoy (strategy/decoy.py).

\* The cop's unused charges: every placement is declared, so |barriers| counts
\* them.
Charges(me) ==
  IF MaxBarriers > Cardinality(me.walls) THEN MaxBarriers - Cardinality(me.walls) ELSE 0

JailRisk(me, cell) == Charges(me) > 0 /\ Exits(cell, me.walls) < JailMinMobility

BanOne == 1

\* Larger than any score, so a banned cell is entered only if all are banned.
Ban == (WDist + WMob) * Far + 10

\* score: flee distance, mobility, and the ban.
Score(me, threat, cell) ==
  WDist * BfsDistance(cell, threat, me.walls)
    + WMob * Cardinality(ReachableCells(cell, me.walls, MobilityK))
    - (IF JailRisk(me, cell) THEN Ban ELSE 0)

\* propose_decoy: with the cop at DecoyMargin or more, of the safe steps the
\* one farthest from the escape corridor (the safe cell farthest from the cop);
\* none if no step keeps the distance and the exits.
DecoySteps(me, threat) ==
  LET flee == BfsDistance(me.at, threat, me.walls)
      steps == {Shift(me.at, d) : d \in LegalMoves(me.at, me.walls) \ {"STAY"}}
      reach == {<<BfsDistance(c, threat, me.walls), c>> : c \in steps}
  IN IF flee = Far \/ flee < DecoyMargin THEN {}
     ELSE {s \in reach : s[1] # Far /\ s[1] >= flee - 1 /\ ~JailRisk(me, s[2])}

Decoy(me, threat) ==
  LET lure[safe \in SUBSET (Nat \X Cell)] ==
        LET corridor == (CHOOSE s \in safe : \A t \in safe :
              s[1] > t[1] \/ (s[1] = t[1] /\ Rank(s[2]) >= Rank(t[2])))[2]
        IN {s[2] : s \in {s \in safe : \A t \in safe :
              \/ Manhattan(s[2], corridor) > Manhattan(t[2], corridor)
              \/ /\ Manhattan(s[2], corridor) = Manhattan(t[2], corridor)
                 /\ Rank(s[2]) >= Rank(t[2])}}
  IN lure[DecoySteps(me, threat)]

\* SurvivorThiefBrain._pick_move.
Flee(me, threat) ==
  FirstMax(Moves(me.at, me.walls), LAMBDA dir : Score(me, threat, Shift(me.at, dir)))

SurvivorDecides(me, threat) == MoveOrHold(me, Flee(me, threat))

\* With decoy_enabled the decoy comes first.
DecoyDecides(me, threat) ==
  IF DecoySteps(me, threat) = {} THEN SurvivorDecides(me, threat)
  ELSE Move(DirectionToward(me.at, Some(Decoy(me, threat))))

-----------------------------------------------------------------------------
\* The baselines (strategy/greedy.py): barrier-blind distances.

GreedyThiefDecides(me, target) ==
  LET key(dir) == LET cell == Shift(me.at, dir)
                  IN 2 * Manhattan(cell, target) + (IF cell \in me.visited THEN 0 ELSE 1)
  IN MoveOrHold(me, FirstMax(Moves(me.at, me.walls), key))

\* The coin is tossed only if a wall is left and the pick is a real step.
GreedyStep(me, target) ==
  MoveOrHold(me, FirstMax(Moves(me.at, me.walls),
                          LAMBDA dir : -Manhattan(Shift(me.at, dir), target)))

TossesFreely(me, target) ==
  GreedyStep(me, target).type = "MOVE" /\ GreedyStep(me, target).dir # "STAY"

TossesCoin(me, target) ==
  /\ GreedyStep(me, target).type = "MOVE"
  /\ GreedyStep(me, target).dir # "STAY"
  /\ me.used < MaxBarriers

GreedyPoliceDecides(me, target, heads) ==
  LET step == GreedyStep(me, target)
  IN IF TossesCoin(me, target) /\ heads THEN Barrier(step.dir) ELSE step
=============================================================================
