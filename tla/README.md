# TLA+ models of the pursuit peers

This directory holds TLA+ specifications of the P2P Cops-and-Robbers peer in
`src/pursuit/` (paths below are relative to that package unless they start with
`docs/`, `planning/` or `tests/`), the TLC configurations that check them on
small instances, and TLAPS proofs of the core results for every instance.

Two symmetric operating-system processes, one playing the police and one the
thief, play a series of sub-games with no referee. Each keeps only its own
position and a replica of the barrier map; they talk through four MCP tools
(`negotiate`, `receive_turn`, `submit_audit`, `receive_control`), each of which
enqueues into an inbox and acknowledges. Everything hard in this program comes
from that: every fact is held twice, a call can be resent after it has been
delivered, and a peer that gives up settles on its own.

## 1. Inventory

| Component | State | Operations | Talks to |
|---|---|---|---|
| Board and rules (`domain/board.py`, `domain/rules.py`) | grid size, move set | `step`, `legal_moves`, `barrier_options`, `validate_barrier`, `capture_by_*`, `jailed`, `survived` | called by sender, handler, arena |
| Own state (`domain/own_state.py`) | position, barriers (both sides'), quota counter, step number | `apply_step`, `apply_barrier`, `note_opponent_barrier` | sender, handler |
| Lifecycle (`peer/fsm.py`) | state, state to resume to | `advance` | runtime, sender, handler |
| Runtime (`peer/runtime.py`) | the loop's owed response, max_moves | `run`, `_turn_loop` | everything below |
| Sender (`peer/turn_sender.py`) | step counter | `take_turn`, `_guard`, `_apply` | brain, sealer, transport, FSM |
| Handler (`peer/turn_handler.py`) | last_step, opponent_barriers, breaches, commits | `process`, `_validate`, `_captured`, `_breach` | inbox, own state, belief, FSM |
| Transport, server, inboxes (`infra/transport.py`, `infra/mcp_server.py`, `peer/inboxes.py`) | four FIFO queues | `_send` with retries, the tool handlers, `get`, `drain` | the other process |
| Sealing and audit (`peer/sealing.py`, `peer/audit.py`) | sealed records | `seal_step`, `step0_record`, `audit_reveal`, `audit_verify`, `exchange_audits` | sender, runtime, transport |
| Handshake (`peer/handshake.py`, `peer/agreement.py`, `domain/negotiation.py`) | none of its own | offer with retries, receive, verify | transport, negotiation inbox |
| Series (`sdk/series.py`, `domain/scoring.py`) | result rows, sub-game number | `run_series`, `score_subgame`, `series_totals` | a fresh runtime per sub-game, over shared inboxes |
| Deadlines (`peer/deadlines.py`) | named absolute times | `arm`, `disarm`, `check` | runtime, audit |
| Watchdog (`peer/watchdog.py`) | beats, fired names, stop event, thread | `kick`, `check_now`, `start`, `stop` | turn loop, poll thread |
| Gatekeeper (`infra/gatekeeper.py`) | call window, bucket, breaker | `execute` | mail, language model |
| Scent (`domain/scent`) | one intensity grid a peer | `deposit`, `decay`, `snapshot`, `absorb`, `strongest` | sender, handler |
| Belief (`domain/belief`, `sdk/series.py`) | probability map, or a mode and its p | `diffuse`, `observe_smell` | handler, brains |
| Strategies (`strategy/`) | a random generator | `decide` | sender, arena |
| Crypto (`domain/crypto`) | - | `commit`, `verify`, `sign`, `verify_signature` | sealing, handshake, replay |
| Lab (`lab/`, `sdk/lab_gate.py`) | two stacks and a referee; result rows | `play_subgame`, `run_match`, the promotion statistics | brains, rules, scent |
| Entry, config, reports (`sdk/`, `shared/`, `report/`) | the loaded config trees, the files written | `run_peer`, `validate_agreement`, `build_result_artifact` | series, e-mail |
| Interface (`interface/`) | a loaded log, a frame index | `verify_log`, `replay_command`, Tk views | files |

Where it is hard: the turn token is implicit (possession of the last accepted
message, `domain/protocol.py:77`); retries repeat what was delivered; deadlines
race late answers; both peers settle separately; inboxes outlive the sub-games;
the watchdog's callback runs outside its lock. `PROJECT.json` lists every such
hazard at its line, with the properties that cover it.

What makes each component right:

- rules: a legal decision is legal for the receiver too; jailing is found whenever it happens;
- sub-game: one token, maps that agree, honest peers never rejected, verdicts that are earned and do not oppose each other, settlement in bounded time, an audit that convicts a record that is not the one committed to live, and nothing honest;
- series: nothing of one sub-game is taken for another's, both processes keep the same score;
- agreement and evidence: both peers play on the same terms under the same ids, an honest peer is convicted for a nameable cause only, every log replays;
- scent, belief, brains: the belief follows the sender and not the trail, what is decided from it is legal and does not harm its own side later;
- lab: a match is fair, so its statistics mean something;
- gatekeeper and watchdog: the limits hold over every window, one alarm per episode.

## 2. Modules

```
Board <- Rules <- SubGame <- ForeignPeer <- MCForeignPeer, ForeignPeerProofs
                     |  \<- MCSubGame          (TLC instances)
           Fsm <- - -/ \<- SubGameProofs
Report, Sums <- Series <- MCSeries, SeriesProofs
Terms, Seals <- Evidence <- MCEvidence, EvidenceProofs
Gatekeeper <- GatekeeperProofs            Watchdog <- WatchdogProofs
Board <- Paths \
Board <- Rules  <- Brains \
Board <- ScentLaw <- Beliefs <- Lab <- MCLab, LabProofs
              Sums <- Beliefs      Recursion <- LabProofs, SeriesProofs
```

**Board, Rules.** Cells, directions and `Board.step` as `StepLegal`; the options
of `barrier_options`, with the order of the move set kept only where the code
uses it (`FirstLegal`, the degraded move). `NoCell` is Python's `None`.

**Fsm.** The `ALLOWED` table and `advance`. `SubGame` does not use it to move: it
assigns the state the code passes to `advance`, and `LegalLifecycle` checks that
every such step is one `advance` accepts, i.e. that the code never meets an
`IllegalTransitionError`. Two calls the code makes in a row with nothing between
them (`OPP_TURN` to `MY_TURN` to `GAME_OVER` at the thief's ceiling test) are one
step of the model.

**SubGame**, the core. Every variable is a function of the role, one object of
each process. Its actions are the points between which another process can act:

| Action | Code |
|---|---|
| `Negotiate`, `Agree`, `HandshakeFails` | `run` up to the loop; an error of `run_handshake`, which no handler catches |
| `TakeTurn`, `Concede` | `take_turn` up to the call: `_guard`, `_apply`, count, seal, compose, `SENDING` |
| `Arrive`, `ArriveAgain` | the opponent's `receive_turn` tool enqueues the turn; a copy of this or an earlier one arrives again |
| `Sent`, `TransportFails` | the ack, or the deadline of the call; a turn given up on may still arrive |
| `DropDuplicate`, `RejectTurn`, `AcceptTurn` | `TurnHandler.process` and the tests of `_turn_loop` after it |
| `Expire`, `Crash` | `DeadlineError` on an empty inbox; any other exception in the loop |
| `SubmitAudit`, `ReadAudit`, `MissAudit` | `exchange_audits`: the reveal; a verdict or an exception; no reveal |

A brain may decide anything (`Decision`), so the model covers every strategy. A
crash after the state was changed but before the call is `TakeTurn` followed by
`TransportFails` with the turn never arriving. Left out: hints, scent, belief,
timestamps. A live commit is named by its sender and step. A revealed record
carries the step its payload names, a commit, and how the recomputation and the
step-0 test would end on it, so the audit matches records by their own label, as
`_reveal_mismatches` does. `raised` is set where an exception leaves `run`: its
`try` covers the turn loop only, not the handshake and not the audit. The operator groups that appear as
plausible mistakes (`FoldForgettingStep`, `SpentEarly`, ...) are the mutants of
`PROJECT.json`: TLC finds each property violated when one is put in place.

**ForeignPeer.** One peer of this code, with the unchanged actions of `SubGame`,
against an opponent that need not run it: any step in the neighbourhood of the
expected one, any sender, any combination of fields, cells off the board,
bodies the envelope refuses. Its reveal is any of a given set of record sequences
(`Reveals`), with no assumption about them: swapped, repeated, reordered, left out or
relabelled, not recomputing, unsigned, with a step that is no number, or one on
which the audit raises.

**Series, Report.** The two long-lived processes: `run_series`, the handshake's
messages, the turns cut down to who, which step and what they settle, the
reveal, and the outcomes. Messages carry a history field `game` that no guard
reads. `Report` turns the outcomes into what is filed: the row of a sub-game, the totals
with the tie rule, the result artifact.

**Terms, Seals, Evidence.** What binds two peers to what they did. `Terms`: a
copy of `game.json` as a function from its entries, `validate_agreement`,
`build_terms` with the opt-in dialect terms and rule deltas, `verify_terms`, the
ids. `Seals`: both forms of a commit, signatures, the declaration at step 0, the
audit of a reveal, the replay audit of a log. `Evidence` composes them: two
processes whose copies may differ and which may be restarted at any moment, with
a new key, empty inboxes and a series begun again, while the other goes on. A
digest is its preimage. Three entries stand for the signed ones (needed to
start, not needed to start, raised by a delta).

**Paths, Brains.** The breadth-first searches of `Board` as a set of cells grown
by its neighbours, and each shipped policy as what it decides from its own state
and its belief: the interceptor, the greedy cop with its coin, the survivor, the
decoy, the greedy thief. Weights are tenths. Python's `max` over a list is the
first of the best (`FirstMax`).

**ScentLaw, Beliefs.** The two dialects over fields of thousandths (finer grains
for the book's multiplicative decay): stamp, merge, fade, snapshot, absorb.
`Beliefs` has `ScentBelief` exactly and, of `BeliefV2`, the emission inversion,
the resync test and the refit. Its motion kernel and its normalisation are
floating-point arithmetic and are left out.

**Lab.** The in-process arena, one action per turn with everything the referee
does in it, and the paired match around it: A as police, B as police on the same
coins, the next seed. The sides' belief is `ScentBelief`; `seen` keeps the two
snapshots `BeliefV2` would invert.

**Gatekeeper.** `execute` as one admission step and one outcome step, with the
clock free in between; tokens in integer parts instead of floats.

**Sums, Recursion.** Python's `sum`, and what the proofs need of recursion over
data. The library's induction theorems take an operator, which no installed
prover can instantiate, so `Recursion` does without: of a recursion that leads from each argument to one
of a lower rank it shows that a solution exists (as a set of pairs, the least
one closed under the recursion) and that there is one only (a counterexample of least rank
is none). The breadth-first searches, the choice of a best and the sums are all
instances.

**Watchdog.** The registry, the locked scan, one step per callback, and several
poll threads, because `stop` only waits briefly for the old one.

## 3. Runs

| Run | Instance | Shows |
|---|---|---|
| `SubGameFaults` | 3x3, quota 2, ceiling and threshold 3, every fault, one repeated delivery per side | `TypeOK`; `TurnToken`; `MapsAgree`; `HonestNeverRejected`; `NoOpposedVerdicts`; `CaptureIsReal`; `SurvivalIsEarned`; `ThiefHasExit`; `NeverForged`; `LegalLifecycle`, crashes included |
| `SubGameReliable` | same board, calls only repeated or late, fair | `OutcomesAgree`, `Termination`, `CaughtIsSettled` |
| `SubGameCeiling` | ceiling 1 below the threshold, no faults | **violated** `OutcomesAgree` |
| `SubGameLostAck` | 2x2, faults | **violated** `TechnicalLossIsMutual` |
| `ForeignPeer` | 2x2, quota 2, threshold and ceiling 3, two strikes | `OneReplyPerTurn`, `StrikesInARow`, `QuotaIsEnforced`, `SurvivalNeedsTheClock`, `SwapIsConvicted`: what the audit makes of any reveal; `OnlyDuplicatesHold`: no opponent can keep a peer in its sub-game except by repeating a turn for ever, but an odd record ends it with an exception |
| `Series` | three sub-games of two rounds, at most four faults | `DrainIsSafe`, `TurnsAreCurrent`, `AgreementsAreCurrent`, `CleanSeriesAgrees`, `ReportAddsUp`, `SeriesEnds` |
| `SeriesDuplicate` | two sub-games, no faults, one repeated agreement | **violated** `DrainIsSafe` |
| `SeriesLateReveal` | two sub-games, faults | **violated** `NoFalseForgery` |
| `Gatekeeper` | quota 3 in 5 ticks, 2-token bucket, half a token a tick, 10 instants | `QuotaHolds`, `RateHolds`, `BreakerHolds` |
| `Watchdog` | two names, two beats each, two poll threads | `OncePerEpisode`, `FiredIsReported`, `FreezeIsReported` |
| `Lab` | 4x4, three walls, the shipped weights, both dialects, seven line-ups, every thief start against two cop starts, two coin sequences | `NoGameRaises`, `ModeIsTruth`, `HonestStreamIsExplained`, `MirrorMatchIsEven`, `KeepsRoute`, `AvoidsPockets` |
| `Evidence` | two sub-games of one turn each, one restart, twelve pairs of `game.json` copies | `AgreedAlike`, `ConvictedForCause`, `LogsReplay` |

Bounds and why they are enough. On 3x3 with the thief in the corner and the cop
on the diagonal, landing, walling and jailing (two walls) all happen within
three turns; the third turn reaches both clocks. `MaxCopies` bounds repeated
deliveries, not their delay: a copy may arrive at any later time. The 2x2
boards of the other runs still have walls, jailing (two walls) and both clocks;
`ForeignPeer` lets the opponent try a third wall and a repeated one. Its fifteen
reveals have one for each way a record can be taken, alone or beside another:
the audit looks at records one by one, at two of them when it sorts, and at the
first for the signature. The theorem is for any set of reveals.
`Series` needs three sub-games for a message to be two sub-games old under the
same role. Four faults lose at least one message of each sub-game and one more.
The twelve pairs of `Evidence` are equal copies, copies that differ in a signed entry,
in an unsigned one, in one the wire flag decides about, in their deltas, and
copies that lack an entry, cannot be read or name no dialect there is; one
restart leaves a stale offer behind, and two sub-games let the two peers be in
different ones. In `Lab` a 4x4 board has corners, edges and an interior, where
a pocket, a lane and a severed route all occur with three walls; a pair of games
plays both role assignments on one seed.
In `Gatekeeper` the horizon is two windows. `Watchdog` needs a second
beat for a second episode and a second thread for the restart.

The threshold equals the ceiling in the passing runs, as in the shipped
configuration (35 and 35). `SubGameCeiling` shows why it matters: with a lower
ceiling the cop leaves on its own ack, before the thief answers.

Fairness. `FairSpec` of `SubGame`: each process runs, and a call that is retried
every `retry_interval` gets through (without faults). `Expire` is part of the
thread and enabled, without faults, only when nothing more can come
(`Orphaned`), because the deadline of 180 s is longer than any honest wait.
`ForeignSpec` assumes fairness of the one peer only, nothing of its opponent or
the network. `Series` and `Watchdog` assume their threads run, and `Watchdog`
that time passes.

`OnlyDuplicatesHold` counts a thread that left by an exception as out of its
sub-game: nothing waits for it any longer, but there is no outcome.

## 4. What the runs found

- **The cop's ceiling** (`peer/runtime.py:131`). The cop returns survival as soon
  as its last budgeted turn is acknowledged. If that turn captured, the thief skips its
  own ceiling test, concedes, and records a capture. Both audits pass, and the
  two result files differ, although `tests/unit/test_runtime.py:162` expects
  "survival on both sides" and `docs/ARCHITECTURE.md:151` identical agreement
  digests.
- **The lost ack.** A terminal turn delivered but not acknowledged in time is a technical
  loss to its sender and a full win or capture to its receiver, where
  `domain/scoring.py:8` and `planning/DECISIONS.md:58` promise 0/0 to both.
- **The duplicate agreement.** `run_series` drains turns and audits but not
  agreements (`sdk/series.py:126`). A copy left by a retry lets the next thief
  start before the other peer has drained; the drain removes turn 1 and the
  sub-game is lost on a deadline.
- **The late reveal.** A reveal names no sub-game. One that comes after its window
  and after the next drain is compared with the next sub-game's live commits and
  convicts an honest peer (`peer/audit.py:43`, "provable forgery").

What the models say exactly, as properties that hold, where a comment says more:

- **What the audit binds** (`SwapIsConvicted`). `peer/audit.py:59` binds "every
  revealed commit" to the live one. The step it looks up is the one the
  payload names (`peer/audit.py:46`), and a label under which no turn was accepted is
  compared with nothing; nor is a turn missed that the reveal leaves out. So a
  record takes the place of another unnoticed if it is relabelled. What is
  bound is each record that names an accepted turn.
- **What the audit survives** (`OnlyDuplicatesHold`, `SwapIsConvicted`).
  `peer/sealing.py:131` promises that malformed records "fail, never crash our
  audit". `audit_verify` keeps that for missing fields and wrong types; around it a step that is a list
  or an object cannot be looked up (`peer/audit.py:48`), failed steps of two types cannot be
  sorted (`peer/audit.py:78`), and a text or key without an encoding raises a
  `UnicodeEncodeError`. `exchange_audits` is called outside the `try` of `run`
  (`peer/runtime.py:104`), as is the handshake (`peer/runtime.py:92`), so the
  exception ends the process. No honest reveal raises (`NeverForged`).
- **When an honest peer is convicted** (`ConvictedForCause`). The audit recomputes
  the commits under the verifier's own dialect and checks the declaration with the
  key of its own handshake. So it convicts, besides the late reveal above, when
  the two copies name different crypto dialects, and when the opponent was
  restarted after its offer was delivered: the first agreement in the inbox wins
  (`peer/handshake.py:71`) and carries the old key. `domain/crypto/dialects.py:16`
  says that the dialect id is locked inside the signed terms; it is one only
  under `negotiation.wire_dialect_terms`, which the shipped `game.json` does not set.
- **What stops a peer before it plays** (`TermsRaise`). `shared/config.py:10`
  promises to fail on any missing agreed term before the handshake. The axes, the map
  area, the hint's length and the number of games are signed, but not in
  `REQUIRED_AGREED_TERMS`: without one the process dies in `build_terms`, with
  its server already up.
- **A log with the declaration alone** (`LogsReplay`) passes the replay audit,
  and the viewer raises on it (`interface/replay_view.py:58`).
- **The promotion test** (`MirrorMatchIsEven`). `run_lab` gives both agents the
  same classes, so its win rate is always one half and its p-value never below
  one half; only `run_lab_versus` can promote anything.

Met while reading, with no run:

- The watchdog's docstring promises a technical loss on a fire, `sdk/sdk.py:131`
  only logs; only `turn-loop` beats, once per wait of up to 180 s against a threshold of 60 s.
- `domain/rules.py:30` calls the barrier reach independent of the move set while
  `barrier_options` uses `Board.step`.
- `survival_threshold`, `move_set` and `scoring` are no signed terms, while
  `config/police/game.json` says any mismatch is refused.
- A peer restarted in mid-series begins at sub-game 1 while the other goes on:
  both may hold the same role, and that sub-game is a technical loss. The
  declaration names the configured `game.sub_game_number`, the same in each sub-game.
- `confirmed` in the result artifact is one-sided: `their_claim`
  (`peer/audit.py:83`) is compared with nothing, so the two artifacts of
  `SubGameCeiling` are both confirmed. `write_artifacts` has no caller.
- A series of technical losses is a tie at 0 and pays `tie_score` to both groups.
- The names of the log files are made of group ids and a number: two peers with
  equal ids share them, as does the next series of the same pair.
- `sdk/series_log.py:54` reads `audit["their_records"]`, which nothing sets; the
  trust prior it would update is read by nothing.
- `lab_belief.py:7` says that even the first decision has real evidence; the
  thief's first `observe_smell` gets an empty snapshot, which resets the seeded prior.
- `BeliefV2` drops a cell that is walled from its candidates (`engine.py:94`); a
  cop may wall its own cell and stay on it.
- A boxed-in cop that stands on a cell it walled cannot even hold: the arena
  validates a HOLD as a step, and raises. The arena captures a thief that steps onto the cop; a
  peer does not.
- A failed e-mail is a dict and counts as a success to the breaker; a fresh
  `Gatekeeper` per series makes its quota vacuous there.

## 5. Proofs

TLAPS proves the safety properties of the seven systems for every value of their
constants: boards, move sets, quotas, ceilings, breach limits, numbers of sub-games,
delays, bucket sizes, poll threads, copies of `game.json`. The theorems rest on
the `...Assumption`s of the modules (types, start cells on the board, accepted
parameters), which TLC evaluates in every run, and on what the second column names. Those are
assumptions of a theorem and not of a specification, because the code
does not establish them:

- `ThresholdsAgree`: both copies of `survival_threshold` are equal. It is not among
  the 14 signed terms, so the handshake does not check it.
- `CeilingIsHigh`: the thief's threshold is at most the ceiling, as shipped (35
  and 35). Run `SubGameCeiling` shows that the properties fail without it.
- `Reliable`: both, and no fault (`Faults = FALSE`; calls may still be repeated
  and late). `SubGameLostAck` shows what one lost ack does to the outcomes.
- `MovesAreReversible`: with a direction the move set has its reverse. A move set
  without one lets a thief walk into a cell it cannot leave.
- `NoCopies`: no agreement is delivered twice. `SeriesDuplicate` shows what a
  second copy does.
- `GroupsDiffer`, in the series and in `LogsPassReplay`: the two group ids differ. Rows
  and log files are keyed by them.
- `Fading`: some decay, less than all of it, and a stamp weaker off its centre.
- `STAY` is a move: a brain that finds no step decides `HOLD`, which the referee
  validates as that one. The shipped move set has it.

| Theorem | Assumes | Statement | Argument |
|---|---|---|---|
| `TypeCorrect` | | `Spec => []TypeOK` (`SubGame`) | one step per action; `GuardedIsLegal` gives that a played move stays on the board |
| `TokenIsUnique` | | `Spec => []TurnToken` | `TurnToken` is not inductive: it says nothing of a peer that is waiting. `TokenInv` ties each peer's two counters to its lifecycle state (`Clock`: the thief is one ahead while it waits, the cop level) and says that an inbox holds only steps the sender has composed, its newest one being `post` itself (`Delivered`). `TokenIsTurnToken` derives the property by adding up the four inequalities |
| `NeverIllegal` | | `Spec => LegalLifecycle` | a refinement, once per peer: every step of `SubGame` is a step of `Fsm` or a stutter (`Driven`), so `advance` never refuses |
| `NeverRejected` | `ThresholdsAgree` | `Spec => []HonestNeverRejected` | a non-duplicate head of the inbox is `post` (`HeadIsLatest`), and `Honest` with `Replicas` says `post` passes each test of `_validate` |
| `ReplicasAgree` | `ThresholdsAgree` | `Spec => []MapsAgree` | `Replicas`: the maps and the two quota counts differ by the wall in flight, which is counted before it travels |
| `HonestPassesAudit` | | `Spec => []NeverForged` | no honest reveal convicts, nor makes the audit raise. `Ledger`: log, live commits and any reveal under way name the same commit for each step, and an honest reveal (`HonestReveal`) has numbers for steps, recomputes and is signed; `RaisedEarly`: whatever was raised was raised in the handshake |
| `SurvivalEarned` | | `Spec => []SurvivalIsEarned` | `EarnedInv`: only the thief's `post` can carry a win claim, and only on its own clock; with `TokenInv` the message read is that very `post` and its step the sender's counter, which never goes back. No agreement of the thresholds is needed |
| `CaptureReal` | | `Spec => []CaptureIsReal` | `CornerInv`: being caught freezes the game. The thief owes its concession (and has read as many turns as it has played, so `TokenInv` denies the cop the turn) or has sent it (and the cop leaves its loop on reading it); a concession moves nothing, and a capture is recorded from that message alone |
| `JailIsSeen` | `MovesAreReversible`, a start that is not jailed | `Spec => []ThiefHasExit` | `ExitInv`: until it owes a concession the thief stands on a free cell it can leave. A step keeps that by the way back, a wall by the test of `_captured` |
| `OneWinner` | `CeilingIsHigh` | `Spec => []NoOpposedVerdicts` | `ClaimInv`: the thief's win claim and its concession exclude each other, nobody plays on after either, so the cop never gets to its ceiling and every survival is the thief's claim |
| `SettledAlike` | `Reliable` | `Spec => []OutcomesAgree` | all of the above (`Sound`), and `AgreeInv`: a peer that has left its loop left it on a verdict, the cop on the thief's last word only, which is in the cop's inbox until it is read. With no fault `Expire` needs an orphan, and there is none |
| `NoFreeMove` | | `ForeignSpec => []OneReplyPerTurn` | `PeerInv`: the parts of the sub-game's invariants that speak of one peer alone survive an opponent that sends anything |
| `StrikesAreInARow` | | `ForeignSpec => []StrikesInARow` | `StrikesHeld`: strikes are outstanding only where the peer listens, or has stopped |
| `QuotaHoldsAlways` | | `ForeignSpec => []QuotaIsEnforced` | `WallsCounted`: the walls of the map are as many as the two counters say, so a repeated wall cannot be free |
| `SurvivalIsTimed` | | `ForeignSpec => []SurvivalNeedsTheClock` | `SurvivalTimed`: what this peer claims or records is backed by its own count |
| `SwapsAreConvicted` | | `ForeignSpec => SwapIsConvicted` | an action property, for any set of reveals. `RevealHeld`: the live commits are one to an accepted step, so the records the audit fails are those the property names; every cause of an exception is an odd record (`ReadIsJudged`); no other step touches the verdict, and only the handshake raises besides |
| `DrainsAreSafe`, `TurnsStayCurrent`, `AgreementsStayCurrent` | `NoCopies` | `Spec => []` of `DrainIsSafe`, `TurnsAreCurrent`, `AgreementsAreCurrent` (`Series`) | `SeriesInv`: each peer's offers and agreements stand to both numbers as `Handshakes` says, no inbox holds a message of a later sub-game than its reader can be in (`Mail`), and a peer's counters go with its phase (`Progress`). Whatever faults happen |
| `SeriesAgrees` | `NoCopies`, `GroupsDiffer` | `Spec => []CleanSeriesAgrees` | `CleanInv`, in force while no fault happened: the peers are in one sub-game or one is let go by the other's reveal (`InStep`), their counts alternate (`Counted`), one turn and one reveal are in flight at most (`OneTurn`, `OneReveal`), they settle alike and their rows agree. That the two totals and artifacts are one then needs that a table of two groups does not tell who wrote it (`KeyedBothWays`) |
| `ReportsAddUp` | `GroupsDiffer` | `Spec => []ReportAddsUp` | `FiledInv`: a finished series has one row a sub-game, and an audit that passed has come and convicted nobody. The rest is about the pure functions: a recursive total is the sum of what the rows give (`SumIsSumOf`), the tie rule over two groups (`TwoGroups`), a winner's name for every decided row (`WinnerNamed`). Repeated agreements do no harm here |
| `NeverPlayApart` | | `Spec => []AgreedAlike` (`Evidence`) | `EvidenceInv`: an offer in an inbox was made by the other peer in this or an earlier process (`OffersAreTheirs`), with the terms of its copy |
| `ConvictionHasCause` | | `Spec => []ConvictedForCause` | the verdict is what `Judged` makes of a reveal of one of the opponent's sessions (`AuditStands`, `RevealsAreTheirs`), and `VerdictHasCause` goes through the audit's tests |
| `LogsPassReplay` | `GroupsDiffer` | `Spec => []LogsReplay` | `DiskIsHonest`: each file is one session's whole chain of the peer it is named after |
| `QuotaIsKept` | | `Spec => []QuotaHolds` (`Gatekeeper`) | `WindowIsSuffix`: the deque is the tail of all calls made (so a refused call is not counted either), and what it dropped is a day old |
| `RateIsKept` | | `Spec => []RateHolds` | `BucketIsSound`: from any call on, the calls and the tokens left are paid for by a full bucket and the refill since |
| `BreakerIsSilent` | | `Spec => []BreakerHolds` | inductive with the two above, and: a call that runs past an open breaker carries the probe's mark, so its outcome closes or reopens it |
| `ReportedOnce`, `NoAlarmLost` | | `Spec => []` of `OncePerEpisode`, `FiredIsReported` (`Watchdog`) | `MarkedWhileCurrent`: while an episode lasts its name stays marked, for any number of poll threads and restarts |
| `BeliefIsTruth` | `Fading` | `Spec => []ModeIsTruth` (`Lab`) | at any grain. `LabInv`: of a field emitted into, the owner's cell reads `Emit0 - Rho` and every other cell less (`Peak`). An emission restores it, since the merge keeps the larger value and a fresh centre exceeds an older, faded one and any stamp's rim |
| `NoReferenceGameRaises` | `Fading`, `STAY` is a move | `Spec => [](law = "reference" => NoGameRaises)` | `PlayInv`: while a game goes on both sides hold one map, stand on free cells of it, and apart. Since the belief is the truth (`BeliefIsTruth`), the cop never decides from its own cell, where `_direction_toward` finds no direction; what it decides is then legal, one lemma a policy (`StepAllowed`, `WallAllowed`) |
| `RouteIsKept` | `Fading`, `STAY` is a move | `Spec => KeepsRoute` | the wall an interceptor decides on is the target's cell, which ends the game, or passed `_self_harming` (`InterceptorChooses`), whose two distances are those of the property because the belief is the truth |
| `PocketsAreAvoided` | | `Spec => AvoidsPockets` | the ban is larger than any score can be (`BanDecides`), so a banned step loses to every other one the survivor could choose, whatever it believes (`FleeIsBest`, `SurvivorAvoids`) |
| `HonestStreamsExplained` | `Fading` | `Spec => [](law = "reference" => HonestStreamIsExplained)` | `StreamInv`: of the two snapshots a side was shown the second is the first faded, with one fresh stamp merged in where the sender stands. Carried one step forward the first is then exactly the second (`TruthExplains`), so the sender's cell has no residual and nothing can be above the resync's bound; and the stamp alone fits the snapshot there as well as anywhere (`TruthRefits`) |
| `MirrorsAreEven` | | `Spec => []MirrorMatchIsEven` | both dialects. A turn is a function of the world and of the line-up, start and coins it is played on (`Goes`), and the two games of a seed differ only in who sits where: of equal brains the second retraces the first (`MirrorInv`, `Repeats`), so the rows of a finished match come in swapped pairs. Wins and points are then even, added up in twos (`SumOfTwins`), and the p-value is a half at least, because the sequences with fewer wins than half map one to one into those with as many or more (`HalfOrMore`) |

The inductive invariants of `SubGame`, `ForeignPeer`, `Series`, `Gatekeeper` and
`Watchdog` are defined beside the properties and were checked with TLC on the
constants of their runs; those of `Evidence` and `Lab` stand in their proof modules.

Only model-checked: liveness, which is out of the provers' reach (`Termination`,
`CaughtIsSettled`, `OnlyDuplicatesHold`, `SeriesEnds`, `FreezeIsReported`); the
halves of `NoGameRaises` and `HonestStreamIsExplained` that speak of the book
dialect, where the strongest cell may be an old one and what then holds is
a matter of the parameters.

A proof attempt corrected a property: `KeepsRoute` also spoke of the step that
sets up the next game, where the walls are reset and the two distances are of
different games; it now speaks of turns.

## 6. Not modelled

- Hints: no decision reads them. In `SubGame`, scent and belief too, since a brain
  there may decide anything; an ill-formed scent grid is one more reason for a
  breach (as is any refused envelope in `ForeignPeer`).
- `BeliefV2`'s motion kernel, normalisation and hint fusion: floating-point
  arithmetic, whose underflow TLC cannot follow; `fuse_hint` and the reliability
  ledger have no caller in a game.
- Collisions of SHA-256, the arithmetic of Ed25519, canonical JSON: a digest is
  its preimage, a signature what it was made with and over.
- Time in `SubGame`, `Series` and `Evidence`: a deadline may pass wherever the code checks one.
- Turn copies that arrive a whole sub-game late in `Series` (they do in
  `SubGame`, within one).
- The controls channel, `PAUSED` and the wire labels of the lifecycle: no code
  reads the channel, pauses, or decides on a label.
- `accept_rule_deltas`, `write_artifacts`, `SealedLog.wire_view`: no caller.
- Talk and its language model, the profiler, class loading: they decide no move.
- Tk views, the live game, document layout, e-mail, system information.

## 7. Plan

1. Done: `Board`, `Rules`, `Fsm`, `SubGame`, `ForeignPeer`; `Series` and
   `Report`; `Gatekeeper`; `Watchdog`; `Terms`, `Seals` and `Evidence`; `Paths`,
   `Brains`, `ScentLaw`, `Beliefs`, `Lab`; and the eight proof modules.
2. Open in the models: durations in the turn loop; the arena of `Lab` as the
   abstract game that `SubGame` implements while no call fails.
3. Next theorems: which parameters of the book dialect leave the strongest cell at
   its sender, and the refinement of the abstract game.
