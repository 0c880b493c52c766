------------------------------- MODULE Series -------------------------------
(***************************************************************************)
(* A series of sub-games between two long-lived peer processes              *)
(* (sdk/series.py, with peer/handshake.py and peer/audit.py; Report has the *)
(* rows and the result artifact).  The inboxes outlive the sub-games: a     *)
(* fresh PeerRuntime reads what an earlier one left behind, and no message  *)
(* but the agreement's signature names the sub-game it belongs to.          *)
(*                                                                          *)
(* A sub-game is cut down to its messages (SubGame has the rest): the thief *)
(* concedes when it likes and claims survival on its last turn.  The field  *)
(* game of a message is a history variable: the code does not have it and   *)
(* no guard below reads it.                                                 *)
(***************************************************************************)
EXTENDS Report, Sums

CONSTANTS
  NumGames,    \* network_and_league.num_games
  Rounds,      \* the thief's turns in a sub-game: its survival threshold
  MaxBreaches, \* fsm.max_illegal_events
  GroupId,     \* game.group_id of each peer
  Faults,      \* bound: calls lost and deadlines cut short, in a behaviour
  MaxCopies    \* bound: extra copies of one agreement a retry leaves behind

Peer == {"left", "right"}

Other(p) == IF p = "left" THEN "right" ELSE "left"

\* No group's id is None, which is what the report calls a missing winner.
ASSUME SeriesAssumption ==
  /\ NumGames \in Nat \ {0} /\ Rounds \in Nat \ {0}
  /\ MaxBreaches \in Nat \ {0} /\ MaxCopies \in Nat
  /\ Faults \in Nat
  /\ DOMAIN GroupId = Peer /\ \A p \in Peer : GroupId[p] # NoGroup

VARIABLES
  faults,      \* how many there have been
  number,      \* the sub-game each peer is in
  phase,       \* where its run_series / run is
  negotiation, \* PeerInboxes.negotiation
  turns,       \* PeerInboxes.turns
  audits,      \* PeerInboxes.audits
  agreed,      \* the sub-game whose agreement the handshake consumed
  mine,        \* my step counter
  seen,        \* TurnHandler.last_step
  heard,       \* the sub-games of the turns accepted in this one
  strikes,     \* TurnHandler.breaches
  verdict,     \* result of the sub-game
  audit,       \* the audit dict: did their reveal come, pass, convict?
  outcomes     \* the SubgameOutcomes run_series has rows for

play == <<agreed, mine, seen, heard, strikes>>
vars == <<faults, number, phase, negotiation, turns, audits, play, verdict, audit, outcomes>>

-----------------------------------------------------------------------------
FixedRole(p, k) == IF p = "left" THEN "police" ELSE "thief"

\* Odd sub-games are played in the configured role, even ones in the other.
RoleIn(p, k) == IF (p = "left") = (k % 2 = 1) THEN "police" ELSE "thief"

Role(p) == RoleIn(p, number[p])

NoAudit == [received |-> FALSE, passed |-> FALSE, forgery |-> FALSE]

Init ==
  /\ faults = 0
  /\ number = [p \in Peer |-> 1]
  /\ phase = [p \in Peer |-> "start"]
  /\ negotiation = [p \in Peer |-> << >>]
  /\ turns = [p \in Peer |-> << >>]
  /\ audits = [p \in Peer |-> << >>]
  /\ agreed = [p \in Peer |-> 0]
  /\ mine = [p \in Peer |-> 0]
  /\ seen = [p \in Peer |-> 0]
  /\ heard = [p \in Peer |-> {}]
  /\ strikes = [p \in Peer |-> 0]
  /\ verdict = [p \in Peer |-> "none"]
  /\ audit = [p \in Peer |-> NoAudit]
  /\ outcomes = [p \in Peer |-> << >>]

\* Something goes wrong: a call is lost, or takes longer than its deadline.
Fault == faults < Faults /\ faults' = faults + 1

\* Only a running process can be called: run_peer ends with its series.
Gone(p) == phase[p] \in {"over", "down"}

Goto(p, there) == phase' = [phase EXCEPT ![p] = there]

-----------------------------------------------------------------------------
\* The hygiene between sub-games: agreements are not drained.
Drain(p) ==
  /\ turns' = [turns EXCEPT ![p] = << >>]
  /\ audits' = [audits EXCEPT ![p] = << >>]

\* The state of a PeerRuntime, which goes with its sub-game.
FreshRuntime(p) ==
  /\ mine' = [mine EXCEPT ![p] = 0]
  /\ seen' = [seen EXCEPT ![p] = 0]
  /\ heard' = [heard EXCEPT ![p] = {}]
  /\ strikes' = [strikes EXCEPT ![p] = 0]
  /\ agreed' = [agreed EXCEPT ![p] = 0]
  /\ verdict' = [verdict EXCEPT ![p] = "none"]
  /\ audit' = [audit EXCEPT ![p] = NoAudit]

\* The top of run_series' loop.
StartSubGame(p) ==
  /\ phase[p] = "start"
  /\ Drain(p)
  /\ Goto(p, "offer")
  /\ UNCHANGED <<faults, number, negotiation, play, verdict, audit, outcomes>>

OfferThenPlay(p) ==
  /\ phase[p] = "offer" /\ ~Gone(Other(p))
  /\ negotiation' = [negotiation EXCEPT ![Other(p)] = Append(@, number[p])]
  /\ Goto(p, IF Role(p) = "thief" THEN "my_turn" ELSE "await")
  /\ UNCHANGED <<faults, number, turns, audits, play, verdict, audit, outcomes>>

OfferTwice(p) ==
  /\ phase[p] = "offer" /\ ~Gone(Other(p))
  /\ negotiation' = [negotiation EXCEPT ![Other(p)] = @ \o <<number[p], number[p]>>]
  /\ Goto(p, "await")
  /\ UNCHANGED <<faults, number, turns, audits, play, verdict, audit, outcomes>>

\* _send_with_retry over the retrying transport: an attempt whose ack is
\* lost has been enqueued all the same, and is followed by another.
Offer(p) ==
  /\ phase[p] = "offer" /\ ~Gone(Other(p))
  /\ \E n \in 0 .. MaxCopies :
       negotiation' = [negotiation EXCEPT ![Other(p)] =
                         @ \o [i \in 1 .. n + 1 |-> number[p]]]
  /\ Goto(p, "await")
  /\ UNCHANGED <<faults, number, turns, audits, play, verdict, audit, outcomes>>

\* _receive_agreement and the verification: the first message wins.  The
\* terms are the same in every sub-game, so any agreement of the opponent's
\* is accepted.
Agree(p) ==
  /\ phase[p] = "await" /\ negotiation[p] # << >>
  /\ agreed' = [agreed EXCEPT ![p] = Head(negotiation[p])]
  /\ negotiation' = [negotiation EXCEPT ![p] = Tail(@)]
  /\ Goto(p, IF Role(p) = "thief" THEN "my_turn" ELSE "opp_turn")
  /\ UNCHANGED <<faults, number, turns, audits, mine, seen, heard, strikes, verdict, audit, outcomes>>

\* An answer can only be waited for in vain: no process, and no agreement left.
NoAnswer(p) == Gone(Other(p)) /\ (phase[p] = "await" => negotiation[p] = << >>)

SendOnlyFails(p) ==
  /\ phase[p] = "offer"
  /\ IF NoAnswer(p) THEN UNCHANGED faults ELSE Fault
  /\ Goto(p, "down")
  /\ UNCHANGED <<number, negotiation, turns, audits, play, verdict, audit, outcomes>>

\* A handshake that times out raises through run and run_series: the whole
\* process is gone, with no audit.
HandshakeFails(p) ==
  /\ phase[p] \in {"offer", "await"}
  /\ IF NoAnswer(p) THEN UNCHANGED faults ELSE Fault
  /\ Goto(p, "down")
  /\ UNCHANGED <<number, negotiation, turns, audits, play, verdict, audit, outcomes>>

-----------------------------------------------------------------------------
Settle(p, result) ==
  /\ verdict' = [verdict EXCEPT ![p] = result]
  /\ Goto(p, "settle")

\* One turn out: a plain turn, the thief's concession, or its survival claim
\* on its last turn.
Says(p) ==
  IF Role(p) = "thief"
  THEN {IF mine[p] + 1 = Rounds THEN "win" ELSE "turn"}
         \cup (IF seen[p] > 0 THEN {"caught"} ELSE {})
  ELSE {"turn"}

Deliver(p, says) ==
  turns' = [turns EXCEPT ![Other(p)] = Append(@,
    [game |-> number[p], sender |-> Role(p), step |-> mine[p] + 1, says |-> says])]

TakeTurn(p) ==
  /\ phase[p] = "my_turn" /\ ~Gone(Other(p))
  /\ mine' = [mine EXCEPT ![p] = @ + 1]
  /\ \E says \in Says(p) :
       /\ Deliver(p, says)
       /\ \/ says = "caught" /\ Settle(p, "capture")
          \/ says = "win" /\ Settle(p, "survival")
          \/ says = "turn" /\ Goto(p, "opp_turn") /\ UNCHANGED verdict
  /\ UNCHANGED <<faults, number, negotiation, audits, agreed, seen, heard, strikes, audit, outcomes>>

\* The call's deadline passes unacked, whether or not the turn got through.
SendFails(p) ==
  /\ phase[p] = "my_turn"
  /\ mine' = [mine EXCEPT ![p] = @ + 1]
  /\ \/ Gone(Other(p)) /\ UNCHANGED <<turns, faults>>
     \/ Fault /\ (UNCHANGED turns \/ \E says \in Says(p) : Deliver(p, says))
  /\ Settle(p, "technical_loss")
  /\ UNCHANGED <<number, negotiation, audits, agreed, seen, heard, strikes, audit, outcomes>>

Listening(p) == phase[p] = "opp_turn" /\ turns[p] # << >>

\* A message that TurnHandler._validate passes: the opponent's role, and the
\* step after the last one seen.
InSequence(p, m) == m.sender # Role(p) /\ m.step = seen[p] + 1

AcceptTurn(p) ==
  LET m == Head(turns[p]) IN
  /\ Listening(p) /\ InSequence(p, m)
  /\ turns' = [turns EXCEPT ![p] = Tail(@)]
  /\ seen' = [seen EXCEPT ![p] = m.step]
  /\ heard' = [heard EXCEPT ![p] = @ \cup {m.game}]
  /\ strikes' = [strikes EXCEPT ![p] = 0]
  /\ \/ m.says = "caught" /\ Settle(p, "capture")
     \/ m.says = "win" /\ Settle(p, "survival")
     \/ m.says = "turn" /\ Goto(p, "my_turn") /\ UNCHANGED verdict
  /\ UNCHANGED <<faults, number, negotiation, audits, agreed, mine, audit, outcomes>>

\* A duplicate is dropped, anything else out of place is a breach.
RefuseTurn(p) ==
  LET m == Head(turns[p]) IN
  /\ Listening(p) /\ ~InSequence(p, m)
  /\ turns' = [turns EXCEPT ![p] = Tail(@)]
  /\ strikes' = [strikes EXCEPT ![p] = IF m.step <= seen[p] THEN @ ELSE @ + 1]
  /\ IF strikes'[p] >= MaxBreaches
     THEN Settle(p, "technical_loss")
     ELSE UNCHANGED <<phase, verdict>>
  /\ UNCHANGED <<faults, number, negotiation, audits, agreed, mine, seen, heard, audit, outcomes>>

\* Nothing more of this sub-game can come from the opponent.
NothingComes(p) ==
  LET q == Other(p) IN
  \/ number[q] > number[p]
  \/ number[q] = number[p] /\ phase[q] \in {"settle", "audit", "record"}
  \/ number[q] = number[p] /\ phase[q] = "opp_turn" /\ turns[q] = << >>
  \/ Gone(q)

\* The opponent-turn deadline.
Expire(p) ==
  /\ phase[p] = "opp_turn" /\ turns[p] = << >>
  /\ IF NothingComes(p) THEN UNCHANGED faults ELSE Fault
  /\ Settle(p, "technical_loss")
  /\ UNCHANGED <<number, negotiation, turns, audits, play, audit, outcomes>>

-----------------------------------------------------------------------------
\* exchange_audits, first half: the reveal, best effort.
SubmitAudit(p) ==
  /\ phase[p] = "settle"
  /\ \/ /\ ~Gone(Other(p))
        /\ audits' = [audits EXCEPT ![Other(p)] =
                        Append(@, [game |-> number[p], steps |-> mine[p]])]
        /\ UNCHANGED faults
     \/ UNCHANGED audits /\ IF Gone(Other(p)) THEN UNCHANGED faults ELSE Fault
  /\ Goto(p, "audit")
  /\ UNCHANGED <<number, negotiation, turns, play, verdict, audit, outcomes>>

\* The reveal of another sub-game differs from every live commit of this one
\* that it has a step for.
Differs(p, reveal) == \E j \in heard[p] : j # reveal.game /\ seen[p] > 0 /\ reveal.steps > 0

\* Second half: the first payload in the inbox is taken for the opponent's.
\* A conviction makes the sub-game a technical loss.
ReadAudit(p) ==
  LET failed == Differs(p, Head(audits[p])) IN
  /\ phase[p] = "audit" /\ audits[p] # << >>
  /\ audits' = [audits EXCEPT ![p] = Tail(@)]
  /\ audit' = [audit EXCEPT ![p] =
                 [received |-> TRUE, passed |-> ~failed, forgery |-> failed]]
  /\ verdict' = [verdict EXCEPT ![p] = IF failed THEN "technical_loss" ELSE @]
  /\ Goto(p, "record")
  /\ UNCHANGED <<faults, number, negotiation, turns, play, outcomes>>

\* No reveal is on its way: the opponent has sent its own, or is gone.
NoReveal(p) ==
  LET q == Other(p) IN
  number[q] > number[p] \/ phase[q] \in {"audit", "record", "down"}

\* The audit window closes.
MissAudit(p) ==
  /\ phase[p] = "audit" /\ audits[p] = << >>
  /\ IF NoReveal(p) THEN UNCHANGED faults ELSE Fault
  /\ Goto(p, "record")
  /\ UNCHANGED <<number, negotiation, turns, audits, play, verdict, audit, outcomes>>

\* What run hands back to run_series.
SubgameOutcome(p) == [result |-> verdict[p], audit |-> audit[p]]

\* run_series' subs.  A row is a function of the outcome and its number.
Rows(p) ==
  [k \in DOMAIN outcomes[p] |->
     SubRow(k, RoleIn(p, k), GroupId[p], GroupId[Other(p)],
            outcomes[p][k].result, outcomes[p][k].audit)]

\* The bottom of the loop.
Record(p) ==
  /\ phase[p] = "record"
  /\ outcomes' = [outcomes EXCEPT ![p] = Append(@, SubgameOutcome(p))]
  /\ number' = [number EXCEPT ![p] = @ + 1]
  /\ FreshRuntime(p)
  /\ Goto(p, IF number[p] = NumGames THEN "over" ELSE "start")
  /\ UNCHANGED <<faults, negotiation, turns, audits>>

\* The artifact of a finished series (_maybe_email).
Artifact(p) ==
  LET rows == Rows(p) IN ResultArtifact(rows, GroupId[p], GroupId[Other(p)])

Process(p) ==
  \/ StartSubGame(p) \/ Offer(p) \/ Agree(p) \/ HandshakeFails(p)
  \/ TakeTurn(p) \/ SendFails(p) \/ AcceptTurn(p) \/ RefuseTurn(p) \/ Expire(p)
  \/ SubmitAudit(p) \/ ReadAudit(p) \/ MissAudit(p) \/ Record(p)

Stopped == \A p \in Peer : phase[p] \in {"over", "down"}

Next == (\E p \in Peer : Process(p)) \/ (Stopped /\ UNCHANGED vars)

Spec == Init /\ [][Next]_vars

FairSpec == Spec /\ \A p \in Peer : WF_vars(Process(p))

-----------------------------------------------------------------------------
(* What must hold.                                                          *)

\* The claim of the drain's comment (series.py:126-127): fresh turns only
\* follow the new handshake, so the drain can only discard stale ones.
DrainIsSafe ==
  \A p \in Peer : phase[p] = "start" =>
    \A i \in DOMAIN turns[p] : turns[p][i].game < number[p]

\* No turn of one sub-game is ever folded into another, though a message
\* does not say which it belongs to.
TurnsAreCurrent == \A p \in Peer : heard[p] \subseteq {number[p]}

\* Both handshakes of a sub-game are between the two runtimes of that
\* sub-game.
AgreementsAreCurrent == \A p \in Peer : agreed[p] \in {0, number[p]}

\* No peer is convicted of forgery by the reveal of another sub-game.
NoFalseForgery == \A p \in Peer : ~audit[p].forgery

\* While no call fails, the two processes record the same sub-games with the
\* same points for each group, convict nobody, and end with one and the same
\* result artifact, which both confirm.
CleanSeriesAgrees ==
  faults = 0 =>
    /\ NoFalseForgery
    /\ \A k \in DOMAIN outcomes["left"] \cap DOMAIN outcomes["right"] :
         Rows("left")[k] = Rows("right")[k]
    /\ (\A p \in Peer : phase[p] = "over") =>
         Artifact("left") = Artifact("right") /\ Artifact("left").confirmed

\* Each process's artifact follows from the results in it, whatever was lost
\* on the way: every sub-game was won by the group that held the winning role
\* or is technical, the totals are the points of those results plus the tie
\* bonus and nothing else, the winner is the one group with more points and a
\* tie is two equal totals; and a confirmed series convicted nobody.
ReportAddsUp ==
  \A p \in Peer : phase[p] = "over" =>
    LET a == Artifact(p)
        us == GroupId[p]
        them == GroupId[Other(p)]
        Held(g, i) == RoleIn(IF g = us THEN p ELSE Other(p), i)
        Points(g, i) ==
          CASE a.sub_games[i].result = "technical_loss" -> Scoring["technical_loss"]
            [] a.sub_games[i].result = "capture" ->
                 Scoring[IF Held(g, i) = "police" THEN "capture_cop" ELSE "capture_thief"]
            [] a.sub_games[i].result = "survival" ->
                 Scoring[IF Held(g, i) = "police" THEN "survival_cop" ELSE "survival_thief"]
        earned == [g \in {us, them} |->
                     SumOf([i \in 1 .. NumGames |-> Points(g, i)])]
        bonus == IF a.series_tie THEN Scoring["tie_score"] ELSE 0
        technical == {i \in 1 .. NumGames : a.sub_games[i].result = "technical_loss"}
    IN  /\ a.sub_games_won[us] + a.sub_games_won[them] + Cardinality(technical) = NumGames
        /\ a.series_tie <=> earned[us] = earned[them]
        /\ a.winner_group = IF earned[us] > earned[them] THEN us
                            ELSE IF earned[them] > earned[us] THEN them ELSE NoGroup
        /\ \A g \in {us, them} : a.total_score[g] = earned[g] + bonus
        /\ a.confirmed => \A i \in 1 .. NumGames :
             outcomes[p][i].audit.received /\ ~a.sub_games[i].tampered

\* Every process reaches the end of its series, or stops at a handshake.
SeriesEnds == <>Stopped
-----------------------------------------------------------------------------
(* The inductive invariants behind the safety properties.                   *)

Phase == {"start", "offer", "await", "my_turn", "opp_turn", "settle", "audit",
          "record", "over", "down"}
Verdict == {"capture", "survival", "technical_loss"}
Turn == [game : Nat, sender : {"police", "thief"}, step : Nat, says : {"turn", "caught", "win"}]
Reveal == [game : Nat, steps : Nat]
AuditDict == [received : BOOLEAN, passed : BOOLEAN, forgery : BOOLEAN]

TypeOK ==
  /\ faults \in Nat
  /\ number \in [Peer -> Nat \ {0}]
  /\ phase \in [Peer -> Phase]
  /\ negotiation \in [Peer -> Seq(Nat)]
  /\ turns \in [Peer -> Seq(Turn)]
  /\ audits \in [Peer -> Seq(Reveal)]
  /\ agreed \in [Peer -> Nat] /\ mine \in [Peer -> Nat] /\ seen \in [Peer -> Nat]
  /\ heard \in [Peer -> SUBSET Nat]
  /\ strikes \in [Peer -> Nat]
  /\ verdict \in [Peer -> Verdict \cup {"none"}]
  /\ audit \in [Peer -> AuditDict]
  /\ outcomes \in [Peer -> Seq([result : Verdict \cup {"none"}, audit : AuditDict])]

\* Where a peer has an agreement for the sub-game it is in.
Handshaken == {"my_turn", "opp_turn", "settle", "audit", "record"}
Settled == {"settle", "audit", "record"}

\* How many agreements p may have sent, and how many it has consumed, in the
\* whole series, if none is sent twice.
Offered(p) ==
  (IF phase[p] \in {"start", "offer", "over", "down"} THEN {number[p] - 1} ELSE {})
    \cup (IF phase[p] \in Handshaken \cup {"await", "down"} THEN {number[p]} ELSE {})

Consumed(p) == IF phase[p] \in Handshaken THEN number[p] ELSE number[p] - 1

\* An inbox holds the agreements sent and not yet consumed, in order.
Handshakes(p) ==
  /\ Consumed(p) + Len(negotiation[p]) \in Offered(Other(p))
  /\ \A i \in DOMAIN negotiation[p] : negotiation[p][i] = Consumed(p) + i
  /\ agreed[p] = IF phase[p] \in Handshaken THEN number[p] ELSE 0

\* A turn in an inbox is of this sub-game or, if it was sent by an opponent
\* that was given up on, of the one before, in which the roles were swapped;
\* until the drain it may be older.
Mail(p) ==
  \A i \in DOMAIN turns[p] :
    LET m == turns[p][i] IN
    /\ m.sender = RoleIn(Other(p), m.game)
    /\ m.game <= IF phase[p] \in {"start", "offer", "over"} THEN number[p] - 1 ELSE number[p]
    /\ phase[p] \notin {"start", "over"} => m.game >= number[p] - 1

\* The series goes from one sub-game to the next until it is over.
Progress(p) ==
  /\ number[p] <= NumGames + 1
  /\ number[p] = NumGames + 1 <=> phase[p] = "over"
  /\ Len(outcomes[p]) = number[p] - 1
  /\ heard[p] \subseteq {number[p]}
  /\ phase[p] \notin Handshaken => mine[p] = 0 /\ seen[p] = 0 /\ heard[p] = {}

SeriesInv ==
  /\ TypeOK
  /\ \A p \in Peer : Handshakes(p) /\ Mail(p) /\ Progress(p)

-----------------------------------------------------------------------------
(* The rest holds while nothing fails.                                      *)

SameGame == number["left"] = number["right"]

\* A peer that is a sub-game ahead was let go by the other's reveal, and the
\* other only has to read its own.
InStep(p) ==
  /\ phase[p] # "down"
  /\ number[Other(p)] > number[p] => phase[p] \in {"audit", "record"}

\* The two step counters, by phase: the thief moves first, and is the first to
\* stop.
Counted(p) ==
  /\ phase[p] = "my_turn" => mine[p] = IF Role(p) = "thief" THEN seen[p] ELSE seen[p] - 1
  /\ phase[p] = "opp_turn" => mine[p] = IF Role(p) = "thief" THEN seen[p] + 1 ELSE seen[p]
  /\ phase[p] \in Settled => mine[p] = IF Role(p) = "thief" THEN seen[p] + 1 ELSE seen[p] - 1

Word == [none |-> "turn", capture |-> "caught", survival |-> "win", technical_loss |-> "turn"]

LatestTurn(p) ==
  [game |-> number[p], sender |-> Role(p), step |-> mine[p], says |-> Word[verdict[p]]]

\* Nothing is in flight but the latest turn of this sub-game.
OneTurn(p) ==
  LET q == Other(p) IN
  /\ SameGame => mine[q] \in {seen[p], seen[p] + 1}
  /\ turns[p] = IF SameGame /\ mine[q] = seen[p] + 1 THEN <<LatestTurn(q)>> ELSE << >>

\* The thief settles first, on the word it has just sent.
SettledAlike(p) ==
  LET q == Other(p) IN
  /\ IF phase[p] \in Settled THEN verdict[p] \in {"capture", "survival"}
                             ELSE verdict[p] = "none"
  /\ SameGame /\ phase[p] \in Settled =>
       IF phase[q] \in Settled THEN verdict[p] = verdict[q]
                               ELSE Role(p) = "thief" /\ mine[p] = seen[q] + 1

Passed == [received |-> TRUE, passed |-> TRUE, forgery |-> FALSE]

Revealed(p) ==
  \/ number[p] > number[Other(p)]
  \/ SameGame /\ phase[p] \in {"audit", "record"}

\* Nor any reveal but the opponent's of this sub-game, which passes.
OneReveal(p) ==
  /\ IF Revealed(Other(p)) /\ phase[p] \in {"await", "my_turn", "opp_turn", "settle", "audit"}
     THEN Len(audits[p]) = 1 /\ Head(audits[p]).game = number[p]
     ELSE audits[p] = << >>
  /\ phase[p] = "record" => Revealed(Other(p))
  /\ audit[p] = IF phase[p] = "record" THEN Passed ELSE NoAudit

RowsAgree(p) ==
  LET q == Other(p) IN
  /\ \A k \in DOMAIN outcomes[p] :
       /\ outcomes[p][k].audit = Passed
       /\ k \in DOMAIN outcomes[q] => outcomes[p][k].result = outcomes[q][k].result
  /\ number[p] > number[q] => outcomes[p][number[q]].result = verdict[q]

Clean ==
  \A p \in Peer : /\ InStep(p) /\ Counted(p) /\ OneTurn(p)
                  /\ SettledAlike(p) /\ OneReveal(p) /\ RowsAgree(p)

CleanInv == faults = 0 => Clean
=============================================================================
