---------------------------- MODULE ForeignPeer -----------------------------
(***************************************************************************)
(* One peer of this code against an opponent that need not run it: the      *)
(* league pairs independently written peers (docs/INTEROP.md), and          *)
(* TurnHandler exists to enforce the rules on whatever arrives.  The peer's *)
(* own steps are those of SubGame; the opponent says anything the envelope  *)
(* can carry, in any order, and reveals any of a given set of record        *)
(* sequences at the end.                                                    *)
(***************************************************************************)
EXTENDS SubGame

CONSTANT
  Reveals   \* what the opponent may reveal: sequences of records in which a
            \* commit is told by the number of the turn it was sealed for

ASSUME ForeignAssumption ==
  Reveals \subseteq Seq([step : Label, commit : Nat, recomputes : {"yes", "no", "raises"},
                         signature : {"valid", "invalid", "raises"}])

\* The role that runs this code.  The opponent has no lifecycle of this code,
\* so that no action of SubGame is ever its own.
me == CHOOSE p \in Role : fsm[p] # "FOREIGN"

-----------------------------------------------------------------------------
\* A cell the envelope carries but the board does not have.
OffBoard == <<GridSize, GridSize>>

Mentioned == Cell \cup {NoCell, OffBoard}

Steps == {lastStep[me], lastStep[me] + 1, lastStep[me] + 2}

\* Any well-formed body: one in its place with any combination of the optional
\* fields, or one of an old or a later step or another sender, which the gate
\* judges by no other field.
Utterance ==
  LET Body(steps, senders, cells, answers, wins) ==
        [step : steps, sender : senders, barrier : cells, claim : cells,
         response : answers, win : wins, commit : {Commit(Opponent(me), 0)}]
  IN  Body({lastStep[me] + 1}, {Opponent(me)}, Mentioned, Answer, BOOLEAN)
        \cup Body(Steps, Role, {NoCell}, {"none"}, {FALSE})

\* The commit travels with the step it seals; a repetition may bring another.
Stamped(m) ==
  [m EXCEPT !.commit = Commit(Opponent(me), IF m.step > lastStep[me] THEN m.step ELSE 0)]

ForeignInit ==
  /\ fsm \in {[p \in Role |-> IF p = mine THEN "BOOT" ELSE "FOREIGN"] : mine \in Role}
  /\ Fresh

\* The next message waiting in the inbox is settled when it is waited for:
\* the opponent is arbitrary, so saying it earlier tells nothing more.
Speak ==
  /\ fsm[me] = "OPP_TURN" /\ inbox[me] = << >>
  /\ \E m \in Utterance : inbox' = [inbox EXCEPT ![me] = <<Stamped(m)>>]
  /\ UNCHANGED <<fsm, result, response, own, gate, wire, ends>>

\* A body TurnMessage.from_wire refuses is a breach before any dedup.
RefuseEnvelope ==
  /\ fsm[me] = "OPP_TURN" /\ inbox[me] = << >>
  /\ breaches' = [breaches EXCEPT ![me] = @ + 1]
  /\ \/ breaches'[me] >= MaxBreaches /\ Leave(me, "technical_loss")
     \/ breaches'[me] < MaxBreaches /\ UNCHANGED <<fsm, result>>
  /\ UNCHANGED <<response, own, lastStep, oppBarriers, commits, wire, inbox, ends>>

\* What submit_audit brings of a reveal.
Told(reveal) ==
  [i \in DOMAIN reveal |->
     [reveal[i] EXCEPT !.commit = Commit(Opponent(me), reveal[i].commit)]]

\* The opponent's reveal, in the window in which it is waited for.
Reveal ==
  /\ fsm[me] = "AUDITING" /\ ~raised[me] /\ audits[me] = << >>
  /\ \E reveal \in Reveals :
       audits' = [audits EXCEPT ![me] = <<[claim |-> "none", records |-> Told(reveal)]>>]
  /\ UNCHANGED <<fsm, result, response, own, gate, wire, inbox, audit, raised>>

\* The peer's thread has left run(), with an outcome or an exception.
Ended == fsm[me] = "DONE" \/ raised[me]

ForeignNext ==
  \/ \E p \in Role : Thread(p) \/ Arrive(p)
  \/ Speak \/ RefuseEnvelope \/ Reveal
  \/ Ended /\ UNCHANGED vars

\* The peer's own thread runs.  Nothing is assumed of the opponent, nor of the
\* network.
ForeignSpec ==
  ForeignInit /\ [][ForeignNext]_vars /\ \A p \in Role : WF_vars(Works(p))

-----------------------------------------------------------------------------
(* What must hold whatever the opponent runs.                               *)

\* One reply to each accepted turn: the peer's own step counter never runs
\* ahead of the turns it accepted, nor falls behind them, so no repetition,
\* gap or rejected message can earn or cost it a move.
OneReplyPerTurn == Clock(me)

\* Strikes count in a row.  A peer that is moving has forgiven them, one
\* that is still listening has not run out of them, and running out of them
\* is a technical loss and nothing else.
StrikesInARow ==
  /\ fsm[me] \in {"MY_TURN", "SENDING"} => breaches[me] = 0
  /\ breaches[me] <= MaxBreaches
  /\ breaches[me] = MaxBreaches =>
       /\ fsm[me] \in {"GAME_OVER", "AUDITING", "DONE"}
       /\ result[me] = "technical_loss"

\* The map never holds more walls than the quota bought, and a count of the
\* quota is the number of walls on it.
QuotaIsEnforced ==
  /\ oppBarriers[me] <= MaxBarriers /\ myBarriers[me] <= MaxBarriers
  /\ Cardinality(barriers[me]) = myBarriers[me] + oppBarriers[me]
  /\ barriers[me] \subseteq Cell

\* A survival is only recorded when the thief's turns reach the threshold
\* this peer holds, or the cop's reach the ceiling, by this peer's own count.
SurvivalNeedsTheClock ==
  result[me] = "survival" =>
    IF me = "police"
    THEN lastStep[me] >= SurvivalThreshold[me] \/ counter[me] >= MaxMoves
    ELSE counter[me] >= SurvivalThreshold[me] \/ lastStep[me] >= MaxMoves

\* r names a turn accepted live, and another commit than came with it.
Swapped(r) ==
  r.step \in 1 .. lastStep[me] /\ r.commit # Commit(Opponent(me), r.step)

Culprits(payload) == {r \in Revealed(payload) : r.recomputes = "no" \/ Swapped(r)}

Unsigned(payload) == payload.records # << >> /\ payload.records[1].signature = "invalid"

\* A record that no JSON writer of a peer of this code ever makes.
Odd(r) == r.step \notin Nat \/ r.recomputes = "raises" \/ r.signature = "raises"

\* A verdict given in this step is the one the reveal deserves.
Judged ==
  LET theirs == Head(audits[me]) IN
  /\ audit' # audit =>
       \/ audit'[me] = "absent" /\ UNCHANGED result
       \/ /\ audit'[me] = "passed" /\ UNCHANGED result
          /\ Culprits(theirs) = {} /\ ~Unsigned(theirs)
       \/ /\ audit'[me] = "forgery" /\ result'[me] = "technical_loss"
          /\ Culprits(theirs) # {} \/ Unsigned(theirs)
  /\ raised' # raised =>
       fsm[me] = "NEGOTIATING" \/ \E r \in Revealed(theirs) : Odd(r)

\* A reveal passes exactly when all its records recompute, none brings, at
\* whatever place, another commit than the one that came live with the step it
\* names, and the first is a declaration signed by the key of the handshake;
\* any other verdict is forgery and makes the sub-game a technical loss; and a
\* verdict is only ever missed for want of a reveal, or for an odd record.
\* Not promised, although audit.py:59 says "every revealed commit": a record
\* that names no turn accepted live is bound to nothing, and a turn left out of
\* the reveal is not missed.
SwapIsConvicted == [][Judged]_vars

\* Whatever the opponent and the network do or fail to do, the peer's thread
\* gets out of its sub-game, unless duplicates keep coming for ever: each one
\* is dropped and re-arms the opponent-turn deadline (runtime.py:134-143).  It
\* gets out with an outcome, or with an exception that only the handshake or
\* an odd record raises: sealing.py:131-132 ("never crash our audit") is true
\* of audit_verify alone.
OnlyDuplicatesHold == <>Ended \/ []<><<\E p \in Role : DropDuplicate(p)>>_vars

-----------------------------------------------------------------------------
(* The inductive invariant behind the five: what is so of the role p that   *)
(* runs this code, and of the opponent q only that it does not.             *)

\* p runs this code; q has no lifecycle of it and takes no turn through it.
OnlyPeer(p) ==
  /\ fsm[p] # "FOREIGN" /\ fsm[Opponent(p)] = "FOREIGN"
  /\ counter[Opponent(p)] = 0

\* Anything the envelope carries.
Envelope ==
  [step : Nat, sender : Role, barrier : Mentioned, claim : Mentioned,
   response : Answer, win : BOOLEAN, commit : CommitOf]

\* The types of SubGame, with foreign messages and a foreign lifecycle.
ForeignTypeOK ==
  /\ fsm \in [Role -> {"BOOT", "NEGOTIATING", "MY_TURN", "SENDING", "OPP_TURN",
                       "GAME_OVER", "AUDITING", "DONE", "FOREIGN"}]
  /\ result \in [Role -> Result \cup {"none"}]
  /\ response \in [Role -> Answer]
  /\ pos \in [Role -> Cell]
  /\ barriers \in [Role -> SUBSET Cell]
  /\ myBarriers \in [Role -> Nat]
  /\ counter \in [Role -> Nat]
  /\ sealed \in [Role -> Seq(CommitOf)]
  /\ lastStep \in [Role -> Nat]
  /\ oppBarriers \in [Role -> Nat]
  /\ breaches \in [Role -> Nat]
  /\ commits \in [Role -> Seq(CommitOf)]
  /\ post \in [Role -> TurnMessage]
  /\ arrived \in [Role -> BOOLEAN]
  /\ inbox \in [Role -> Seq(Envelope)]
  /\ audits \in [Role -> Seq(AuditPayload)]
  /\ audit \in [Role -> {"pending", "absent", "passed", "forgery"}]
  /\ raised \in [Role -> BOOLEAN]

\* Strikes are outstanding only where the peer listens, or has stopped.
StrikesHeld(p) ==
  /\ fsm[p] \in {"BOOT", "NEGOTIATING", "MY_TURN", "SENDING"} => breaches[p] = 0
  /\ breaches[p] <= MaxBreaches
  /\ breaches[p] = MaxBreaches =>
       /\ fsm[p] \in {"GAME_OVER", "AUDITING", "DONE"}
       /\ result[p] = "technical_loss"

\* The quota's two counters count the walls of the map.
WallsCounted(p) ==
  /\ IsFiniteSet(barriers[p])
  /\ Cardinality(barriers[p]) = myBarriers[p] + oppBarriers[p]
  /\ myBarriers[p] <= MaxBarriers /\ oppBarriers[p] <= MaxBarriers

\* Some clock p keeps has run out.
ClockRanOut(p) ==
  IF p = "police"
  THEN lastStep[p] >= SurvivalThreshold[p] \/ counter[p] >= MaxMoves
  ELSE counter[p] >= SurvivalThreshold[p] \/ lastStep[p] >= MaxMoves

\* A win p claimed, or a survival it recorded, is backed by its own count.
SurvivalTimed(p) ==
  /\ post[p].step = counter[p]
  /\ post[p].win => p = "thief" /\ counter[p] >= SurvivalThreshold[p]
  /\ result[p] = "survival" => ClockRanOut(p)

\* The live commits are the opponent's, one to a step accepted; whatever waits
\* in the inbox and is no repetition brings the commit of its step; a reveal
\* waits only while it is waited for; and a thread that has raised is stuck in
\* its handshake or its audit.
RevealHeld(p) ==
  LET q == Opponent(p) IN
  /\ Len(commits[p]) = lastStep[p]
  /\ \A i \in 1 .. lastStep[p] : commits[p][i] = Commit(q, i)
  /\ \A i \in 1 .. Len(inbox[p]) :
       inbox[p][i].step > lastStep[p] => inbox[p][i].commit = Commit(q, inbox[p][i].step)
  /\ audits[p] # << >> => fsm[p] = "AUDITING" /\ ~raised[p] /\ Len(audits[p]) = 1
  /\ raised[p] => fsm[p] \in {"NEGOTIATING", "AUDITING"}
  /\ fsm[p] = "DONE" <=> audit[p] # "pending"

PeerInv(p) ==
  OnlyPeer(p) /\ Clock(p) /\ StrikesHeld(p) /\ WallsCounted(p) /\ SurvivalTimed(p)
    /\ RevealHeld(p)

ForeignInv == ForeignTypeOK /\ \E p \in Role : PeerInv(p)
=============================================================================
