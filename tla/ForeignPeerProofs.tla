------------------------- MODULE ForeignPeerProofs --------------------------
(***************************************************************************)
(* Theorems about ForeignPeer: what one peer keeps for every board, quota,  *)
(* threshold and strike limit, whatever the opponent says and reveals and   *)
(* with or without faults.                                                  *)
(***************************************************************************)
EXTENDS ForeignPeer, SubGameProofs

LEMMA Other ==
  ASSUME NEW p \in Role
  PROVE  /\ Opponent(p) \in Role /\ Opponent(p) # p
         /\ \A r \in Role : r = p \/ r = Opponent(p)
         /\ p = "police" <=> Opponent(p) # "police"
BY DEF Role, Opponent

\* The role that runs this code is the one the invariant speaks of.
LEMMA OnlyPeerIsMe ==
  ASSUME NEW p \in Role, OnlyPeer(p)
  PROVE  me = p
<1>1. \A r \in Role : fsm[r] # "FOREIGN" <=> r = p
  BY Other DEF OnlyPeer
<1>2. QED
  BY <1>1 DEF me

\* What a turn composed here says, the envelope can carry.
LEMMA TurnsAreEnvelopes == TurnMessage \subseteq Envelope
BY DEF TurnMessage, Envelope, Mentioned

LEMMA ForeignStart ==
  ASSUME ForeignInit
  PROVE  ForeignTypeOK /\ \E p \in Role : PeerInv(p)
<1>1. PICK p \in Role : fsm = [r \in Role |-> IF r = p THEN "BOOT" ELSE "FOREIGN"]
  BY DEF ForeignInit
<1>2. Fresh
  BY DEF ForeignInit
<1>3. NoPost \in TurnMessage
  BY DEF NoPost, TurnMessage, Role, Answer, CommitOf
<1>4. /\ fsm \in [Role -> {"BOOT", "NEGOTIATING", "MY_TURN", "SENDING", "OPP_TURN",
                           "GAME_OVER", "AUDITING", "DONE", "FOREIGN"}]
      /\ fsm[p] = "BOOT" /\ fsm[Opponent(p)] = "FOREIGN"
  BY <1>1, Other
<1>5. ForeignTypeOK
  BY <1>2, <1>3, <1>4, SubGameAssumption DEF Fresh, ForeignTypeOK, Answer, Role
<1>6. OnlyPeer(p)
  BY <1>2, <1>4, Other DEF OnlyPeer, Fresh
<1>7. Clock(p)
  BY <1>2, <1>4, Opponents DEF Fresh, Clock
<1>8. StrikesHeld(p)
  BY <1>2, <1>4, SubGameAssumption DEF Fresh, StrikesHeld
<1>9. WallsCounted(p)
  <2>1. barriers[p] = {} /\ myBarriers[p] = 0 /\ oppBarriers[p] = 0
    BY <1>2 DEF Fresh
  <2>2. QED
    BY <2>1, RulesAssumption, FS_EmptySet DEF WallsCounted
<1>10. SurvivalTimed(p)
  BY <1>2 DEF Fresh, SurvivalTimed, NoPost
<1>11. RevealHeld(p)
  <2>1. /\ commits[p] = << >> /\ lastStep[p] = 0 /\ inbox[p] = << >>
        /\ audits[p] = << >> /\ audit[p] = "pending" /\ ~raised[p] /\ fsm[p] # "DONE"
    BY <1>2, <1>4 DEF Fresh
  <2>2. QED
    BY <2>1 DEF RevealHeld
<1>12. QED
  BY <1>5, <1>6, <1>7, <1>8, <1>9, <1>10, <1>11 DEF PeerInv

-----------------------------------------------------------------------------
(* The opponent has no step of this code.                                   *)

LEMMA ForeignIsIdle ==
  ASSUME ForeignTypeOK, NEW p \in Role, OnlyPeer(p)
  PROVE  ~Thread(Opponent(p)) /\ ~Arrive(Opponent(p))
<1> DEFINE q == Opponent(p)
<1>1. fsm[q] = "FOREIGN" /\ counter[q] = 0
  BY DEF OnlyPeer
<1> HIDE DEF q
<1>2. ~Arrive(q)
  BY <1>1 DEF Arrive
<1>3. ~Negotiate(q) /\ ~Agree(q) /\ ~TakeTurn(q) /\ ~Concede(q) /\ ~Sent(q) /\ ~TransportFails(q)
  BY <1>1 DEF Negotiate, Agree, TakeTurn, Concede, Sent, TransportFails
<1>4. ~DropDuplicate(q) /\ ~RejectTurn(q) /\ ~AcceptTurn(q) /\ ~Expire(q) /\ ~Crash(q)
  BY <1>1 DEF DropDuplicate, RejectTurn, AcceptTurn, Reading, Expire, Crash
<1>5. ~SubmitAudit(q) /\ ~ReadAudit(q) /\ ~MissAudit(q)
  BY <1>1 DEF SubmitAudit, ReadAudit, MissAudit
<1>6. ~HandshakeFails(q)
  BY <1>1 DEF HandshakeFails
<1>7. QED
  BY <1>2, <1>3, <1>4, <1>5, <1>6 DEF q, Thread, Works

-----------------------------------------------------------------------------
(* The steps that leave the loop, or only move along it.                    *)

\* Every message that waits for p and is no repetition bears its opponent's
\* commit of its step.
Addressed(p) ==
  \A i \in 1 .. Len(inbox[p]) :
    inbox[p][i].step > lastStep[p] => inbox[p][i].commit = Commit(Opponent(p), inbox[p][i].step)

\* One more strike, and the sub-game lost with the last one.
Strike(p) ==
  /\ breaches' = [breaches EXCEPT ![p] = @ + 1]
  /\ \/ breaches'[p] >= MaxBreaches /\ Leave(p, "technical_loss")
     \/ breaches'[p] < MaxBreaches /\ UNCHANGED <<fsm, result>>

\* What the lifecycle has no say in stays as it was.
Still == UNCHANGED <<pos, barriers, myBarriers, counter, sealed, lastStep, oppBarriers,
                     commits, post, audits, audit, raised>>

LEMMA StillKeepsWalls ==
  ASSUME NEW p \in Role, WallsCounted(p), Still
  PROVE  WallsCounted(p)'
BY DEF WallsCounted, Still

\* A step of p's lifecycle alone, at an unchanged count.
LEMMA WalkKeeps ==
  ASSUME ForeignTypeOK, NEW p \in Role, PeerInv(p), Still,
         NEW to \in {"BOOT", "NEGOTIATING", "MY_TURN", "SENDING", "OPP_TURN",
                     "GAME_OVER", "AUDITING"},
         fsm[p] # "DONE", audits[p] = << >>, ~raised[p],
         fsm' = [fsm EXCEPT ![p] = to],
         Addressed(p)',
         result' = result \/ result'[p] # "survival" \/ ClockRanOut(p)
  PROVE  OnlyPeer(p)' /\ WallsCounted(p)' /\ SurvivalTimed(p)' /\ RevealHeld(p)'
<1>1. /\ fsm'[p] = to /\ fsm'[Opponent(p)] = fsm[Opponent(p)] /\ to # "FOREIGN"
      /\ counter' = counter
  BY Other DEF ForeignTypeOK, Still
<1>2. OnlyPeer(p)'
  BY <1>1 DEF PeerInv, OnlyPeer
<1>3. WallsCounted(p)'
  BY StillKeepsWalls DEF PeerInv
<1>4. SurvivalTimed(p)'
  BY DEF PeerInv, SurvivalTimed, ClockRanOut, Still
<1>5. RevealHeld(p)'
  BY <1>1 DEF PeerInv, RevealHeld, Still, Addressed
<1>6. QED
  BY <1>2, <1>3, <1>4, <1>5

\* The states p's lifecycle can be in.
Stage == {"BOOT", "NEGOTIATING", "MY_TURN", "SENDING", "OPP_TURN", "GAME_OVER",
          "AUDITING", "DONE"}

LEMMA StartSteps ==
  ASSUME ForeignTypeOK, NEW p \in Role, PeerInv(p), Negotiate(p) \/ Agree(p)
  PROVE  ForeignTypeOK' /\ PeerInv(p)'
<1> USE DEF own, gate, wire, ends
<1>1. PICK to \in {"NEGOTIATING", "MY_TURN", "OPP_TURN"} :
        /\ fsm' = [fsm EXCEPT ![p] = to]
        /\ \/ fsm[p] = "BOOT" /\ to = "NEGOTIATING"
           \/ fsm[p] = "NEGOTIATING" /\ ~raised[p] /\ to = FirstTurn(p)
  <2>1. FirstTurn(p) \in {"NEGOTIATING", "MY_TURN", "OPP_TURN"}
    BY DEF FirstTurn
  <2>2. QED
    BY <2>1 DEF Negotiate, Agree
<1>2. UNCHANGED <<result, response, own, gate, wire, inbox, ends>>
  BY DEF Negotiate, Agree
<1>3. fsm'[p] = to
  BY <1>1 DEF ForeignTypeOK
<1>4. ForeignTypeOK'
  BY <1>1, <1>2 DEF ForeignTypeOK
<1>5. OnlyPeer(p)' /\ WallsCounted(p)' /\ SurvivalTimed(p)' /\ RevealHeld(p)'
  <2>1. Still
    BY <1>2 DEF Still
  <2>2. fsm[p] # "DONE" /\ audits[p] = << >> /\ ~raised[p]
    BY <1>1 DEF PeerInv, RevealHeld
  <2>3. Addressed(p)'
    BY <1>2 DEF PeerInv, RevealHeld, Addressed
  <2>4. QED
    BY <1>1, <1>2, <2>1, <2>2, <2>3, WalkKeeps
<1>6. Clock(p)'
  BY <1>1, <1>2, <1>3, Opponents DEF PeerInv, Clock, FirstTurn
<1>7. StrikesHeld(p)'
  BY <1>1, <1>2, <1>3, SubGameAssumption DEF PeerInv, StrikesHeld, FirstTurn
<1>8. QED
  BY <1>4, <1>5, <1>6, <1>7 DEF PeerInv

\* Leaving the loop with a verdict the clocks allow.
LEMMA LeaveKeeps ==
  ASSUME ForeignTypeOK, NEW p \in Role, PeerInv(p), NEW verdict \in Result,
         Leave(p, verdict), fsm[p] \in {"MY_TURN", "SENDING", "OPP_TURN"},
         verdict = "survival" => ClockRanOut(p),
         UNCHANGED <<own, gate, wire, inbox, ends>>, response' \in [Role -> Answer]
  PROVE  ForeignTypeOK' /\ PeerInv(p)'
<1> USE DEF own, gate, wire, ends
<1>1. /\ fsm' = [fsm EXCEPT ![p] = "GAME_OVER"] /\ fsm'[p] = "GAME_OVER"
      /\ result'[p] = verdict
  BY DEF Leave, ForeignTypeOK
<1>2. ForeignTypeOK'
  BY DEF Leave, ForeignTypeOK
<1>3. OnlyPeer(p)' /\ WallsCounted(p)' /\ SurvivalTimed(p)' /\ RevealHeld(p)'
  <2>1. Still
    BY DEF Still
  <2>2. fsm[p] # "DONE" /\ audits[p] = << >> /\ ~raised[p]
    BY DEF PeerInv, RevealHeld
  <2>3. Addressed(p)'
    BY DEF PeerInv, RevealHeld, Addressed
  <2>4. result'[p] # "survival" \/ ClockRanOut(p)
    BY <1>1
  <2>5. QED
    BY <1>1, <2>1, <2>2, <2>3, <2>4, WalkKeeps
<1>4. Clock(p)'
  BY <1>1, Opponents DEF PeerInv, Clock
<1>5. StrikesHeld(p)'
  BY <1>1, SubGameAssumption DEF PeerInv, StrikesHeld, ForeignTypeOK
<1>6. QED
  BY <1>2, <1>3, <1>4, <1>5 DEF PeerInv

\* A call, a deadline or a component that fails.
LEMMA FailSteps ==
  ASSUME ForeignTypeOK, NEW p \in Role, PeerInv(p),
         TransportFails(p) \/ Expire(p) \/ Crash(p)
  PROVE  ForeignTypeOK' /\ PeerInv(p)'
<1>1. Leave(p, "technical_loss") /\ fsm[p] \in {"MY_TURN", "SENDING", "OPP_TURN"}
  BY DEF TransportFails, Expire, Crash
<1>2. UNCHANGED <<response, own, gate, wire, inbox, ends>>
  BY DEF TransportFails, Expire, Crash
<1>3. response' \in [Role -> Answer] /\ "technical_loss" \in Result
  BY <1>2 DEF ForeignTypeOK, Result
<1>4. QED
  BY <1>1, <1>2, <1>3, LeaveKeeps

\* The ack of a turn: a win claimed and a move ceiling are counts of p's own.
LEMMA SentKeeps ==
  ASSUME ForeignTypeOK, NEW p \in Role, PeerInv(p), Sent(p)
  PROVE  ForeignTypeOK' /\ PeerInv(p)'
<1> USE DEF own, gate, wire, ends
<1>1. /\ fsm[p] = "SENDING" /\ UNCHANGED <<own, gate, wire, inbox, ends>>
      /\ response' = [response EXCEPT ![p] = "none"]
  BY DEF Sent
<1>2. response' \in [Role -> Answer]
  BY <1>1 DEF ForeignTypeOK, Answer
<1>3. CASE Leave(p, "capture")
  <2>1. "capture" \in Result
    BY DEF Result
  <2>2. QED
    BY <1>1, <1>2, <1>3, <2>1, LeaveKeeps
<1>4. CASE /\ post[p].win \/ Spent(p, post[p].step)
           /\ Leave(p, "survival")
  <2>1. "survival" \in Result
    BY DEF Result
  <2>2. ClockRanOut(p)
    <3>1. CASE post[p].win
      BY <3>1 DEF PeerInv, SurvivalTimed, ClockRanOut
    <3>2. CASE Spent(p, post[p].step)
      BY <3>2 DEF PeerInv, SurvivalTimed, ClockRanOut, Spent
    <3>3. QED
      BY <1>4, <3>1, <3>2
  <2>3. Leave(p, "survival")
    BY <1>4
  <2>4. QED
    BY <1>1, <1>2, <2>1, <2>2, <2>3, LeaveKeeps
<1>5. CASE fsm' = [fsm EXCEPT ![p] = "OPP_TURN"] /\ UNCHANGED result
  <2>1. fsm'[p] = "OPP_TURN"
    BY <1>5 DEF ForeignTypeOK
  <2>2. ForeignTypeOK'
    BY <1>1, <1>2, <1>5 DEF ForeignTypeOK
  <2>3. OnlyPeer(p)' /\ WallsCounted(p)' /\ SurvivalTimed(p)' /\ RevealHeld(p)'
    <3>1. Still
      BY <1>1 DEF Still
    <3>2. fsm[p] # "DONE" /\ audits[p] = << >> /\ ~raised[p]
      BY <1>1 DEF PeerInv, RevealHeld
    <3>3. Addressed(p)'
      BY <1>1 DEF PeerInv, RevealHeld, Addressed
    <3>4. QED
      BY <1>5, <3>1, <3>2, <3>3, WalkKeeps
  <2>4. Clock(p)'
    BY <1>1, <2>1, Opponents DEF PeerInv, Clock
  <2>5. StrikesHeld(p)'
    BY <1>1, <2>1, <1>5, SubGameAssumption DEF PeerInv, StrikesHeld
  <2>6. QED
    BY <2>2, <2>3, <2>4, <2>5 DEF PeerInv
<1>6. QED
  BY <1>3, <1>4, <1>5 DEF Sent

-----------------------------------------------------------------------------
(* Listening: repetitions, rejections, and what the opponent may say.       *)

\* One more strike, whatever is left in the inbox.
LEMMA StrikeKeeps ==
  ASSUME ForeignTypeOK, NEW p \in Role, PeerInv(p), fsm[p] = "OPP_TURN",
         Strike(p),
         UNCHANGED <<response, own, lastStep, oppBarriers, commits, wire, ends>>,
         inbox' \in [Role -> Seq(Envelope)],
         Addressed(p)'
  PROVE  ForeignTypeOK' /\ PeerInv(p)'
<1> USE DEF own, gate, wire, ends
<1>1. /\ breaches[p] \in Nat /\ breaches[p] < MaxBreaches
      /\ breaches'[p] = breaches[p] + 1 /\ breaches' \in [Role -> Nat]
  BY SubGameAssumption DEF PeerInv, StrikesHeld, ForeignTypeOK, Strike
<1>2. Still
  BY DEF Still
<1>3. fsm[p] # "DONE" /\ audits[p] = << >> /\ ~raised[p]
  BY DEF PeerInv, RevealHeld
<1>4. CASE breaches'[p] >= MaxBreaches /\ Leave(p, "technical_loss")
  <2>1. /\ fsm' = [fsm EXCEPT ![p] = "GAME_OVER"] /\ fsm'[p] = "GAME_OVER"
        /\ result'[p] = "technical_loss"
    BY <1>4 DEF Leave, ForeignTypeOK
  <2>2. ForeignTypeOK'
    BY <1>1, <1>4 DEF Leave, ForeignTypeOK, Result
  <2>3. OnlyPeer(p)' /\ WallsCounted(p)' /\ SurvivalTimed(p)' /\ RevealHeld(p)'
    BY <1>2, <1>3, <2>1, WalkKeeps
  <2>4. Clock(p)'
    BY <2>1, Opponents DEF PeerInv, Clock
  <2>5. StrikesHeld(p)'
    BY <1>1, <1>4, <2>1, SubGameAssumption DEF StrikesHeld
  <2>6. QED
    BY <2>2, <2>3, <2>4, <2>5 DEF PeerInv
<1>5. CASE breaches'[p] < MaxBreaches /\ UNCHANGED <<fsm, result>>
  <2>1. fsm' = [fsm EXCEPT ![p] = "OPP_TURN"] /\ fsm'[p] = "OPP_TURN"
    <3>1. fsm' = fsm
      BY <1>5
    <3>2. fsm = [fsm EXCEPT ![p] = fsm[p]]
      BY DEF ForeignTypeOK
    <3>3. fsm[p] = "OPP_TURN"
      OBVIOUS
    <3>4. QED
      BY <3>1, <3>2, <3>3
  <2>2. ForeignTypeOK'
    BY <1>1, <1>5 DEF ForeignTypeOK
  <2>3. OnlyPeer(p)' /\ WallsCounted(p)' /\ SurvivalTimed(p)' /\ RevealHeld(p)'
    BY <1>2, <1>3, <1>5, <2>1, WalkKeeps
  <2>4. Clock(p)'
    BY <1>5 DEF PeerInv, Clock
  <2>5. StrikesHeld(p)'
    BY <1>1, <1>5, <2>1, SubGameAssumption DEF StrikesHeld
  <2>6. QED
    BY <2>2, <2>3, <2>4, <2>5 DEF PeerInv
<1>6. QED
  BY <1>4, <1>5 DEF Strike

\* What is left of p's inbox once the head is taken; the count of accepted
\* turns never goes back.
LEMMA TakeLeaves ==
  ASSUME ForeignTypeOK, NEW p \in Role, RevealHeld(p), inbox[p] # << >>, Take(p),
         lastStep'[p] \in Nat, lastStep'[p] >= lastStep[p]
  PROVE  /\ Head(inbox[p]).step > lastStep[p] =>
              Head(inbox[p]).commit = Commit(Opponent(p), Head(inbox[p]).step)
         /\ inbox' \in [Role -> Seq(Envelope)]
         /\ Addressed(p)'
<1>1. inbox[p] \in Seq(Envelope) /\ inbox'[p] = Tail(inbox[p])
  BY DEF ForeignTypeOK, Take
<1>2. /\ Head(inbox[p]) = inbox[p][1]
      /\ Len(inbox[p]) \in Nat /\ Len(inbox[p]) >= 1
      /\ Tail(inbox[p]) \in Seq(Envelope) /\ Len(Tail(inbox[p])) = Len(inbox[p]) - 1
      /\ \A i \in 1 .. Len(Tail(inbox[p])) : Tail(inbox[p])[i] = inbox[p][i + 1]
  BY <1>1
<1>3. \A i \in 1 .. Len(inbox[p]) :
        inbox[p][i].step > lastStep[p] =>
          inbox[p][i].commit = Commit(Opponent(p), inbox[p][i].step)
  BY DEF RevealHeld
<1>4. inbox' \in [Role -> Seq(Envelope)]
  BY <1>1, <1>2 DEF Take, ForeignTypeOK
<1>5. ASSUME NEW i \in 1 .. Len(inbox'[p]), inbox'[p][i].step > lastStep'[p]
      PROVE  inbox'[p][i].commit = Commit(Opponent(p), inbox'[p][i].step)
  <2>1. inbox'[p][i] = inbox[p][i + 1] /\ i + 1 \in 1 .. Len(inbox[p])
    BY <1>1, <1>2
  <2>2. inbox[p][i + 1].step \in Nat /\ lastStep[p] \in Nat
    <3>1. inbox[p][i + 1] \in Envelope
      BY <1>1, <2>1, ElementOfSeq
    <3>2. QED
      BY <3>1 DEF ForeignTypeOK, Envelope
  <2>3. inbox[p][i + 1].step > lastStep[p]
    BY <1>5, <2>1, <2>2
  <2>4. QED
    BY <1>3, <2>1, <2>3
<1>6. Head(inbox[p]).step > lastStep[p] =>
        Head(inbox[p]).commit = Commit(Opponent(p), Head(inbox[p]).step)
  BY <1>2, <1>3
<1>7. QED
  BY <1>4, <1>5, <1>6 DEF Addressed

LEMMA RejectKeeps ==
  ASSUME ForeignTypeOK, NEW p \in Role, PeerInv(p), RejectTurn(p)
  PROVE  ForeignTypeOK' /\ PeerInv(p)'
<1>1. /\ fsm[p] = "OPP_TURN" /\ inbox[p] # << >> /\ Take(p)
      /\ Strike(p)
      /\ UNCHANGED <<response, own, lastStep, oppBarriers, commits, wire, ends>>
  BY DEF RejectTurn, Reading, Strike
<1>2. RevealHeld(p) /\ lastStep'[p] \in Nat /\ lastStep'[p] >= lastStep[p]
  BY <1>1 DEF PeerInv, ForeignTypeOK, gate
<1>3. /\ inbox' \in [Role -> Seq(Envelope)]
      /\ Addressed(p)'
  BY <1>1, <1>2, TakeLeaves
<1>4. QED
  BY <1>1, <1>3, StrikeKeeps

LEMMA RefuseKeeps ==
  ASSUME ForeignTypeOK, NEW p \in Role, PeerInv(p), me = p, RefuseEnvelope
  PROVE  ForeignTypeOK' /\ PeerInv(p)'
<1>1. /\ fsm[p] = "OPP_TURN" /\ UNCHANGED inbox
      /\ Strike(p)
      /\ UNCHANGED <<response, own, lastStep, oppBarriers, commits, wire, ends>>
  BY DEF RefuseEnvelope, Strike
<1>2. /\ inbox' \in [Role -> Seq(Envelope)]
      /\ Addressed(p)'
  BY <1>1 DEF PeerInv, RevealHeld, Addressed, ForeignTypeOK
<1>3. QED
  BY <1>1, <1>2, StrikeKeeps

\* Only p's inbox changes: a repetition dropped, or a message that waits.
LEMMA InboxKeeps ==
  ASSUME ForeignTypeOK, NEW p \in Role, PeerInv(p), fsm[p] = "OPP_TURN",
         UNCHANGED <<fsm, result, response, own, gate, wire, ends>>,
         inbox' \in [Role -> Seq(Envelope)],
         Addressed(p)'
  PROVE  ForeignTypeOK' /\ PeerInv(p)'
<1> USE DEF own, gate, wire, ends
<1>1. ForeignTypeOK'
  BY DEF ForeignTypeOK
<1>2. OnlyPeer(p)' /\ WallsCounted(p)' /\ SurvivalTimed(p)' /\ RevealHeld(p)'
  BY DEF PeerInv, OnlyPeer, WallsCounted, SurvivalTimed, ClockRanOut, RevealHeld, Addressed
<1>3. Clock(p)' /\ StrikesHeld(p)'
  BY DEF PeerInv, Clock, StrikesHeld
<1>4. QED
  BY <1>1, <1>2, <1>3 DEF PeerInv

LEMMA DropKeeps ==
  ASSUME ForeignTypeOK, NEW p \in Role, PeerInv(p), DropDuplicate(p)
  PROVE  ForeignTypeOK' /\ PeerInv(p)'
<1>1. /\ fsm[p] = "OPP_TURN" /\ inbox[p] # << >> /\ Take(p)
      /\ UNCHANGED <<fsm, result, response, own, gate, wire, ends>>
  BY DEF DropDuplicate, Reading
<1>2. RevealHeld(p) /\ lastStep'[p] \in Nat /\ lastStep'[p] >= lastStep[p]
  BY <1>1 DEF PeerInv, ForeignTypeOK, gate
<1>3. /\ inbox' \in [Role -> Seq(Envelope)]
      /\ Addressed(p)'
  BY <1>1, <1>2, TakeLeaves
<1>4. QED
  BY <1>1, <1>3, InboxKeeps

\* Whatever is said and is no repetition bears the commit of the step it claims.
LEMMA SpeakKeeps ==
  ASSUME ForeignTypeOK, NEW p \in Role, PeerInv(p), me = p, Speak
  PROVE  ForeignTypeOK' /\ PeerInv(p)'
<1>1. /\ fsm[p] = "OPP_TURN"
      /\ UNCHANGED <<fsm, result, response, own, gate, wire, ends>>
  BY DEF Speak
<1>2. PICK m \in Utterance : inbox' = [inbox EXCEPT ![p] = <<Stamped(m)>>]
  BY DEF Speak
<1>3. Opponent(p) \in Role /\ lastStep[p] \in Nat
  BY Other DEF ForeignTypeOK
<1> DEFINE Body(steps, senders, cells, answers, wins) ==
             [step : steps, sender : senders, barrier : cells, claim : cells,
              response : answers, win : wins, commit : {Commit(Opponent(p), 0)}]
<1>4. m \in Body(Nat, Role, Mentioned, Answer, BOOLEAN)
  <2>1. \/ m \in Body({lastStep[p] + 1}, {Opponent(p)}, Mentioned, Answer, BOOLEAN)
        \/ m \in Body(Steps, Role, {NoCell}, {"none"}, {FALSE})
    BY <1>2 DEF Utterance
  <2>2. /\ {lastStep[p] + 1} \subseteq Nat /\ {Opponent(p)} \subseteq Role
        /\ Steps \subseteq Nat /\ {NoCell} \subseteq Mentioned
        /\ {"none"} \subseteq Answer /\ {FALSE} \subseteq BOOLEAN
    BY <1>3 DEF Steps, Mentioned, Answer
  <2>3. QED
    BY <2>1, <2>2
<1>5. /\ Stamped(m) \in Envelope /\ Stamped(m).step = m.step
      /\ m.step > lastStep[p] => Stamped(m).commit = Commit(Opponent(p), m.step)
  BY <1>3, <1>4 DEF Stamped, Envelope, Commit, CommitOf
<1> DEFINE said == Stamped(m)
<1>6. inbox' \in [Role -> Seq(Envelope)] /\ inbox'[p] = <<said>>
  <2>1. said \in Envelope /\ inbox' = [inbox EXCEPT ![p] = <<said>>]
    BY <1>2, <1>5
  <2> HIDE DEF said
  <2>2. <<said>> \in Seq(Envelope)
    BY <2>1
  <2>3. QED
    BY <2>1, <2>2 DEF ForeignTypeOK
<1>7. Addressed(p)'
  <2>1. /\ said.step > lastStep'[p] => said.commit = Commit(Opponent(p), said.step)
        /\ lastStep' = lastStep
    BY <1>1, <1>5 DEF gate
  <2> HIDE DEF said
  <2>2. Len(inbox'[p]) = 1 /\ inbox'[p][1] = said
    BY <1>6
  <2>3. ASSUME NEW i \in 1 .. Len(inbox'[p]) PROVE inbox'[p][i] = said
    BY <2>2
  <2>4. QED
    BY <2>1, <2>3 DEF Addressed
<1> HIDE DEF said
<1>8. QED
  BY <1>1, <1>6, <1>7, InboxKeeps

\* An accepted turn: the next step of the opponent's, its wall a new one
\* within the quota, its win no earlier than this peer's own threshold.
LEMMA AcceptKeeps ==
  ASSUME ForeignTypeOK, NEW p \in Role, PeerInv(p), AcceptTurn(p)
  PROVE  ForeignTypeOK' /\ PeerInv(p)'
<1> USE DEF own, gate, wire, ends
<1> DEFINE m == Head(inbox[p])
           q == Opponent(p)
<1>1. /\ fsm[p] = "OPP_TURN" /\ inbox[p] # << >> /\ Take(p) /\ Fold(p, m) /\ Valid(p, m)
      /\ UNCHANGED <<pos, myBarriers, counter, sealed, wire, ends>>
  BY DEF AcceptTurn, Reading
<1>2. /\ m \in Envelope /\ m.commit = Commit(q, m.step)
      /\ inbox' \in [Role -> Seq(Envelope)] /\ Addressed(p)'
  <2>1. m \in Envelope /\ lastStep[p] \in Nat /\ m.step = lastStep[p] + 1
    BY <1>1 DEF Valid, ForeignTypeOK
  <2>2. lastStep'[p] = m.step
    BY <1>1 DEF Fold, ForeignTypeOK
  <2>3. RevealHeld(p)
    BY DEF PeerInv
  <2> HIDE DEF m
  <2>4. lastStep'[p] \in Nat /\ lastStep'[p] >= lastStep[p] /\ m.step > lastStep[p]
    BY <2>1, <2>2
  <2>5. /\ m.step > lastStep[p] => m.commit = Commit(q, m.step)
        /\ inbox' \in [Role -> Seq(Envelope)] /\ Addressed(p)'
    BY <1>1, <2>3, <2>4, TakeLeaves DEF m
  <2>6. QED
    BY <2>1, <2>4, <2>5
<1>3. \/ Leave(p, "capture")
      \/ (m.win \/ CeilingReached(p, m)) /\ Leave(p, "survival")
      \/ fsm' = [fsm EXCEPT ![p] = "MY_TURN"] /\ UNCHANGED result
  BY DEF AcceptTurn
<1> HIDE DEF m
<1>4. /\ m.step \in Nat /\ m.sender \in Role /\ m.commit \in CommitOf
      /\ m.claim \in Mentioned
  BY <1>2 DEF Envelope
<1>5. /\ q \in Role /\ q # p /\ lastStep[p] \in Nat /\ counter[p] \in Nat
      /\ oppBarriers[p] \in Nat /\ myBarriers[p] \in Nat
      /\ barriers[p] \subseteq Cell /\ commits[p] \in Seq(CommitOf)
  BY Other DEF ForeignTypeOK
<1>6. /\ m.step = lastStep[p] + 1 /\ m.sender = q /\ RoleFields(m)
      /\ BarrierOk(p, m)
      /\ m.win => m.step >= SurvivalThreshold[p]
  BY <1>1 DEF Valid
<1>7. /\ lastStep'[p] = lastStep[p] + 1 /\ breaches'[p] = 0
      /\ commits'[p] = Append(commits[p], m.commit)
      /\ barriers'[p] = Walls(p, m)
      /\ oppBarriers'[p] = IF m.barrier = NoCell THEN oppBarriers[p] ELSE oppBarriers[p] + 1
  BY <1>1, <1>6 DEF Fold, ForeignTypeOK
<1>8. /\ fsm' \in [Role -> {"BOOT", "NEGOTIATING", "MY_TURN", "SENDING", "OPP_TURN",
                            "GAME_OVER", "AUDITING", "DONE", "FOREIGN"}]
      /\ result' \in [Role -> Result \cup {"none"}]
      /\ fsm'[p] \in {"GAME_OVER", "MY_TURN"} /\ fsm'[q] = fsm[q]
      /\ result'[p] \in {"capture", "survival", result[p]}
      /\ result'[p] = "survival" /\ result[p] # "survival" =>
           m.win \/ CeilingReached(p, m)
  BY <1>3, <1>5 DEF Leave, ForeignTypeOK, Result
<1>9. ForeignTypeOK'
  <2>1. Walls(p, m) \in SUBSET Cell
    BY <1>5, <1>6 DEF Walls, BarrierOk
  <2>2. AnswerTo(p, m) \in Answer
    BY DEF AnswerTo, Answer
  <2>3. Append(commits[p], m.commit) \in Seq(CommitOf)
    BY <1>4, <1>5
  <2>4. /\ lastStep' \in [Role -> Nat] /\ breaches' \in [Role -> Nat]
    BY <1>1, <1>4 DEF Fold, ForeignTypeOK
  <2>5. oppBarriers' \in [Role -> Nat]
    <3>1. oppBarriers' = [oppBarriers EXCEPT ![p] =
            IF m.barrier = NoCell THEN oppBarriers[p] ELSE oppBarriers[p] + 1]
      BY <1>1 DEF Fold
    <3>2. (IF m.barrier = NoCell THEN oppBarriers[p] ELSE oppBarriers[p] + 1) \in Nat
      BY <1>5
    <3>3. QED
      BY <3>1, <3>2 DEF ForeignTypeOK
  <2>6. /\ barriers' \in [Role -> SUBSET Cell]
        /\ response' \in [Role -> Answer]
        /\ commits' \in [Role -> Seq(CommitOf)]
    BY <1>1, <2>1, <2>2, <2>3 DEF Fold, ForeignTypeOK
  <2>7. QED
    BY <1>1, <1>2, <1>8, <2>4, <2>5, <2>6 DEF ForeignTypeOK
<1>10. OnlyPeer(p)'
  BY <1>1, <1>8 DEF PeerInv, OnlyPeer
<1>11. Clock(p)'
  BY <1>1, <1>5, <1>7, <1>8, Opponents DEF PeerInv, Clock
<1>12. StrikesHeld(p)'
  BY <1>7, SubGameAssumption DEF StrikesHeld
<1>13. WallsCounted(p)'
  <2>1. CASE m.barrier = NoCell
    <3>1. barriers'[p] = barriers[p] /\ oppBarriers'[p] = oppBarriers[p]
      BY <1>7, <2>1 DEF Walls
    <3>2. QED
      BY <1>1, <3>1 DEF PeerInv, WallsCounted
  <2>2. CASE m.barrier # NoCell
    <3>1. /\ oppBarriers[p] < MaxBarriers /\ m.barrier \notin barriers[p]
          /\ oppBarriers'[p] = oppBarriers[p] + 1
          /\ barriers'[p] = barriers[p] \cup {m.barrier}
      BY <1>6, <1>7, <2>2 DEF BarrierOk, Walls
    <3>2. /\ IsFiniteSet(barriers[p])
          /\ Cardinality(barriers[p]) = myBarriers[p] + oppBarriers[p]
          /\ myBarriers[p] <= MaxBarriers
      BY DEF PeerInv, WallsCounted
    <3>3. IsFiniteSet(barriers'[p]) /\ Cardinality(barriers'[p]) = Cardinality(barriers[p]) + 1
      BY <3>1, <3>2, FS_AddElement
    <3>4. QED
      BY <1>1, <1>5, <3>1, <3>2, <3>3, RulesAssumption DEF WallsCounted
  <2>3. QED
    BY <2>1, <2>2
<1>14. SurvivalTimed(p)'
  <2>1. result'[p] = "survival" => ClockRanOut(p)'
    <3>1. CASE ClockRanOut(p)
      <4>1. SurvivalThreshold[p] \in Nat /\ MaxMoves \in Nat /\ counter' = counter
        BY <1>1, SubGameAssumption
      <4>2. QED
        BY <1>5, <1>7, <3>1, <4>1 DEF ClockRanOut
    <3>2. CASE m.win /\ p = "police"
      BY <1>6, <1>7, <3>2 DEF ClockRanOut
    <3>3. CASE m.win /\ p = "thief"
      BY <1>6, <3>3 DEF RoleFields, Opponent
    <3>4. CASE CeilingReached(p, m)
      <4>1. q = "police" /\ m.step >= MaxMoves
        BY <3>4 DEF CeilingReached, Spent
      <4>2. p # "police"
        BY <1>5, <4>1
      <4>3. QED
        BY <1>6, <1>7, <4>1, <4>2 DEF ClockRanOut
    <3>5. CASE result[p] = "survival"
      BY <3>1, <3>5 DEF PeerInv, SurvivalTimed
    <3>6. QED
      BY <1>8, <3>2, <3>3, <3>4, <3>5 DEF Role
  <2>2. QED
    BY <1>1, <2>1 DEF PeerInv, SurvivalTimed
<1>15. RevealHeld(p)'
  <2>1. /\ Len(commits[p]) = lastStep[p]
        /\ \A i \in 1 .. lastStep[p] : commits[p][i] = Commit(q, i)
        /\ audits[p] = << >> /\ audit[p] = "pending" /\ ~raised[p]
    BY <1>1 DEF PeerInv, RevealHeld
  <2>2. Len(commits'[p]) = lastStep'[p]
    BY <1>4, <1>5, <1>7, <2>1
  <2>3. ASSUME NEW i \in 1 .. lastStep'[p] PROVE commits'[p][i] = Commit(q, i)
    BY <1>2, <1>4, <1>5, <1>6, <1>7, <2>1
  <2>4. audits'[p] = << >> /\ audit'[p] = "pending" /\ ~raised'[p] /\ fsm'[p] # "DONE"
    BY <1>1, <1>8, <2>1
  <2>5. QED
    BY <1>2, <2>2, <2>3, <2>4 DEF RevealHeld, Addressed
<1>16. QED
  BY <1>9, <1>10, <1>11, <1>12, <1>13, <1>14, <1>15 DEF PeerInv

-----------------------------------------------------------------------------
(* Moving, and the network.                                                 *)

\* A turn composed: one step more, a wall only within the quota and only on
\* a free cell, a win claimed only at the threshold.
LEMMA PlayHolds ==
  ASSUME ForeignTypeOK, NEW p \in Role, PeerInv(p), fsm[p] = "MY_TURN",
         NEW act \in Decision, DecisionLegal(p, act), NEW concede \in BOOLEAN,
         Play(p, act, concede)
  PROVE  ForeignTypeOK' /\ PeerInv(p)'
<1> USE DEF own, gate, ends
<1> DEFINE q == Opponent(p)
           step == counter[p] + 1
           next == IF act.type = "MOVE" THEN Shift(pos[p], act.dir) ELSE pos[p]
           wall == IF act.type = "BARRIER" THEN BarrierTarget(p, act) ELSE NoCell
           msg == [step |-> step, sender |-> p, barrier |-> wall,
                   claim |-> IF p = "police" /\ act.type = "MOVE" THEN next ELSE NoCell,
                   response |-> Owed(p), win |-> ~concede /\ Survives(p, step),
                   commit |-> Commit(p, step)]
<1>1. /\ Apply(p, next, wall)
      /\ counter' = [counter EXCEPT ![p] = step]
      /\ sealed' = [sealed EXCEPT ![p] = Sealed(p, step)]
      /\ post' = [post EXCEPT ![p] = msg]
      /\ arrived' = [arrived EXCEPT ![p] = FALSE]
      /\ fsm' = [fsm EXCEPT ![p] = "SENDING"]
      /\ UNCHANGED <<result, response, gate, copies, inbox, ends>>
  BY DEF Play
<1>2. /\ q \in Role /\ q # p /\ pos[p] \in Cell /\ counter[p] \in Nat /\ step \in Nat
      /\ lastStep[p] \in Nat /\ myBarriers[p] \in Nat /\ oppBarriers[p] \in Nat
      /\ barriers[p] \subseteq Cell /\ sealed[p] \in Seq(CommitOf)
  BY Other DEF ForeignTypeOK
<1>3. next \in Cell
  BY <1>2 DEF DecisionLegal, StepLegal
<1>4. /\ wall \in Cell \cup {NoCell}
      /\ wall # NoCell => wall \notin barriers[p] /\ myBarriers[p] < MaxBarriers
  BY <1>2, LegalWallIsFree DEF DecisionLegal
<1>5. msg \in TurnMessage
  <2>1. Commit(p, step) \in CommitOf /\ Owed(p) \in Answer
    BY <1>2 DEF Commit, CommitOf, Owed, ForeignTypeOK
  <2>2. (~concede /\ Survives(p, step)) \in BOOLEAN
    BY DEF Survives
  <2> HIDE DEF step, next, wall
  <2>3. QED
    BY <1>2, <1>3, <1>4, <2>1, <2>2 DEF TurnMessage
<1>6. msg.step = step /\ (msg.win => p = "thief" /\ step >= SurvivalThreshold[p])
  BY DEF Survives
<1>7. Sealed(p, step) \in Seq(CommitOf)
  <2>1. Commit(p, step) \in CommitOf
    BY <1>2 DEF Commit, CommitOf
  <2>2. QED
    BY <1>2, <2>1 DEF Sealed
<1> HIDE DEF q, step, next, wall, msg
<1>8. /\ fsm'[p] = "SENDING" /\ fsm'[q] = fsm[q] /\ counter'[q] = counter[q]
      /\ counter'[p] = step /\ post'[p] = msg /\ sealed'[q] = sealed[q]
      /\ barriers'[p] = barriers[p] \cup ({wall} \ {NoCell})
      /\ myBarriers'[p] = IF wall = NoCell THEN myBarriers[p] ELSE myBarriers[p] + 1
  BY <1>1, <1>2 DEF Apply, ForeignTypeOK
<1>9. ForeignTypeOK'
  <2>1. /\ pos' \in [Role -> Cell]
        /\ barriers' \in [Role -> SUBSET Cell]
        /\ myBarriers' \in [Role -> Nat]
    <3>1. pos' \in [Role -> Cell]
      BY <1>1, <1>3 DEF Apply, ForeignTypeOK
    <3>2. barriers' \in [Role -> SUBSET Cell]
      <4>1. barriers' = [barriers EXCEPT ![p] = barriers[p] \cup ({wall} \ {NoCell})]
        BY <1>1 DEF Apply
      <4>2. barriers[p] \cup ({wall} \ {NoCell}) \in SUBSET Cell
        BY <1>2, <1>4
      <4>3. QED
        BY <4>1, <4>2 DEF ForeignTypeOK
    <3>3. myBarriers' \in [Role -> Nat]
      <4>1. myBarriers' = [myBarriers EXCEPT ![p] =
                             IF wall = NoCell THEN myBarriers[p] ELSE myBarriers[p] + 1]
        BY <1>1 DEF Apply
      <4>2. (IF wall = NoCell THEN myBarriers[p] ELSE myBarriers[p] + 1) \in Nat
        BY <1>2
      <4>3. QED
        BY <4>1, <4>2 DEF ForeignTypeOK
    <3>4. QED
      BY <3>1, <3>2, <3>3
  <2>2. /\ post' \in [Role -> TurnMessage] /\ counter' \in [Role -> Nat]
        /\ sealed' \in [Role -> Seq(CommitOf)]
    BY <1>1, <1>2, <1>5, <1>7 DEF ForeignTypeOK
  <2>3. arrived' \in [Role -> BOOLEAN]
    BY <1>1 DEF ForeignTypeOK
  <2>4. fsm' \in [Role -> {"BOOT", "NEGOTIATING", "MY_TURN", "SENDING", "OPP_TURN",
                          "GAME_OVER", "AUDITING", "DONE", "FOREIGN"}]
    BY <1>1 DEF ForeignTypeOK
  <2>5. QED
    BY <1>1, <2>1, <2>2, <2>3, <2>4 DEF ForeignTypeOK
<1>10. OnlyPeer(p)'
  BY <1>8 DEF PeerInv, OnlyPeer, q
<1>11. Clock(p)'
  BY <1>1, <1>2, <1>8, Opponents DEF PeerInv, Clock, step
<1>12. StrikesHeld(p)'
  BY <1>1, <1>8, SubGameAssumption DEF PeerInv, StrikesHeld
<1>13. WallsCounted(p)'
  <2>1. CASE wall = NoCell
    <3>1. barriers'[p] = barriers[p] /\ myBarriers'[p] = myBarriers[p]
      BY <1>8, <2>1
    <3>2. QED
      BY <1>1, <3>1 DEF PeerInv, WallsCounted
  <2>2. CASE wall # NoCell
    <3>1. /\ barriers'[p] = barriers[p] \cup {wall} /\ wall \notin barriers[p]
          /\ myBarriers'[p] = myBarriers[p] + 1 /\ myBarriers[p] < MaxBarriers
      BY <1>4, <1>8, <2>2
    <3>2. /\ IsFiniteSet(barriers[p])
          /\ Cardinality(barriers[p]) = myBarriers[p] + oppBarriers[p]
          /\ oppBarriers[p] <= MaxBarriers /\ oppBarriers' = oppBarriers
      BY <1>1 DEF PeerInv, WallsCounted
    <3>3. IsFiniteSet(barriers'[p]) /\ Cardinality(barriers'[p]) = Cardinality(barriers[p]) + 1
      BY <3>1, <3>2, FS_AddElement
    <3>4. QED
      BY <1>2, <3>1, <3>2, <3>3, RulesAssumption DEF WallsCounted
  <2>3. QED
    BY <2>1, <2>2
<1>14. SurvivalTimed(p)'
  <2>1. ClockRanOut(p) => ClockRanOut(p)'
    BY <1>1, <1>2, <1>8, SubGameAssumption DEF ClockRanOut, step
  <2>2. QED
    BY <1>1, <1>6, <1>8, <2>1 DEF PeerInv, SurvivalTimed
<1>15. RevealHeld(p)'
  <2>1. audits[p] = << >> /\ audit[p] = "pending" /\ ~raised[p]
    BY DEF PeerInv, RevealHeld
  <2>2. QED
    BY <1>1, <1>8, <2>1 DEF PeerInv, RevealHeld, q
<1>16. QED
  BY <1>9, <1>10, <1>11, <1>12, <1>13, <1>14, <1>15 DEF PeerInv

LEMMA MoveSteps ==
  ASSUME ForeignTypeOK, NEW p \in Role, PeerInv(p), TakeTurn(p) \/ Concede(p)
  PROVE  ForeignTypeOK' /\ PeerInv(p)'
<1>1. CASE TakeTurn(p)
  <2>1. PICK decision \in Decision : \E act \in Guarded(p, decision) : Play(p, act, FALSE)
    BY <1>1 DEF TakeTurn
  <2>2. PICK act \in Guarded(p, decision) : Play(p, act, FALSE)
    BY <2>1
  <2>3. act \in Decision /\ DecisionLegal(p, act)
    BY GuardedIsLegal
  <2>4. fsm[p] = "MY_TURN"
    BY <1>1 DEF TakeTurn
  <2>5. QED
    BY <2>2, <2>3, <2>4, PlayHolds
<1>2. CASE Concede(p)
  <2>1. Hold \in Decision /\ DecisionLegal(p, Hold)
    BY DEF Hold, Decision, Direction, DecisionLegal, BarrierTarget
  <2>2. fsm[p] = "MY_TURN" /\ Play(p, Hold, TRUE)
    BY <1>2 DEF Concede
  <2>3. QED
    BY <2>1, <2>2, PlayHolds
<1>3. QED
  BY <1>1, <1>2

\* What p sends goes to the opponent's inbox, not its own.
LEMMA ArriveKeeps ==
  ASSUME ForeignTypeOK, NEW p \in Role, PeerInv(p), Arrive(p)
  PROVE  ForeignTypeOK' /\ PeerInv(p)'
<1> USE DEF own, gate, ends
<1>1. /\ arrived' = [arrived EXCEPT ![p] = TRUE]
      /\ inbox' = [inbox EXCEPT ![Opponent(p)] = Append(@, post[p])]
      /\ UNCHANGED <<fsm, result, response, own, gate, post, copies, ends>>
  BY DEF Arrive
<1>2. post[p] \in Envelope /\ inbox[Opponent(p)] \in Seq(Envelope)
  BY TurnsAreEnvelopes, Other DEF ForeignTypeOK
<1>3. inbox' \in [Role -> Seq(Envelope)] /\ inbox'[p] = inbox[p]
  BY <1>1, <1>2, Other DEF ForeignTypeOK
<1>4. arrived' \in [Role -> BOOLEAN]
  BY <1>1 DEF ForeignTypeOK
<1>5. ForeignTypeOK'
  BY <1>1, <1>3, <1>4 DEF ForeignTypeOK
<1>6. OnlyPeer(p)' /\ WallsCounted(p)' /\ SurvivalTimed(p)' /\ RevealHeld(p)'
  BY <1>1, <1>3 DEF PeerInv, OnlyPeer, WallsCounted, SurvivalTimed, ClockRanOut, RevealHeld
<1>7. Clock(p)' /\ StrikesHeld(p)'
  BY <1>1 DEF PeerInv, Clock, StrikesHeld
<1>8. QED
  BY <1>5, <1>6, <1>7 DEF PeerInv

-----------------------------------------------------------------------------
(* The closing audit.                                                       *)

LEMMA SubmitKeeps ==
  ASSUME ForeignTypeOK, NEW p \in Role, PeerInv(p), SubmitAudit(p)
  PROVE  ForeignTypeOK' /\ PeerInv(p)'
<1> USE DEF own, gate, wire
<1> DEFINE mine == [claim |-> result[p], records |-> AuditReveal(p)]
<1>1. /\ fsm[p] = "GAME_OVER" /\ fsm' = [fsm EXCEPT ![p] = "AUDITING"]
      /\ audits' = [audits EXCEPT ![Opponent(p)] = Append(@, mine)] \/ UNCHANGED audits
      /\ UNCHANGED <<result, response, own, gate, wire, inbox, audit, raised>>
  BY DEF SubmitAudit
<1>2. mine \in AuditPayload /\ audits[Opponent(p)] \in Seq(AuditPayload)
  BY Other, RevealTyped DEF ForeignTypeOK, AuditPayload
<1> HIDE DEF mine
<1>3. audits' \in [Role -> Seq(AuditPayload)] /\ audits'[p] = audits[p]
  <2>1. Append(audits[Opponent(p)], mine) \in Seq(AuditPayload)
    BY <1>2
  <2>2. Opponent(p) \in Role /\ Opponent(p) # p /\ audits \in [Role -> Seq(AuditPayload)]
    BY Other DEF ForeignTypeOK
  <2>3. CASE audits' = [audits EXCEPT ![Opponent(p)] = Append(@, mine)]
    BY <2>1, <2>2, <2>3
  <2>4. CASE UNCHANGED audits
    BY <2>2, <2>4
  <2>5. QED
    BY <1>1, <2>3, <2>4
<1>4. fsm'[p] = "AUDITING" /\ fsm'[Opponent(p)] = fsm[Opponent(p)]
  BY <1>1, Other DEF ForeignTypeOK
<1>5. ForeignTypeOK'
  BY <1>1, <1>3 DEF ForeignTypeOK
<1>6. OnlyPeer(p)' /\ WallsCounted(p)' /\ SurvivalTimed(p)' /\ RevealHeld(p)'
  BY <1>1, <1>3, <1>4
  DEF PeerInv, OnlyPeer, WallsCounted, SurvivalTimed, ClockRanOut, RevealHeld
<1>7. Clock(p)' /\ StrikesHeld(p)'
  BY <1>1, <1>4 DEF PeerInv, Clock, StrikesHeld
<1>8. QED
  BY <1>5, <1>6, <1>7 DEF PeerInv

\* An exception leaves run(): the thread stays where it was.
LEMMA RaiseKeeps ==
  ASSUME ForeignTypeOK, NEW p \in Role, PeerInv(p), fsm[p] \in {"NEGOTIATING", "AUDITING"},
         UNCHANGED <<fsm, result, response, own, gate, wire, inbox, audit>>,
         audits' \in [Role -> Seq(AuditPayload)], audits'[p] = << >>,
         raised' = [raised EXCEPT ![p] = TRUE]
  PROVE  ForeignTypeOK' /\ PeerInv(p)'
<1> USE DEF own, gate, wire
<1>1. ForeignTypeOK'
  BY DEF ForeignTypeOK
<1>2. OnlyPeer(p)' /\ WallsCounted(p)' /\ SurvivalTimed(p)' /\ RevealHeld(p)'
  BY DEF PeerInv, OnlyPeer, WallsCounted, SurvivalTimed, ClockRanOut, RevealHeld
<1>3. Clock(p)' /\ StrikesHeld(p)'
  BY DEF PeerInv, Clock, StrikesHeld
<1>4. QED
  BY <1>1, <1>2, <1>3 DEF PeerInv

LEMMA HandshakeKeeps ==
  ASSUME ForeignTypeOK, NEW p \in Role, PeerInv(p), HandshakeFails(p)
  PROVE  ForeignTypeOK' /\ PeerInv(p)'
<1>1. /\ fsm[p] = "NEGOTIATING" /\ raised' = [raised EXCEPT ![p] = TRUE]
      /\ UNCHANGED <<fsm, result, response, own, gate, wire, inbox, audits, audit>>
  BY DEF HandshakeFails
<1>2. audits' \in [Role -> Seq(AuditPayload)] /\ audits'[p] = << >>
  BY <1>1 DEF ForeignTypeOK, PeerInv, RevealHeld
<1>3. QED
  BY <1>1, <1>2, RaiseKeeps

\* The sub-game is over, with any verdict of the audit.
LEMMA SettleKeeps ==
  ASSUME ForeignTypeOK, NEW p \in Role, PeerInv(p), fsm[p] = "AUDITING", ~raised[p],
         UNCHANGED <<response, own, gate, wire, inbox, raised>>,
         audits' \in [Role -> Seq(AuditPayload)], audits'[p] = << >>,
         NEW verdict \in {"absent", "passed", "forgery"},
         audit' = [audit EXCEPT ![p] = verdict],
         fsm' = [fsm EXCEPT ![p] = "DONE"],
         result' = result \/ result' = [result EXCEPT ![p] = "technical_loss"]
  PROVE  ForeignTypeOK' /\ PeerInv(p)'
<1> USE DEF own, gate, wire
<1>1. fsm'[p] = "DONE" /\ fsm'[Opponent(p)] = fsm[Opponent(p)] /\ audit'[p] = verdict
  BY Other DEF ForeignTypeOK
<1>2. /\ result' \in [Role -> Result \cup {"none"}]
      /\ result'[p] \in {"technical_loss", result[p]}
  BY DEF ForeignTypeOK, Result
<1>3. ForeignTypeOK'
  BY <1>2 DEF ForeignTypeOK
<1>4. OnlyPeer(p)' /\ WallsCounted(p)' /\ SurvivalTimed(p)'
  BY <1>1, <1>2 DEF PeerInv, OnlyPeer, WallsCounted, SurvivalTimed, ClockRanOut
<1>5. RevealHeld(p)'
  BY <1>1 DEF PeerInv, RevealHeld
<1>6. Clock(p)' /\ StrikesHeld(p)'
  BY <1>1, <1>2 DEF PeerInv, Clock, StrikesHeld
<1>7. QED
  BY <1>3, <1>4, <1>5, <1>6 DEF PeerInv

\* The audit that is read gives its verdict or raises.
LEMMA ReadKeeps ==
  ASSUME ForeignTypeOK, NEW p \in Role, PeerInv(p), ReadAudit(p)
  PROVE  ForeignTypeOK' /\ PeerInv(p)'
<1>1. /\ fsm[p] = "AUDITING" /\ ~raised[p] /\ audits[p] # << >>
      /\ audits' = [audits EXCEPT ![p] = Tail(@)]
      /\ UNCHANGED <<response, own, gate, wire, inbox>>
  BY DEF ReadAudit
<1>2. audits' \in [Role -> Seq(AuditPayload)] /\ audits'[p] = << >>
  <2>1. Len(audits[p]) = 1 /\ audits[p] \in Seq(AuditPayload)
    BY <1>1 DEF PeerInv, RevealHeld, ForeignTypeOK
  <2>2. Tail(audits[p]) \in Seq(AuditPayload) /\ Len(Tail(audits[p])) = 0
    BY <1>1, <2>1, HeadTailProperties
  <2>3. Tail(audits[p]) = << >>
    BY <2>2, EmptySeq
  <2>4. QED
    BY <1>1, <2>2, <2>3 DEF ForeignTypeOK
<1>3. CASE raised' = [raised EXCEPT ![p] = TRUE] /\ UNCHANGED <<fsm, result, audit>>
  BY <1>1, <1>2, <1>3, RaiseKeeps
<1>4. CASE /\ fsm' = [fsm EXCEPT ![p] = "DONE"] /\ audit' = [audit EXCEPT ![p] = "forgery"]
           /\ result' = [result EXCEPT ![p] = "technical_loss"] /\ UNCHANGED raised
  BY <1>1, <1>2, <1>4, SettleKeeps
<1>5. CASE /\ fsm' = [fsm EXCEPT ![p] = "DONE"] /\ audit' = [audit EXCEPT ![p] = "passed"]
           /\ UNCHANGED <<result, raised>>
  BY <1>1, <1>2, <1>5, SettleKeeps
<1>6. QED
  BY <1>3, <1>4, <1>5 DEF ReadAudit

LEMMA MissKeeps ==
  ASSUME ForeignTypeOK, NEW p \in Role, PeerInv(p), MissAudit(p)
  PROVE  ForeignTypeOK' /\ PeerInv(p)'
<1>1. /\ fsm[p] = "AUDITING" /\ ~raised[p] /\ audits[p] = << >>
      /\ fsm' = [fsm EXCEPT ![p] = "DONE"] /\ audit' = [audit EXCEPT ![p] = "absent"]
      /\ UNCHANGED <<result, response, own, gate, wire, inbox, audits, raised>>
  BY DEF MissAudit
<1>2. audits' \in [Role -> Seq(AuditPayload)] /\ audits'[p] = << >>
  BY <1>1 DEF ForeignTypeOK
<1>3. QED
  BY <1>1, <1>2, SettleKeeps

\* A reveal of any records comes once, in the window it is waited for.
LEMMA RevealKeeps ==
  ASSUME ForeignTypeOK, NEW p \in Role, PeerInv(p), me = p, Reveal
  PROVE  ForeignTypeOK' /\ PeerInv(p)'
<1> USE DEF own, gate, wire
<1>1. /\ fsm[p] = "AUDITING" /\ ~raised[p] /\ audits[p] = << >>
      /\ UNCHANGED <<fsm, result, response, own, gate, wire, inbox, audit, raised>>
  BY DEF Reveal
<1>2. PICK reveal \in Reveals :
        audits' = [audits EXCEPT ![p] = <<[claim |-> "none", records |-> Told(reveal)]>>]
  BY DEF Reveal
<1>3. Told(reveal) \in Seq(RevealedRecord)
  <2>1. reveal \in Seq([step : Label, commit : Nat, recomputes : {"yes", "no", "raises"},
                        signature : {"valid", "invalid", "raises"}])
    BY <1>2, ForeignAssumption
  <2>2. Len(reveal) \in Nat /\ DOMAIN reveal = 1 .. Len(reveal)
    BY <2>1
  <2>3. Opponent(me) \in Role
    BY Other
  <2>4. ASSUME NEW i \in 1 .. Len(reveal)
        PROVE  [reveal[i] EXCEPT !.commit = Commit(Opponent(me), reveal[i].commit)]
                 \in RevealedRecord
    <3> DEFINE R == [step : Label, commit : Nat, recomputes : {"yes", "no", "raises"},
                     signature : {"valid", "invalid", "raises"}]
    <3>1. reveal[i] \in R
      <4>1. reveal \in Seq(R)
        BY <2>1
      <4> HIDE DEF R
      <4>2. QED
        BY <2>2, <4>1, ElementOfSeq
    <3>2. Commit(Opponent(me), reveal[i].commit) \in CommitOf
      BY <2>3, <3>1 DEF Commit, CommitOf
    <3>3. QED
      BY <3>1, <3>2 DEF RevealedRecord
  <2>5. Told(reveal) = [i \in 1 .. Len(reveal) |->
                          [reveal[i] EXCEPT !.commit = Commit(Opponent(me), reveal[i].commit)]]
    BY <2>2 DEF Told
  <2>6. QED
    BY <2>2, <2>4, <2>5
<1> DEFINE theirs == [claim |-> "none", records |-> Told(reveal)]
<1>4. theirs \in AuditPayload
  BY <1>3 DEF AuditPayload
<1> HIDE DEF theirs
<1>5. audits' \in [Role -> Seq(AuditPayload)] /\ audits'[p] = <<theirs>>
  <2>1. audits' = [audits EXCEPT ![p] = <<theirs>>] /\ <<theirs>> \in Seq(AuditPayload)
    BY <1>2, <1>4 DEF theirs
  <2>2. QED
    BY <2>1 DEF ForeignTypeOK
<1>6. ForeignTypeOK'
  BY <1>1, <1>5 DEF ForeignTypeOK
<1>7. OnlyPeer(p)' /\ WallsCounted(p)' /\ SurvivalTimed(p)'
  BY <1>1 DEF PeerInv, OnlyPeer, WallsCounted, SurvivalTimed, ClockRanOut
<1>8. RevealHeld(p)'
  <2>1. Len(audits'[p]) = 1
    BY <1>5
  <2>2. QED
    BY <1>1, <2>1 DEF PeerInv, RevealHeld
<1>9. Clock(p)' /\ StrikesHeld(p)'
  BY <1>1 DEF PeerInv, Clock, StrikesHeld
<1>10. QED
  BY <1>6, <1>7, <1>8, <1>9 DEF PeerInv

-----------------------------------------------------------------------------
(* The invariant, and what it says of me.                                   *)

LEMMA ForeignStep ==
  ASSUME ForeignInv, [ForeignNext]_vars
  PROVE  ForeignInv'
<1>1. PICK p \in Role : PeerInv(p)
  BY DEF ForeignInv
<1>2. ForeignTypeOK /\ OnlyPeer(p)
  BY <1>1 DEF ForeignInv, PeerInv
<1>3. me = p
  BY <1>2, OnlyPeerIsMe
<1>4. SUFFICES ForeignTypeOK' /\ PeerInv(p)'
  BY DEF ForeignInv
<1>5. CASE UNCHANGED vars
  <2>1. UNCHANGED <<fsm, result, response, own, gate, wire, inbox, ends>>
    BY <1>5 DEF vars
  <2>2. ForeignTypeOK'
    BY <1>2, <2>1 DEF ForeignTypeOK, own, gate, wire, ends
  <2>3. /\ OnlyPeer(p)' /\ Clock(p)' /\ StrikesHeld(p)'
        /\ WallsCounted(p)' /\ SurvivalTimed(p)' /\ RevealHeld(p)'
    BY <1>1, <2>1 DEF PeerInv, OnlyPeer, Clock, StrikesHeld, WallsCounted, SurvivalTimed,
         ClockRanOut, RevealHeld, own, gate, wire, ends
  <2>4. QED
    BY <2>2, <2>3 DEF PeerInv
<1>6. CASE Thread(p)
  <2>1. CASE Negotiate(p) \/ Agree(p)
    BY <1>1, <1>2, <2>1, StartSteps
  <2>2. CASE TakeTurn(p) \/ Concede(p)
    BY <1>1, <1>2, <2>2, MoveSteps
  <2>3. CASE TransportFails(p) \/ Expire(p) \/ Crash(p)
    BY <1>1, <1>2, <2>3, FailSteps
  <2>4. CASE Sent(p)
    BY <1>1, <1>2, <2>4, SentKeeps
  <2>5. CASE DropDuplicate(p)
    BY <1>1, <1>2, <2>5, DropKeeps
  <2>6. CASE RejectTurn(p)
    BY <1>1, <1>2, <2>6, RejectKeeps
  <2>7. CASE AcceptTurn(p)
    BY <1>1, <1>2, <2>7, AcceptKeeps
  <2>8. CASE SubmitAudit(p)
    BY <1>1, <1>2, <2>8, SubmitKeeps
  <2>9. CASE ReadAudit(p)
    BY <1>1, <1>2, <2>9, ReadKeeps
  <2>10. CASE MissAudit(p)
    BY <1>1, <1>2, <2>10, MissKeeps
  <2>11. CASE HandshakeFails(p)
    BY <1>1, <1>2, <2>11, HandshakeKeeps
  <2>12. QED
    BY <1>6, <2>1, <2>2, <2>3, <2>4, <2>5, <2>6, <2>7, <2>8, <2>9, <2>10, <2>11
    DEF Thread, Works
<1>7. CASE Arrive(p)
  BY <1>1, <1>2, <1>7, ArriveKeeps
<1>8. CASE Speak
  BY <1>1, <1>2, <1>3, <1>8, SpeakKeeps
<1>9. CASE RefuseEnvelope
  BY <1>1, <1>2, <1>3, <1>9, RefuseKeeps
<1>10. CASE Reveal
  BY <1>1, <1>2, <1>3, <1>10, RevealKeeps
<1>11. \A r \in Role : Thread(r) \/ Arrive(r) => r = p
  BY <1>2, ForeignIsIdle, Other
<1>12. QED
  BY <1>5, <1>6, <1>7, <1>8, <1>9, <1>10, <1>11 DEF ForeignNext

LEMMA ForeignInvariant == ForeignSpec => []ForeignInv
<1>1. ForeignInit => ForeignInv
  BY ForeignStart DEF ForeignInv
<1>2. ForeignInv /\ [ForeignNext]_vars => ForeignInv'
  BY ForeignStep
<1>3. QED
  BY <1>1, <1>2, PTL DEF ForeignSpec

\* However the opponent repeats, skips, rewrites or refuses, this peer's count
\* of its own turns stays locked to the count of the turns it accepted.
THEOREM NoFreeMove == ForeignSpec => []OneReplyPerTurn
<1>1. ForeignInv => OneReplyPerTurn
  BY OnlyPeerIsMe DEF ForeignInv, PeerInv, OneReplyPerTurn
<1>2. QED
  BY <1>1, ForeignInvariant, PTL

\* Strikes are forgiven by an accepted turn and nothing else, and the last
\* one ends the sub-game as a technical loss (TurnHandler._breach).
THEOREM StrikesAreInARow == ForeignSpec => []StrikesInARow
<1>1. ForeignInv => StrikesInARow
  BY OnlyPeerIsMe DEF ForeignInv, PeerInv, StrikesHeld, StrikesInARow
<1>2. QED
  BY <1>1, ForeignInvariant, PTL

\* No opponent gets a wall past the quota, off the board or on a wall that
\* stands: the quota's counters and the map agree.
THEOREM QuotaHoldsAlways == ForeignSpec => []QuotaIsEnforced
<1>1. ForeignInv => QuotaIsEnforced
  <2> SUFFICES ASSUME ForeignInv PROVE QuotaIsEnforced
    OBVIOUS
  <2>1. PICK p \in Role : PeerInv(p)
    BY DEF ForeignInv
  <2>2. me = p
    BY <2>1, OnlyPeerIsMe DEF PeerInv
  <2>3. barriers[p] \subseteq Cell
    BY DEF ForeignInv, ForeignTypeOK
  <2>4. QED
    BY <2>1, <2>2, <2>3 DEF PeerInv, WallsCounted, QuotaIsEnforced
<1>2. QED
  BY <1>1, ForeignInvariant, PTL

\* A win claimed too early never becomes a survival: a clock of this peer's
\* own has run out whenever it records one.
THEOREM SurvivalIsTimed == ForeignSpec => []SurvivalNeedsTheClock
<1>1. ForeignInv => SurvivalNeedsTheClock
  BY OnlyPeerIsMe DEF ForeignInv, PeerInv, SurvivalTimed, ClockRanOut, SurvivalNeedsTheClock
<1>2. QED
  BY <1>1, ForeignInvariant, PTL

\* What the gate holds of the opponent is what tells a swapped record, and
\* what makes an audit raise is an odd one.
LEMMA ReadIsJudged ==
  ASSUME ForeignTypeOK, NEW p \in Role, PeerInv(p), me = p, ReadAudit(p)
  PROVE  Judged
<1> DEFINE theirs == Head(audits[p])
<1>1. /\ audits[p] # << >>
      /\ \/ AuditRaises(p, theirs) /\ UNCHANGED <<fsm, result, audit>>
         \/ /\ ~AuditRaises(p, theirs) /\ Convicts(p, theirs)
            /\ audit' = [audit EXCEPT ![p] = "forgery"]
            /\ result' = [result EXCEPT ![p] = "technical_loss"]
            /\ UNCHANGED raised
         \/ /\ ~AuditRaises(p, theirs) /\ ~Convicts(p, theirs)
            /\ audit' = [audit EXCEPT ![p] = "passed"]
            /\ UNCHANGED <<result, raised>>
  BY DEF ReadAudit
<1>2. theirs.records \in Seq(RevealedRecord)
  <2>1. audits[p] \in Seq(AuditPayload)
    BY DEF ForeignTypeOK
  <2>2. theirs \in AuditPayload
    BY <1>1, <2>1, HeadTailProperties
  <2>3. QED
    BY <2>2 DEF AuditPayload
<1>3. /\ DOMAIN commits[p] = 1 .. lastStep[p]
      /\ \A i \in 1 .. lastStep[p] : commits[p][i] = Commit(Opponent(p), i)
  BY DEF ForeignTypeOK, PeerInv, RevealHeld
<1>4. audit \in [Role -> {"pending", "absent", "passed", "forgery"}]
      /\ result \in [Role -> Result \cup {"none"}]
  BY DEF ForeignTypeOK
<1> HIDE DEF theirs
<1>5. Failed(p, theirs) = Culprits(theirs)
  BY <1>3 DEF Failed, Mismatch, Culprits, Swapped
<1>6. Convicts(p, theirs) <=> Culprits(theirs) # {} \/ Unsigned(theirs)
  BY <1>5 DEF Convicts, DeclarationIs, Unsigned
<1>7. AuditRaises(p, theirs) => \E r \in Revealed(theirs) : Odd(r)
  <2>1. CASE \E r \in Revealed(theirs) : r.step = Nested \/ r.recomputes = "raises"
    BY <2>1 DEF Odd, Nested
  <2>2. CASE \E a, b \in Failed(p, theirs) : ~Comparable(a, b)
    <3>1. PICK a \in Failed(p, theirs), b \in Failed(p, theirs) : ~Comparable(a, b)
      BY <2>2
    <3>2. a \in Revealed(theirs) /\ b \in Revealed(theirs)
      BY <1>5 DEF Culprits
    <3>3. a.step \notin Nat \/ b.step \notin Nat
      BY <3>1 DEF Comparable
    <3>4. QED
      BY <3>2, <3>3 DEF Odd
  <2>3. CASE DeclarationIs(p, theirs, "raises")
    <3>1. theirs.records # << >> /\ theirs.records[1].signature = "raises"
      BY <2>3 DEF DeclarationIs
    <3>2. theirs.records[1] \in Revealed(theirs)
      <4>1. 1 \in DOMAIN theirs.records
        BY <1>2, <3>1
      <4>2. QED
        BY <4>1 DEF Revealed
    <3>3. QED
      BY <3>1, <3>2 DEF Odd
  <2>4. QED
    BY <2>1, <2>2, <2>3 DEF AuditRaises
<1>8. CASE AuditRaises(p, theirs) /\ UNCHANGED <<fsm, result, audit>>
  BY <1>7, <1>8 DEF Judged, theirs
<1>9. CASE /\ Convicts(p, theirs) /\ audit' = [audit EXCEPT ![p] = "forgery"]
           /\ result' = [result EXCEPT ![p] = "technical_loss"] /\ UNCHANGED raised
  <2>1. audit'[p] = "forgery" /\ result'[p] = "technical_loss"
    BY <1>4, <1>9
  <2>2. QED
    BY <1>6, <1>9, <2>1 DEF Judged, theirs
<1>10. CASE /\ ~Convicts(p, theirs) /\ audit' = [audit EXCEPT ![p] = "passed"]
            /\ UNCHANGED <<result, raised>>
  <2>1. audit'[p] = "passed"
    BY <1>4, <1>10
  <2>2. QED
    BY <1>6, <1>10, <2>1 DEF Judged, theirs
<1>11. QED
  BY <1>1, <1>8, <1>9, <1>10

\* Every step is judged: only the audit and the handshake touch the two.
LEMMA StepIsJudged ==
  ASSUME ForeignInv, ForeignNext
  PROVE  Judged
<1>1. PICK p \in Role : PeerInv(p)
  BY DEF ForeignInv
<1>2. ForeignTypeOK /\ OnlyPeer(p)
  BY <1>1 DEF ForeignInv, PeerInv
<1>3. me = p
  BY <1>2, OnlyPeerIsMe
<1>4. CASE UNCHANGED <<audit, raised>>
  BY <1>4 DEF Judged
<1>5. CASE Thread(p)
  <2> USE DEF ends
  <2>1. CASE Negotiate(p) \/ Agree(p) \/ TransportFails(p) \/ Expire(p) \/ Crash(p) \/ Sent(p)
    BY <1>4, <2>1 DEF Negotiate, Agree, TransportFails, Expire, Crash, Sent
  <2>2. CASE TakeTurn(p) \/ Concede(p)
    BY <1>4, <2>2 DEF TakeTurn, Concede, Play
  <2>3. CASE DropDuplicate(p) \/ RejectTurn(p) \/ AcceptTurn(p) \/ SubmitAudit(p)
    BY <1>4, <2>3 DEF DropDuplicate, RejectTurn, AcceptTurn, SubmitAudit
  <2>4. CASE ReadAudit(p)
    BY <1>1, <1>2, <1>3, <2>4, ReadIsJudged
  <2>5. CASE MissAudit(p)
    <3>1. audit'[p] = "absent" /\ UNCHANGED <<result, raised>>
      BY <1>2, <2>5 DEF MissAudit, ForeignTypeOK
    <3>2. QED
      BY <1>3, <3>1 DEF Judged
  <2>6. CASE HandshakeFails(p)
    BY <1>3, <2>6 DEF HandshakeFails, Judged
  <2>7. QED
    BY <1>5, <2>1, <2>2, <2>3, <2>4, <2>5, <2>6 DEF Thread, Works
<1>6. CASE Arrive(p) \/ Speak \/ RefuseEnvelope \/ Reveal \/ UNCHANGED vars
  BY <1>4, <1>6 DEF Arrive, Speak, RefuseEnvelope, Reveal, vars, ends
<1>7. \A r \in Role : Thread(r) \/ Arrive(r) => r = p
  BY <1>2, ForeignIsIdle, Other
<1>8. QED
  BY <1>5, <1>6, <1>7 DEF ForeignNext

\* The audit convicts for a record that does not recompute or is swapped, or
\* for an unsigned declaration, and for nothing else; a conviction is a
\* technical loss; and only an odd record makes it raise.
THEOREM SwapsAreConvicted == ForeignSpec => SwapIsConvicted
<1>1. ForeignInv /\ [ForeignNext]_vars => [Judged]_vars
  BY StepIsJudged
<1>2. QED
  BY <1>1, ForeignInvariant, PTL DEF ForeignSpec, SwapIsConvicted
=============================================================================
