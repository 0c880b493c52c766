--------------------------- MODULE SubGameProofs ----------------------------
(***************************************************************************)
(* Theorems about SubGame for every board, quota, threshold, number of      *)
(* repeated deliveries, and with or without faults.                         *)
(***************************************************************************)
EXTENDS SubGame, SequenceTheorems, FiniteSetTheorems, TLAPS

\* A guarded decision is playable: a move is legal, and so is a wall, which
\* only the cop plays (_guard never lets an illegal decision through).
LEMMA GuardedIsLegal ==
  ASSUME NEW p \in Role, NEW decision \in Decision,
         NEW act \in Guarded(p, decision)
  PROVE  /\ act \in Decision
         /\ DecisionLegal(p, act)
<1> DEFINE d == IF decision.type = "MOVE" THEN AsMove(decision.dir) ELSE decision
<1>1. d \in Decision /\ Hold \in Decision /\ DecisionLegal(p, Hold)
  BY DEF Decision, AsMove, Hold, Direction, DecisionLegal, BarrierTarget
<1>2. CASE DecisionLegal(p, d)
  BY <1>1, <1>2 DEF Guarded
<1>3. CASE ~DecisionLegal(p, d)
  <2>1. act \in Fallback(p)
    BY <1>3 DEF Guarded
  <2>2. CASE LegalMoves(pos[p], barriers[p]) = {}
    BY <1>1, <2>1, <2>2 DEF Fallback
  <2>3. CASE LegalMoves(pos[p], barriers[p]) # {}
    <3>1. PICK dir \in FirstLegal(pos[p], barriers[p]) : act = AsMove(dir)
      BY <2>1, <2>3 DEF Fallback
    <3>2. dir \in Direction /\ StepLegal(pos[p], dir, barriers[p])
      BY <3>1, BoardAssumption DEF FirstLegal
    <3>3. QED
      BY <1>1, <3>1, <3>2 DEF AsMove, Decision, DecisionLegal, BarrierTarget
  <2>4. QED
    BY <2>2, <2>3
<1>4. QED
  BY <1>2, <1>3

\* A legal wall is a free cell of the board.
LEMMA LegalWallIsFree ==
  ASSUME NEW cop \in Cell, NEW target, NEW walls, NEW used,
         BarrierLegal(cop, target, walls, used)
  PROVE  target \in Cell /\ target \notin walls /\ target # NoCell /\ used < MaxBarriers
<1>1. target \in Cell /\ target \notin walls /\ used < MaxBarriers
  BY DEF BarrierLegal, BarrierOptions, StepLegal
<1>2. NoCell \notin Cell
  BY BoardAssumption DEF NoCell, Cell
<1>3. QED
  BY <1>1, <1>2

-----------------------------------------------------------------------------
(* Type correctness.                                                        *)

\* Each message a peer composes is a TurnMessage, and its new place is on
\* the board.
LEMMA PlayTyped ==
  ASSUME TypeOK, NEW p \in Role, NEW act \in Decision, DecisionLegal(p, act),
         NEW concede \in BOOLEAN, Play(p, act, concede)
  PROVE  TypeOK'
<1> DEFINE step == counter[p] + 1
           next == IF act.type = "MOVE" THEN Shift(pos[p], act.dir) ELSE pos[p]
           wall == IF act.type = "BARRIER" THEN Shift(pos[p], act.dir) ELSE NoCell
<1>1. step \in Nat /\ pos[p] \in Cell /\ p \in {"police", "thief"}
  BY DEF TypeOK, Role
<1>2. next \in Cell
  BY <1>1 DEF DecisionLegal, BarrierTarget, StepLegal
<1>3. wall \in Cell \cup {NoCell}
  BY <1>1, LegalWallIsFree DEF DecisionLegal, BarrierTarget
<1>4. Commit(p, step) \in CommitOf
  BY <1>1 DEF Commit, CommitOf
<1>5. Owed(p) \in Answer /\ (~concede /\ Survives(p, step)) \in BOOLEAN
  BY DEF TypeOK, Owed, Survives
<1>6. sealed[p] \in Seq(CommitOf) /\ Sealed(p, step) \in Seq(CommitOf)
  BY <1>4, AppendProperties DEF TypeOK, Sealed
<1>7. post'[p] \in TurnMessage
  BY <1>1, <1>2, <1>3, <1>4, <1>5 DEF Play, Apply, BarrierTarget, TurnMessage, TypeOK
<1>8. post' \in [Role -> TurnMessage]
  BY <1>7 DEF Play, Apply, BarrierTarget, TypeOK
<1>9. /\ pos' \in [Role -> Cell]
      /\ barriers' \in [Role -> SUBSET Cell]
      /\ sealed' \in [Role -> Seq(CommitOf)]
      /\ counter' \in [Role -> Nat] /\ myBarriers' \in [Role -> Nat]
      /\ arrived' \in [Role -> BOOLEAN]
  BY <1>1, <1>2, <1>3, <1>6 DEF Play, Apply, BarrierTarget, TypeOK
<1>10. QED
  BY <1>8, <1>9 DEF Play, Apply, BarrierTarget, TypeOK, gate, ends

\* Taking the head of an inbox leaves two well-typed parts.
LEMMA HeadTyped ==
  ASSUME TypeOK, NEW p \in Role, inbox[p] # << >>
  PROVE  Head(inbox[p]) \in TurnMessage /\ Tail(inbox[p]) \in Seq(TurnMessage)
BY HeadTailProperties DEF TypeOK

\* A reveal is a payload's records: the declaration first, then the log.
LEMMA RevealTyped ==
  ASSUME NEW p \in Role, sealed[p] \in Seq(CommitOf)
  PROVE  /\ AuditReveal(p) \in Seq(RevealedRecord)
         /\ DOMAIN AuditReveal(p) = 1 .. Len(sealed[p]) + 1
         /\ Len(sealed[p]) \in Nat
<1>1. /\ sealed[p] \in Seq(CommitOf) /\ Len(sealed[p]) \in Nat
      /\ DOMAIN sealed[p] = 1 .. Len(sealed[p])
      /\ \A i \in 1 .. Len(sealed[p]) : sealed[p][i] \in CommitOf
  OBVIOUS
<1>2. Commit(p, 0) \in CommitOf
  BY DEF Commit, CommitOf
<1>3. ASSUME NEW i \in 1 .. Len(sealed[p]) + 1
      PROVE  [step       |-> i - 1,
              commit     |-> IF i = 1 THEN Commit(p, 0) ELSE sealed[p][i - 1],
              recomputes |-> "yes",
              signature  |-> IF i = 1 THEN "valid" ELSE "invalid"] \in RevealedRecord
  <2>1. i - 1 \in Label /\ (i # 1 => i - 1 \in 1 .. Len(sealed[p]))
    BY <1>1, <1>3 DEF Label
  <2>2. (IF i = 1 THEN Commit(p, 0) ELSE sealed[p][i - 1]) \in CommitOf
    BY <1>1, <1>2, <2>1
  <2>3. QED
    BY <2>1, <2>2 DEF RevealedRecord
<1>4. Len(sealed[p]) + 1 \in Nat
  BY <1>1
<1>5. AuditReveal(p) \in [1 .. Len(sealed[p]) + 1 -> RevealedRecord]
  BY <1>3 DEF AuditReveal
<1>6. QED
  BY <1>1, <1>4, <1>5, SeqDef

LEMMA TypeInit == Init => TypeOK
<1> SUFFICES ASSUME Init PROVE TypeOK
  OBVIOUS
<1>1. NoPost \in TurnMessage
  BY DEF NoPost, TurnMessage, Role, Answer, CommitOf
<1>2. QED
  BY <1>1, SubGameAssumption DEF Init, Fresh, TypeOK, Answer, Role

LEMMA TypeStep == TypeOK /\ [Next]_vars => TypeOK'
<1> SUFFICES ASSUME TypeOK, [Next]_vars PROVE TypeOK'
  OBVIOUS
<1> USE DEF own, gate, wire, ends
<1>1. ASSUME NEW p \in Role, Negotiate(p) PROVE TypeOK'
  BY <1>1 DEF Negotiate, TypeOK
<1>2. ASSUME NEW p \in Role, Agree(p) PROVE TypeOK'
  BY <1>2 DEF Agree, FirstTurn, TypeOK
<1>3. ASSUME NEW p \in Role, TakeTurn(p) PROVE TypeOK'
  BY <1>3, GuardedIsLegal, PlayTyped DEF TakeTurn
<1>4. ASSUME NEW p \in Role, Concede(p) PROVE TypeOK'
  <2>1. Hold \in Decision /\ DecisionLegal(p, Hold)
    BY DEF Hold, Decision, Direction, DecisionLegal, BarrierTarget
  <2>2. QED
    BY <1>4, <2>1, PlayTyped DEF Concede
<1>5. ASSUME NEW p \in Role, Sent(p) PROVE TypeOK'
  BY <1>5 DEF Sent, Leave, TypeOK, Answer, Result
<1>6. ASSUME NEW p \in Role, TransportFails(p) PROVE TypeOK'
  BY <1>6 DEF TransportFails, Leave, TypeOK, Result
<1>7. ASSUME NEW p \in Role, DropDuplicate(p) PROVE TypeOK'
  BY <1>7, HeadTyped DEF DropDuplicate, Reading, Take, TypeOK
<1>8. ASSUME NEW p \in Role, RejectTurn(p) PROVE TypeOK'
  <2>1. /\ inbox' \in [Role -> Seq(TurnMessage)]
        /\ breaches' \in [Role -> Nat]
    BY <1>8, HeadTyped DEF RejectTurn, Reading, Take, TypeOK
  <2>2. /\ fsm' \in [Role -> {"BOOT", "NEGOTIATING", "MY_TURN", "SENDING",
                              "OPP_TURN", "GAME_OVER", "AUDITING", "DONE"}]
        /\ result' \in [Role -> Result \cup {"none"}]
    BY <1>8 DEF RejectTurn, Leave, TypeOK, Result
  <2>3. QED
    BY <1>8, <2>1, <2>2 DEF RejectTurn, TypeOK
<1>9. ASSUME NEW p \in Role, AcceptTurn(p) PROVE TypeOK'
  <2> DEFINE m == Head(inbox[p])
  <2>1. m \in TurnMessage /\ Tail(inbox[p]) \in Seq(TurnMessage)
    BY <1>9, HeadTyped DEF AcceptTurn, Reading
  <2>2. /\ m.step \in Nat /\ m.commit \in CommitOf
        /\ m.barrier \in Cell \cup {NoCell}
    BY <2>1 DEF TurnMessage
  <2>3. Append(commits[p], m.commit) \in Seq(CommitOf)
    BY <2>2, AppendProperties DEF TypeOK
  <2>4. Walls(p, m) \in SUBSET Cell /\ AnswerTo(p, m) \in Answer
    BY <2>2 DEF Walls, AnswerTo, Answer, TypeOK
  <2>5. /\ fsm' \in [Role -> {"BOOT", "NEGOTIATING", "MY_TURN", "SENDING",
                              "OPP_TURN", "GAME_OVER", "AUDITING", "DONE"}]
        /\ result' \in [Role -> Result \cup {"none"}]
    BY <1>9 DEF AcceptTurn, Leave, TypeOK, Result
  <2>6. inbox' \in [Role -> Seq(TurnMessage)]
    BY <1>9, <2>1 DEF AcceptTurn, Take, TypeOK
  <2>7. Fold(p, m)
    BY <1>9 DEF AcceptTurn
  <2> HIDE DEF m
  <2>8. /\ lastStep' \in [Role -> Nat] /\ breaches' \in [Role -> Nat]
        /\ oppBarriers' \in [Role -> Nat]
        /\ barriers' \in [Role -> SUBSET Cell]
        /\ response' \in [Role -> Answer]
        /\ commits' \in [Role -> Seq(CommitOf)]
    BY <2>2, <2>3, <2>4, <2>7 DEF Fold, TypeOK
  <2>9. QED
    BY <1>9, <2>5, <2>6, <2>8 DEF AcceptTurn, TypeOK
<1>10. ASSUME NEW p \in Role, Expire(p) PROVE TypeOK'
  BY <1>10 DEF Expire, Leave, TypeOK, Result
<1>11. ASSUME NEW p \in Role, Crash(p) PROVE TypeOK'
  BY <1>11 DEF Crash, Leave, TypeOK, Result
<1>12. ASSUME NEW p \in Role, SubmitAudit(p) PROVE TypeOK'
  <2> DEFINE mine == [claim |-> result[p], records |-> AuditReveal(p)]
  <2>1. /\ Opponent(p) \in Role
        /\ mine \in AuditPayload
    BY <1>12, RevealTyped DEF TypeOK, AuditPayload, Opponent, Role, SubmitAudit
  <2> HIDE DEF mine
  <2>2. Append(audits[Opponent(p)], mine) \in Seq(AuditPayload)
    BY <2>1, AppendProperties DEF TypeOK
  <2>3. QED
    BY <1>12, <2>1, <2>2 DEF mine, SubmitAudit, TypeOK
<1>13. ASSUME NEW p \in Role, ReadAudit(p) PROVE TypeOK'
  <2>1. Tail(audits[p]) \in Seq(AuditPayload)
    BY <1>13, HeadTailProperties DEF ReadAudit, TypeOK
  <2>2. audits' \in [Role -> Seq(AuditPayload)]
    BY <1>13, <2>1 DEF ReadAudit, TypeOK
  <2>3. QED
    BY <1>13, <2>2 DEF ReadAudit, TypeOK, Result
<1>14. ASSUME NEW p \in Role, MissAudit(p) PROVE TypeOK'
  BY <1>14 DEF MissAudit, TypeOK
<1>15. ASSUME NEW p \in Role, Arrive(p) PROVE TypeOK'
  <2>1. /\ Opponent(p) \in Role
        /\ Append(inbox[Opponent(p)], post[p]) \in Seq(TurnMessage)
    BY AppendProperties DEF Opponent, Role, TypeOK
  <2>2. QED
    BY <1>15, <2>1 DEF Arrive, TypeOK
<1>16. ASSUME NEW p \in Role, ArriveAgain(p) PROVE TypeOK'
  <2>1. PICK s \in 1 .. counter[p] :
          inbox' = [inbox EXCEPT ![Opponent(p)] = Append(@, [post[p] EXCEPT !.step = s])]
    BY <1>16 DEF ArriveAgain
  <2> DEFINE copy == [post[p] EXCEPT !.step = s]
  <2>2. Opponent(p) \in Role /\ s \in Nat /\ post[p] \in TurnMessage
    BY DEF TypeOK, Opponent, Role
  <2>3. copy \in TurnMessage
    BY <2>2 DEF TurnMessage
  <2> HIDE DEF copy
  <2>4. Append(inbox[Opponent(p)], copy) \in Seq(TurnMessage)
    BY <2>2, <2>3, AppendProperties DEF TypeOK
  <2>5. inbox' \in [Role -> Seq(TurnMessage)]
    BY <2>1, <2>2, <2>4 DEF copy, TypeOK
  <2>6. copies' \in [Role -> 0 .. MaxCopies]
    BY <1>16, SubGameAssumption DEF ArriveAgain, TypeOK
  <2>7. QED
    BY <1>16, <2>5, <2>6 DEF ArriveAgain, TypeOK
<1>17. ASSUME NEW p \in Role, HandshakeFails(p) PROVE TypeOK'
  BY <1>17 DEF HandshakeFails, TypeOK
<1>18. CASE UNCHANGED vars
  BY <1>18 DEF vars, TypeOK
<1>19. QED
  BY <1>1, <1>2, <1>3, <1>4, <1>5, <1>6, <1>7, <1>8, <1>9, <1>10, <1>11, <1>12,
     <1>13, <1>14, <1>15, <1>16, <1>17, <1>18 DEF Next, Thread, Works, Network

\* Every reachable state of the two processes is well typed: in particular
\* no move ever leaves the board and no message carries an impossible field.
THEOREM TypeCorrect == Spec => []TypeOK
<1>1. QED
  BY TypeInit, TypeStep, PTL DEF Spec

-----------------------------------------------------------------------------
(* The turn token.                                                          *)

LEMMA Opponents ==
  /\ Role = {"police", "thief"}
  /\ Opponent("police") = "thief" /\ Opponent("thief") = "police"
  /\ Lead("police") = 0 /\ Lead("thief") = 1
BY DEF Role, Opponent, Lead

\* The two counters of each peer, read in both directions, leave room for
\* one token only.
LEMMA TokenIsTurnToken == TokenInv => TurnToken
<1> SUFFICES ASSUME TokenInv PROVE TurnToken
  OBVIOUS
<1>1. \A p \in Role : counter[p] \in Nat /\ lastStep[p] \in Nat
  BY DEF TokenInv, TypeOK
<1>2. \A p \in Role : lastStep[p] <= counter[Opponent(p)]
  BY DEF TokenInv, Delivered
<1>3. QED
  BY <1>1, <1>2, Opponents DEF TokenInv, Clock, TurnToken

LEMMA TokenInit == Init => TokenInv
<1> SUFFICES ASSUME Init PROVE TokenInv
  OBVIOUS
<1>1. ASSUME NEW p \in Role PROVE Clock(p)
  BY Opponents DEF Init, Fresh, Clock
<1>2. ASSUME NEW p \in Role PROVE Delivered(p)
  BY Opponents DEF Init, Fresh, Delivered, NoPost
<1>3. QED
  BY <1>1, <1>2, TypeInit DEF TokenInv

\* The steps that move no counter and no message.
Quiet == UNCHANGED <<counter, lastStep, post, inbox>>

LEMMA QuietDelivers ==
  ASSUME TokenInv, Quiet
  PROVE  \A p \in Role : Delivered(p)'
BY DEF TokenInv, Quiet, Delivered

\* Leaving the loop, or going from one state to another at the same count.
LEMMA LeaveKeepsClock ==
  ASSUME TokenInv, UNCHANGED <<counter, lastStep>>,
         NEW p \in Role, NEW to \in {"GAME_OVER", "AUDITING", "DONE"},
         fsm' = [fsm EXCEPT ![p] = to]
  PROVE  \A r \in Role : Clock(r)'
<1>1. ASSUME NEW r \in Role, r # p PROVE Clock(r)'
  BY <1>1 DEF TokenInv, Clock, TypeOK
<1>2. Clock(p)'
  BY DEF TokenInv, Clock, TypeOK
<1>3. QED
  BY <1>1, <1>2

\* Composing a turn: nothing waiting for the opponent is newer.
LEMMA PlayKeepsToken ==
  ASSUME TokenInv, NEW p \in Role, NEW act, NEW concede,
         fsm[p] = "MY_TURN", Play(p, act, concede), TypeOK'
  PROVE  TokenInv'
<1>1. /\ counter' = [counter EXCEPT ![p] = counter[p] + 1]
      /\ fsm' = [fsm EXCEPT ![p] = "SENDING"]
      /\ post' = [post EXCEPT ![p] = post'[p]] /\ post'[p].step = counter[p] + 1
      /\ UNCHANGED <<lastStep, inbox>>
  BY DEF Play, Apply, BarrierTarget, gate, TokenInv, TypeOK
<1>2. \A r \in Role : counter[r] \in Nat /\ lastStep[r] \in Nat
  BY DEF TokenInv, TypeOK
<1>3. ASSUME NEW r \in Role PROVE Clock(r)'
  <2>1. fsm'[p] = "SENDING" /\ counter'[p] = counter[p] + 1
    BY <1>1 DEF TokenInv, TypeOK
  <2>2. Clock(p)'
    BY <1>1, <1>2, <2>1, Opponents DEF TokenInv, Clock
  <2>3. CASE r # p
    BY <1>1, <1>3, <2>3 DEF TokenInv, Clock, TypeOK
  <2>4. QED
    BY <2>2, <2>3
<1>4. ASSUME NEW r \in Role PROVE Delivered(r)'
  <2> DEFINE q == Opponent(r)
  <2>1. q \in Role /\ Delivered(r)
    BY Opponents DEF TokenInv
  <2>2. CASE q = p
    <3>1. counter'[q] = counter[q] + 1 /\ post'[q].step = counter'[q]
      BY <1>1, <2>1, <2>2 DEF TokenInv, TypeOK
    <3>2. \A i \in 1 .. Len(inbox[r]) :
            inbox[r][i].step \in 1 .. counter'[q] /\ inbox[r][i].step # counter'[q]
      BY <1>2, <2>1, <3>1 DEF Delivered
    <3>3. QED
      BY <1>1, <1>2, <2>1, <3>1, <3>2 DEF Delivered
  <2>3. CASE q # p
    BY <1>1, <2>1, <2>3 DEF Delivered, TokenInv, TypeOK
  <2>4. QED
    BY <2>2, <2>3
<1>5. QED
  BY <1>3, <1>4 DEF TokenInv

\* Taking a message off an inbox keeps what is said of the others.
LEMMA TakeKeepsRest ==
  ASSUME TokenInv, NEW p \in Role, inbox[p] # << >>, Take(p)
  PROVE  /\ inbox' \in [Role -> Seq(TurnMessage)]
         /\ \A r \in Role : r # p => inbox'[r] = inbox[r]
         /\ Len(inbox'[p]) = Len(inbox[p]) - 1
         /\ \A i \in 1 .. Len(inbox'[p]) : inbox'[p][i] = inbox[p][i + 1]
<1>1. inbox \in [Role -> Seq(TurnMessage)] /\ inbox[p] \in Seq(TurnMessage)
  BY DEF TokenInv, TypeOK
<1>2. inbox'[p] = Tail(inbox[p])
  BY <1>1 DEF Take
<1>3. /\ Tail(inbox[p]) \in Seq(TurnMessage)
      /\ Len(Tail(inbox[p])) = Len(inbox[p]) - 1
      /\ \A i \in 1 .. Len(Tail(inbox[p])) : Tail(inbox[p])[i] = inbox[p][i + 1]
  BY <1>1, HeadTailProperties
<1>4. QED
  BY <1>1, <1>2, <1>3 DEF Take

\* What the head of an inbox can be: a repeated turn, or the opponent's
\* last one, which is then the very next.
LEMMA HeadIsLatest ==
  ASSUME TokenInv, NEW p \in Role, inbox[p] # << >>
  PROVE  LET m == Head(inbox[p]) q == Opponent(p) IN
         /\ m \in TurnMessage /\ m.step \in Nat /\ m.step <= counter[q]
         /\ ~Duplicate(p, m) => /\ m = post[q] /\ m.step = lastStep[p] + 1
                                /\ m.step = counter[q] /\ lastStep[p] < counter[q]
<1> DEFINE q == Opponent(p)
           m == Head(inbox[p])
<1>1. m \in TurnMessage /\ 1 \in 1 .. Len(inbox[p]) /\ m = inbox[p][1]
  BY HeadTyped, HeadTailProperties DEF TokenInv, TypeOK
<1>2. m.step \in 1 .. counter[q] /\ (m.step = counter[q] => m = post[q])
  BY <1>1 DEF TokenInv, Delivered
<1>3. /\ counter[q] \in Nat /\ lastStep[p] \in Nat
      /\ counter[q] <= lastStep[p] + 1
  BY TokenIsTurnToken, Opponents DEF TurnToken, TokenInv, TypeOK
<1>4. QED
  BY <1>1, <1>2, <1>3 DEF Duplicate

\* Reading without moving the dedup key.
LEMMA SkipDelivers ==
  ASSUME TokenInv, NEW p \in Role, inbox[p] # << >>, Take(p),
         UNCHANGED <<counter, lastStep, post>>
  PROVE  \A r \in Role : Delivered(r)'
<1>1. /\ \A r \in Role : r # p => inbox'[r] = inbox[r]
      /\ Len(inbox'[p]) = Len(inbox[p]) - 1
      /\ \A i \in 1 .. Len(inbox'[p]) : inbox'[p][i] = inbox[p][i + 1]
  BY TakeKeepsRest
<1>2. Len(inbox[p]) \in Nat
  BY DEF TokenInv, TypeOK
<1>3. Delivered(p)'
  <2>1. \A i \in 1 .. Len(inbox'[p]) : i + 1 \in 1 .. Len(inbox[p])
    BY <1>1, <1>2
  <2>2. QED
    BY <1>1, <2>1 DEF TokenInv, Delivered
<1>4. ASSUME NEW r \in Role, r # p PROVE Delivered(r)'
  BY <1>1, <1>4 DEF TokenInv, Delivered
<1>5. QED
  BY <1>3, <1>4

LEMMA AcceptKeepsToken ==
  ASSUME TokenInv, NEW p \in Role, AcceptTurn(p), TypeOK'
  PROVE  TokenInv'
<1> DEFINE m == Head(inbox[p])
           q == Opponent(p)
<1>1. /\ fsm[p] = "OPP_TURN" /\ inbox[p] # << >> /\ Take(p)
      /\ ~Duplicate(p, m) /\ Fold(p, m)
      /\ UNCHANGED <<counter, post>>
  BY DEF AcceptTurn, Reading, wire
<1>2. m.step = lastStep[p] + 1 /\ m.step = counter[q]
  BY <1>1, HeadIsLatest
<1>3. lastStep' = [lastStep EXCEPT ![p] = m.step]
  BY <1>1 DEF Fold
<1>4. \/ fsm' = [fsm EXCEPT ![p] = "GAME_OVER"]
      \/ fsm' = [fsm EXCEPT ![p] = "MY_TURN"]
  BY DEF AcceptTurn, Leave
<1> HIDE DEF m
<1>5. \A r \in Role : counter[r] \in Nat /\ lastStep[r] \in Nat
  BY DEF TokenInv, TypeOK
<1>6. ASSUME NEW r \in Role PROVE Clock(r)'
  <2>1. fsm'[p] \in {"GAME_OVER", "MY_TURN"} /\ lastStep'[p] = lastStep[p] + 1
    BY <1>2, <1>3, <1>4 DEF TokenInv, TypeOK
  <2>2. Clock(p)'
    BY <1>1, <1>5, <2>1, Opponents DEF TokenInv, Clock
  <2>3. CASE r # p
    BY <1>1, <1>3, <1>4, <2>3 DEF TokenInv, Clock, TypeOK
  <2>4. QED
    BY <2>2, <2>3
<1>7. /\ \A r \in Role : r # p => inbox'[r] = inbox[r]
      /\ Len(inbox'[p]) = Len(inbox[p]) - 1
      /\ \A i \in 1 .. Len(inbox'[p]) : inbox'[p][i] = inbox[p][i + 1]
  BY <1>1, TakeKeepsRest
<1>8. Len(inbox[p]) \in Nat /\ \A i \in 1 .. Len(inbox'[p]) : i + 1 \in 1 .. Len(inbox[p])
  BY <1>7 DEF TokenInv, TypeOK
<1>9. lastStep'[p] = counter[q] /\ \A r \in Role : r # p => lastStep'[r] = lastStep[r]
  BY <1>2, <1>3 DEF TokenInv, TypeOK
<1>10. Delivered(p)'
  <2>1. lastStep'[p] <= counter[q]
    BY <1>5, <1>9, Opponents
  <2>2. QED
    BY <1>1, <1>7, <1>8, <2>1 DEF TokenInv, Delivered
<1>11. ASSUME NEW r \in Role, r # p PROVE Delivered(r)'
  BY <1>1, <1>7, <1>9, <1>11 DEF TokenInv, Delivered
<1>12. QED
  BY <1>6, <1>10, <1>11 DEF TokenInv

\* A delivery, first or repeated, of something already composed.
LEMMA DeliveryKeepsToken ==
  ASSUME TokenInv, NEW p \in Role, NEW copy \in TurnMessage,
         copy.step \in 1 .. counter[p], copy.step = counter[p] => copy = post[p],
         inbox' = [inbox EXCEPT ![Opponent(p)] = Append(@, copy)],
         UNCHANGED <<fsm, counter, lastStep, post>>, TypeOK'
  PROVE  TokenInv'
<1> DEFINE q == Opponent(p)
<1>1. q \in Role /\ inbox[q] \in Seq(TurnMessage) /\ Opponent(q) = p
  BY Opponents DEF TokenInv, TypeOK
<1>2. inbox'[q] = Append(inbox[q], copy) /\ \A r \in Role : r # q => inbox'[r] = inbox[r]
  BY <1>1 DEF TokenInv, TypeOK
<1>3. /\ Len(inbox[q]) \in Nat
      /\ Len(inbox'[q]) = Len(inbox[q]) + 1
      /\ \A i \in 1 .. Len(inbox[q]) : inbox'[q][i] = inbox[q][i]
      /\ inbox'[q][Len(inbox[q]) + 1] = copy
  BY <1>1, <1>2, AppendProperties
<1>4. Delivered(q)'
  <2>1. ASSUME NEW i \in 1 .. Len(inbox'[q])
        PROVE  /\ inbox'[q][i].step \in 1 .. counter[p]
               /\ inbox'[q][i].step = counter[p] => inbox'[q][i] = post[p]
    <3>1. CASE i \in 1 .. Len(inbox[q])
      BY <1>1, <1>3, <3>1 DEF TokenInv, Delivered
    <3>2. CASE i = Len(inbox[q]) + 1
      BY <1>3, <3>2
    <3>3. QED
      BY <1>3, <2>1, <3>1, <3>2
  <2>2. QED
    BY <1>1, <2>1 DEF TokenInv, Delivered
<1>5. ASSUME NEW r \in Role, r # q PROVE Delivered(r)'
  BY <1>2, <1>5 DEF TokenInv, Delivered
<1>6. ASSUME NEW r \in Role PROVE Clock(r)'
  BY DEF TokenInv, Clock
<1>7. QED
  BY <1>4, <1>5, <1>6 DEF TokenInv

LEMMA TokenStep == TokenInv /\ [Next]_vars => TokenInv'
<1> SUFFICES ASSUME TokenInv, [Next]_vars PROVE TokenInv'
  OBVIOUS
<1> USE DEF own, gate, wire, ends
<1>0. TypeOK'
  BY TypeStep DEF TokenInv
<1>1. ASSUME NEW p \in Role, Negotiate(p) \/ Agree(p) PROVE TokenInv'
  <2>1. Quiet
    BY <1>1 DEF Negotiate, Agree, Quiet
  <2>2. \/ fsm[p] = "BOOT" /\ fsm' = [fsm EXCEPT ![p] = "NEGOTIATING"]
        \/ fsm[p] = "NEGOTIATING" /\ fsm' = [fsm EXCEPT ![p] = FirstTurn(p)]
    BY <1>1 DEF Negotiate, Agree
  <2>3. Clock(p)'
    <3>1. CASE fsm[p] = "BOOT" /\ fsm' = [fsm EXCEPT ![p] = "NEGOTIATING"]
      BY <2>1, <3>1 DEF Quiet, TokenInv, Clock, TypeOK
    <3>2. CASE fsm[p] = "NEGOTIATING" /\ fsm' = [fsm EXCEPT ![p] = FirstTurn(p)]
      <4>1. counter[p] = 0 /\ lastStep[p] = 0 /\ fsm'[p] = FirstTurn(p)
        BY <3>2 DEF TokenInv, Clock, TypeOK
      <4>2. QED
        BY <2>1, <4>1, Opponents DEF Quiet, FirstTurn, Clock
    <3>3. QED
      BY <2>2, <3>1, <3>2
  <2>4. ASSUME NEW r \in Role, r # p PROVE Clock(r)'
    BY <2>1, <2>2, <2>4 DEF Quiet, TokenInv, Clock, TypeOK
  <2>5. QED
    BY <1>0, <2>1, <2>3, <2>4, QuietDelivers DEF TokenInv
<1>2. ASSUME NEW p \in Role, TakeTurn(p) \/ Concede(p) PROVE TokenInv'
  BY <1>0, <1>2, PlayKeepsToken DEF TakeTurn, Concede
<1>3. ASSUME NEW p \in Role, Sent(p) PROVE TokenInv'
  <2>1. Quiet
    BY <1>3 DEF Sent, Quiet
  <2>2. \/ fsm' = [fsm EXCEPT ![p] = "GAME_OVER"]
        \/ fsm[p] = "SENDING" /\ fsm' = [fsm EXCEPT ![p] = "OPP_TURN"]
    BY <1>3 DEF Sent, Leave
  <2>3. \A r \in Role : Clock(r)'
    BY <2>1, <2>2 DEF Quiet, TokenInv, Clock, TypeOK
  <2>4. QED
    BY <1>0, <2>1, <2>3, QuietDelivers DEF TokenInv
<1>4. ASSUME NEW p \in Role,
             TransportFails(p) \/ Expire(p) \/ Crash(p) \/ SubmitAudit(p)
               \/ ReadAudit(p) \/ MissAudit(p)
      PROVE  TokenInv'
  <2>1. Quiet
    BY <1>4 DEF TransportFails, Expire, Crash, SubmitAudit, ReadAudit, MissAudit, Quiet
  <2>2. \/ UNCHANGED fsm
        \/ \E to \in {"GAME_OVER", "AUDITING", "DONE"} : fsm' = [fsm EXCEPT ![p] = to]
    BY <1>4 DEF TransportFails, Expire, Crash, SubmitAudit, ReadAudit, MissAudit, Leave
  <2>3. \A r \in Role : Clock(r)'
    <3>1. CASE UNCHANGED fsm
      BY <2>1, <3>1 DEF Quiet, TokenInv, Clock
    <3>2. QED
      BY <2>1, <2>2, <3>1, LeaveKeepsClock DEF Quiet
  <2>4. QED
    BY <1>0, <2>1, <2>3, QuietDelivers DEF TokenInv
<1>5. ASSUME NEW p \in Role, DropDuplicate(p) \/ RejectTurn(p) PROVE TokenInv'
  <2>1. inbox[p] # << >> /\ Take(p) /\ UNCHANGED <<counter, lastStep, post>>
    BY <1>5 DEF DropDuplicate, RejectTurn, Reading
  <2>2. fsm' = fsm \/ fsm' = [fsm EXCEPT ![p] = "GAME_OVER"]
    BY <1>5 DEF DropDuplicate, RejectTurn, Leave
  <2>3. \A r \in Role : Clock(r)'
    BY <2>1, <2>2 DEF TokenInv, Clock, TypeOK
  <2>4. QED
    BY <1>0, <2>1, <2>3, SkipDelivers DEF TokenInv
<1>6. ASSUME NEW p \in Role, AcceptTurn(p) PROVE TokenInv'
  BY <1>0, <1>6, AcceptKeepsToken
<1>7. ASSUME NEW p \in Role, Arrive(p) PROVE TokenInv'
  <2>1. Opponent(p) \in Role /\ Opponent(Opponent(p)) = p
    BY Opponents
  <2>2. post[p] \in TurnMessage /\ post[p].step = counter[p] /\ counter[p] \in Nat
    BY <2>1 DEF TokenInv, TypeOK, Delivered
  <2>3. QED
    <3>1. /\ inbox' = [inbox EXCEPT ![Opponent(p)] = Append(@, post[p])]
          /\ UNCHANGED <<fsm, counter, lastStep, post>>
          /\ post[p].step \in 1 .. counter[p]
      BY <1>7, <2>2 DEF Arrive
    <3>2. QED
      BY <1>0, <2>2, <3>1, DeliveryKeepsToken
<1>8. ASSUME NEW p \in Role, ArriveAgain(p) PROVE TokenInv'
  <2>1. PICK s \in 1 .. counter[p] :
          inbox' = [inbox EXCEPT ![Opponent(p)] = Append(@, [post[p] EXCEPT !.step = s])]
    BY <1>8 DEF ArriveAgain
  <2>2. Opponent(p) \in Role /\ Opponent(Opponent(p)) = p
    BY Opponents
  <2>3. post[p] \in TurnMessage /\ post[p].step = counter[p] /\ counter[p] \in Nat
    BY <2>2 DEF TokenInv, TypeOK, Delivered
  <2> DEFINE copy == [post[p] EXCEPT !.step = s]
  <2>4. copy \in TurnMessage /\ copy.step = s /\ (s = counter[p] => copy = post[p])
    BY <2>3 DEF TurnMessage
  <2> HIDE DEF copy
  <2>5. inbox' = [inbox EXCEPT ![Opponent(p)] = Append(@, copy)]
    BY <2>1 DEF copy
  <2>6. QED
    BY <1>0, <1>8, <2>4, <2>5, DeliveryKeepsToken DEF ArriveAgain
<1>9. ASSUME NEW p \in Role, HandshakeFails(p) PROVE TokenInv'
  BY <1>0, <1>9, QuietDelivers DEF HandshakeFails, Quiet, TokenInv, Clock
<1>10. CASE UNCHANGED vars
  BY <1>0, <1>10, QuietDelivers DEF vars, Quiet, TokenInv, Clock
<1>11. QED
  BY <1>1, <1>2, <1>3, <1>4, <1>5, <1>6, <1>7, <1>8, <1>9, <1>10 DEF Next, Thread, Works, Network

\* There is never more than one turn token, and no gate is more than one
\* turn behind: whatever is repeated, delayed, given up on or crashes.
THEOREM TokenIsUnique == Spec => []TurnToken
<1>1. Spec => []TokenInv
  BY TokenInit, TokenStep, PTL DEF Spec
<1>2. QED
  BY <1>1, TokenIsTurnToken, PTL

-----------------------------------------------------------------------------
(* The lifecycle.  The table of GameStateMachine is one abstract             *)
(* specification, instantiated once for each peer; the sub-game implements   *)
(* it step by step.                                                          *)

\* The moves of the table that the turn loop and the audit make.
Lifecycle == {<<"BOOT", "NEGOTIATING">>,
              <<"NEGOTIATING", "MY_TURN">>, <<"NEGOTIATING", "OPP_TURN">>,
              <<"OPP_TURN", "MY_TURN">>, <<"MY_TURN", "SENDING">>,
              <<"SENDING", "OPP_TURN">>,
              <<"OPP_TURN", "GAME_OVER">>, <<"MY_TURN", "GAME_OVER">>,
              <<"SENDING", "GAME_OVER">>,
              <<"GAME_OVER", "AUDITING">>, <<"AUDITING", "DONE">>}

Driven(p) == fsm'[p] = fsm[p] \/ <<fsm[p], fsm'[p]>> \in Lifecycle

LEMMA OneDriven ==
  ASSUME TypeOK, NEW p \in Role, NEW to, <<fsm[p], to>> \in Lifecycle,
         fsm' = [fsm EXCEPT ![p] = to]
  PROVE  \A r \in Role : Driven(r)
BY DEF Driven, TypeOK

LEMMA LifecycleStep == TypeOK /\ [Next]_vars => \A r \in Role : Driven(r)
<1> SUFFICES ASSUME TypeOK, [Next]_vars PROVE \A r \in Role : Driven(r)
  OBVIOUS
<1>1. ASSUME NEW p \in Role, NEW to, Leave(p, to),
             fsm[p] \in {"OPP_TURN", "MY_TURN", "SENDING"}
      PROVE  \A r \in Role : Driven(r)
  <2>1. <<fsm[p], "GAME_OVER">> \in Lifecycle
    BY <1>1 DEF Lifecycle
  <2>2. QED
    BY <1>1, <2>1, OneDriven DEF Leave
<1>2. ASSUME NEW p \in Role,
             \/ Negotiate(p) \/ Agree(p) \/ SubmitAudit(p)
             \/ ReadAudit(p) \/ MissAudit(p)
      PROVE  \A r \in Role : Driven(r)
  <2>1. CASE Negotiate(p)
    <3>1. <<fsm[p], "NEGOTIATING">> \in Lifecycle
      BY <2>1 DEF Negotiate, Lifecycle
    <3>2. QED
      BY <2>1, <3>1, OneDriven DEF Negotiate
  <2>2. CASE Agree(p)
    <3>1. <<fsm[p], FirstTurn(p)>> \in Lifecycle
      BY <2>2 DEF Agree, FirstTurn, Lifecycle
    <3>2. QED
      BY <2>2, <3>1, OneDriven DEF Agree
  <2>3. CASE SubmitAudit(p)
    <3>1. <<fsm[p], "AUDITING">> \in Lifecycle
      BY <2>3 DEF SubmitAudit, Lifecycle
    <3>2. QED
      BY <2>3, <3>1, OneDriven DEF SubmitAudit
  <2>4. CASE ReadAudit(p) \/ MissAudit(p)
    <3>1. <<fsm[p], "DONE">> \in Lifecycle
      BY <2>4 DEF ReadAudit, MissAudit, Lifecycle
    <3>2. UNCHANGED fsm \/ fsm' = [fsm EXCEPT ![p] = "DONE"]
      BY <2>4 DEF ReadAudit, MissAudit
    <3>3. QED
      BY <3>1, <3>2, OneDriven DEF Driven
  <2>5. QED
    BY <1>2, <2>1, <2>2, <2>3, <2>4
<1>3. ASSUME NEW p \in Role, TakeTurn(p) \/ Concede(p) PROVE \A r \in Role : Driven(r)
  <2>1. fsm[p] = "MY_TURN" /\ fsm' = [fsm EXCEPT ![p] = "SENDING"]
    BY <1>3 DEF TakeTurn, Concede, Play
  <2>2. <<fsm[p], "SENDING">> \in Lifecycle
    BY <2>1 DEF Lifecycle
  <2>3. QED
    BY <2>1, <2>2, OneDriven
<1>4. ASSUME NEW p \in Role, Sent(p) PROVE \A r \in Role : Driven(r)
  <2>1. /\ fsm[p] = "SENDING"
        /\ fsm' = [fsm EXCEPT ![p] = "OPP_TURN"] \/ \E to : Leave(p, to)
    BY <1>4 DEF Sent
  <2>2. <<fsm[p], "OPP_TURN">> \in Lifecycle
    BY <2>1 DEF Lifecycle
  <2>3. QED
    BY <1>1, <2>1, <2>2, OneDriven
<1>5. ASSUME NEW p \in Role, TransportFails(p) \/ Expire(p) \/ Crash(p) \/ RejectTurn(p)
      PROVE  \A r \in Role : Driven(r)
  <2>1. /\ fsm[p] \in {"OPP_TURN", "MY_TURN", "SENDING"}
        /\ UNCHANGED fsm \/ \E to : Leave(p, to)
    BY <1>5 DEF TransportFails, Expire, Crash, RejectTurn, Reading
  <2>2. QED
    BY <1>1, <2>1 DEF Driven
<1>6. ASSUME NEW p \in Role, AcceptTurn(p) PROVE \A r \in Role : Driven(r)
  <2>1. /\ fsm[p] = "OPP_TURN"
        /\ fsm' = [fsm EXCEPT ![p] = "MY_TURN"] \/ \E to : Leave(p, to)
    BY <1>6 DEF AcceptTurn, Reading
  <2>2. <<fsm[p], "MY_TURN">> \in Lifecycle
    BY <2>1 DEF Lifecycle
  <2>3. QED
    BY <1>1, <2>1, <2>2, OneDriven
<1>7. ASSUME NEW p \in Role,
             HandshakeFails(p) \/ DropDuplicate(p) \/ Arrive(p) \/ ArriveAgain(p)
      PROVE  \A r \in Role : Driven(r)
  BY <1>7 DEF HandshakeFails, DropDuplicate, Arrive, ArriveAgain, Driven
<1>8. CASE UNCHANGED vars
  BY <1>8 DEF vars, Driven
<1>9. QED
  BY <1>2, <1>3, <1>4, <1>5, <1>6, <1>7, <1>8 DEF Next, Thread, Works, Network

\* Neither peer ever drives its GameStateMachine outside the table, whatever
\* is repeated, given up on or crashes: advance never raises, so settlement
\* and audit follow from wherever the loop stopped.
THEOREM NeverIllegal == Spec => LegalLifecycle
<1>1. Init => ThiefFsm!Init /\ PoliceFsm!Init
  BY Opponents DEF Init, Fresh, ThiefFsm!Init, PoliceFsm!Init
<1>2. ASSUME TypeOK, [Next]_vars
      PROVE  [ThiefFsm!Next]_(ThiefFsm!vars) /\ [PoliceFsm!Next]_(PoliceFsm!vars)
  <2>1. Driven("thief") /\ Driven("police")
    BY <1>2, LifecycleStep, Opponents
  <2>2. [ThiefFsm!Next]_(ThiefFsm!vars)
    BY <2>1 DEF Driven, Lifecycle, ThiefFsm!Next, ThiefFsm!Advance, ThiefFsm!Allowed,
                ThiefFsm!WrongResume, ThiefFsm!Turn, ThiefFsm!vars
  <2>3. [PoliceFsm!Next]_(PoliceFsm!vars)
    BY <2>1 DEF Driven, Lifecycle, PoliceFsm!Next, PoliceFsm!Advance, PoliceFsm!Allowed,
                PoliceFsm!WrongResume, PoliceFsm!Turn, PoliceFsm!vars
  <2>4. QED
    BY <2>2, <2>3
<1>3. QED
  BY <1>1, <1>2, TypeCorrect, PTL DEF Spec, LegalLifecycle, ThiefFsm!Spec, PoliceFsm!Spec
-----------------------------------------------------------------------------
(* What two peers that run this code can never do to each other: be         *)
(* rejected by the other's gate, drift apart on the barrier map, or fail    *)
(* the other's audit.                                                       *)


\* The thresholds the two processes were configured with.  They are not
\* among the signed terms (WIRE_TERM_SOURCES), so this is an assumption on
\* the deployment and not something the handshake enforces.
ThresholdsAgree == SurvivalThreshold["police"] = SurvivalThreshold["thief"]

LEMMA HonestInit == Init => HonestInv
<1> SUFFICES ASSUME Init PROVE HonestInv
  OBVIOUS
<1>1. ASSUME NEW p \in Role PROVE Honest(p) /\ breaches[p] = 0
  BY Opponents DEF Init, Fresh, Honest, NoPost
<1>2. InFlightWalls = {} /\ IsFiniteSet({}) /\ Cardinality({}) = 0
  BY Opponents, FS_EmptySet DEF Init, Fresh, InFlightWalls
<1>3. Replicas
  BY <1>2, Opponents, RulesAssumption DEF Init, Fresh, Replicas
<1>4. QED
  BY <1>1, <1>3, Opponents DEF Init, Fresh, HonestInv

\* Nothing HonestInv speaks of moves, except that a debt may be dropped.
LEMMA HonestKept ==
  ASSUME TokenInv, HonestInv,
         UNCHANGED <<counter, post, lastStep, barriers, myBarriers, oppBarriers, breaches>>,
         response'["police"] \in {response["police"], "none"}
  PROVE  HonestInv'
<1>1. \A p \in Role : Honest(p)' /\ breaches'[p] = 0
  BY DEF HonestInv, Honest
<1>2. InFlightWalls' = InFlightWalls
  BY DEF InFlightWalls
<1>3. Replicas'
  BY <1>2 DEF HonestInv, Replicas
<1>4. QED
  BY <1>1, <1>3 DEF HonestInv

\* A new turn obeys the rules of its sender's role, and its wall is new to
\* both maps and within the quota.
LEMMA HonestPlay ==
  ASSUME TokenInv, HonestInv, NEW p \in Role, NEW act \in Decision,
         DecisionLegal(p, act), fsm[p] = "MY_TURN",
         NEW concede \in BOOLEAN, Play(p, act, concede)
  PROVE  HonestInv'
<1> DEFINE step == counter[p] + 1
           next == IF act.type = "MOVE" THEN Shift(pos[p], act.dir) ELSE pos[p]
           wall == IF act.type = "BARRIER" THEN Shift(pos[p], act.dir) ELSE NoCell
           msg == [step     |-> step,
                   sender   |-> p,
                   barrier  |-> wall,
                   claim    |-> IF p = "police" /\ act.type = "MOVE" THEN next ELSE NoCell,
                   response |-> Owed(p),
                   win      |-> ~concede /\ Survives(p, step),
                   commit   |-> Commit(p, step)]
<1>1. /\ post' = [post EXCEPT ![p] = msg]
      /\ counter' = [counter EXCEPT ![p] = step]
      /\ barriers' = [barriers EXCEPT ![p] = @ \cup ({wall} \ {NoCell})]
      /\ myBarriers' = [myBarriers EXCEPT ![p] = IF wall = NoCell THEN @ ELSE @ + 1]
      /\ UNCHANGED <<response, lastStep, oppBarriers, breaches>>
  BY DEF Play, Apply, BarrierTarget, gate
<1>2. p \in {"police", "thief"} /\ pos[p] \in Cell /\ counter[p] \in Nat
  BY Opponents DEF TokenInv, TypeOK
<1>3. /\ p = "thief" => wall = NoCell
      /\ wall # NoCell => /\ wall \in Cell /\ wall \notin barriers[p]
                          /\ myBarriers[p] < MaxBarriers
  BY <1>2, LegalWallIsFree DEF DecisionLegal, BarrierTarget
<1>4. /\ msg.sender = p /\ msg.step = step /\ msg.barrier = wall
      /\ RoleFields(msg)
      /\ msg.win => msg.step >= SurvivalThreshold["thief"]
  <2>1. p = "police" => Owed(p) = "none" /\ ~Survives(p, step)
    BY DEF Owed, Survives, HonestInv
  <2>2. p = "thief" => msg.barrier = NoCell /\ msg.claim = NoCell
    BY <1>3
  <2>3. msg.win => Survives(p, step)
    OBVIOUS
  <2>4. QED
    BY <1>2, <2>1, <2>2, <2>3 DEF RoleFields, Survives
<1> HIDE DEF msg, wall, step
<1>5. /\ \A r \in Role : r # p => post'[r] = post[r] /\ counter'[r] = counter[r]
      /\ post'[p] = msg /\ counter'[p] = step
  BY <1>1 DEF TokenInv, TypeOK
<1>6. ASSUME NEW r \in Role PROVE Honest(r)' /\ breaches'[r] = 0
  BY <1>1, <1>4, <1>5 DEF Honest, HonestInv
<1>7. Replicas'
  <2>1. CASE p = "thief"
    <3>1. barriers' = barriers /\ myBarriers' = myBarriers
      BY <1>1, <1>3, <2>1 DEF TokenInv, TypeOK
    <3>2. InFlightWalls' = InFlightWalls
      BY <1>1, <1>5, <2>1, Opponents DEF InFlightWalls
    <3>3. QED
      BY <1>1, <3>1, <3>2 DEF HonestInv, Replicas
  <2>2. CASE p = "police"
    <3>1. /\ lastStep["thief"] = counter["police"] /\ counter["police"] < step
          /\ counter["police"] \in Nat
      <4>1. /\ counter["police"] \in Nat /\ lastStep["thief"] \in Nat
            /\ counter["thief"] \in Nat /\ lastStep["police"] \in Nat
        BY Opponents DEF TokenInv, TypeOK
      <4>2. /\ lastStep["thief"] <= counter["police"]
            /\ counter["thief"] <= lastStep["thief"] + 1
            /\ lastStep["police"] <= counter["thief"]
            /\ counter["police"] + 1 = lastStep["police"]
        BY <2>2, <4>1, Opponents DEF TokenInv, Clock, Delivered
      <4>3. QED
        BY <2>2, <4>1, <4>2 DEF step
    <3>2. InFlightWalls = {} /\ InFlightWalls' = {wall} \ {NoCell}
      <4>1. ~(lastStep["thief"] < counter["police"])
        BY <3>1
      <4>2. /\ lastStep'["thief"] < counter'["police"]
            /\ post'["police"].barrier = wall
        BY <1>1, <1>4, <1>5, <2>2, <3>1
      <4>3. QED
        BY <4>1, <4>2 DEF InFlightWalls
    <3>3. /\ barriers'["police"] = barriers["police"] \cup ({wall} \ {NoCell})
          /\ barriers'["thief"] = barriers["thief"]
          /\ myBarriers'["police"] =
               IF wall = NoCell THEN myBarriers["police"] ELSE myBarriers["police"] + 1
      BY <1>1, <2>2, Opponents DEF TokenInv, TypeOK
    <3>4. barriers["police"] = barriers["thief"]
      BY <3>2 DEF HonestInv, Replicas
    <3>5. Cardinality({}) = 0 /\ myBarriers["police"] \in Nat /\ oppBarriers["thief"] \in Nat
      BY FS_EmptySet, Opponents DEF TokenInv, TypeOK
    <3>6. myBarriers["police"] = oppBarriers["thief"]
      BY <3>2, <3>5 DEF HonestInv, Replicas
    <3>7. CASE wall = NoCell
      BY <1>1, <3>2, <3>3, <3>4, <3>5, <3>6, <3>7 DEF HonestInv, Replicas
    <3>8. CASE wall # NoCell
      <4>1. InFlightWalls' = {wall} /\ Cardinality({wall}) = 1
        BY <3>2, <3>8, FS_Singleton
      <4>2. wall \notin barriers["thief"] /\ myBarriers["police"] < MaxBarriers
        BY <1>3, <2>2, <3>4, <3>8
      <4>3. myBarriers'["police"] = oppBarriers["thief"] + 1
            /\ myBarriers'["police"] <= MaxBarriers
        BY <3>3, <3>5, <3>6, <3>8, <4>2, RulesAssumption
      <4>4. QED
        BY <1>1, <3>3, <3>4, <3>8, <4>1, <4>2, <4>3 DEF HonestInv, Replicas
    <3>9. QED
      BY <3>7, <3>8
  <2>3. QED
    BY <1>2, <2>1, <2>2
<1>8. QED
  BY <1>1, <1>6, <1>7 DEF HonestInv

\* Whatever is not a repetition passes every check of the gate.
LEMMA NewIsValid ==
  ASSUME TokenInv, HonestInv, ThresholdsAgree, NEW p \in Role, inbox[p] # << >>,
         ~Duplicate(p, Head(inbox[p]))
  PROVE  Valid(p, Head(inbox[p]))
<1> DEFINE q == Opponent(p)
           m == Head(inbox[p])
<1>1. /\ m = post[q] /\ m \in TurnMessage
      /\ m.step = lastStep[p] + 1 /\ m.step = counter[q] /\ lastStep[p] < counter[q]
  BY HeadIsLatest
<1>2. /\ q \in Role /\ counter[q] \in Nat /\ lastStep[p] \in Nat
      /\ \A r \in Role : SurvivalThreshold[r] \in Nat
  BY Opponents, SubGameAssumption DEF TokenInv, TypeOK
<1>3. m.sender = q /\ RoleFields(m) /\ (m.win => m.step >= SurvivalThreshold[p])
  BY <1>1, <1>2, Opponents DEF HonestInv, Honest, ThresholdsAgree
<1>4. m.claim # NoCell => m.claim \in Cell
  BY <1>1 DEF TurnMessage
<1>5. BarrierOk(p, m)
  <2>1. CASE p = "police"
    BY <1>3, <2>1, Opponents DEF RoleFields, BarrierOk
  <2>2. CASE p = "thief" /\ m.barrier # NoCell
    <3>1. InFlightWalls = {m.barrier} /\ Cardinality({m.barrier}) = 1
      BY <1>1, <2>2, Opponents, FS_Singleton DEF InFlightWalls
    <3>2. /\ oppBarriers["thief"] \in Nat /\ myBarriers["police"] \in Nat
          /\ myBarriers["police"] = oppBarriers["thief"] + 1
          /\ myBarriers["police"] <= MaxBarriers
      BY <3>1, Opponents DEF HonestInv, Replicas, TokenInv, TypeOK
    <3>3. m.barrier \notin barriers["thief"]
      BY <3>1 DEF HonestInv, Replicas
    <3>4. m.barrier \in Cell
      BY <1>1, <2>2 DEF TurnMessage
    <3>5. QED
      BY <2>2, <3>2, <3>3, <3>4, RulesAssumption DEF BarrierOk
  <2>3. QED
    BY <2>1, <2>2, Opponents DEF BarrierOk
<1>6. QED
  BY <1>1, <1>3, <1>4, <1>5 DEF Valid

\* Folding the opponent's turn in brings the two maps level.
LEMMA HonestAccept ==
  ASSUME TokenInv, HonestInv, NEW p \in Role, AcceptTurn(p)
  PROVE  HonestInv'
<1> DEFINE m == Head(inbox[p])
           q == Opponent(p)
<1>1. /\ inbox[p] # << >> /\ ~Duplicate(p, m) /\ Valid(p, m) /\ Fold(p, m)
      /\ UNCHANGED <<counter, post, myBarriers>>
  BY DEF AcceptTurn, Reading, wire
<1>2. /\ m = post[q] /\ m \in TurnMessage
      /\ m.step = lastStep[p] + 1 /\ m.step = counter[q] /\ lastStep[p] < counter[q]
  BY <1>1, HeadIsLatest
<1>3. RoleFields(m) /\ m.sender = q
  BY <1>1 DEF Valid
<1> HIDE DEF m
<1>4. /\ lastStep' = [lastStep EXCEPT ![p] = m.step]
      /\ breaches' = [breaches EXCEPT ![p] = 0]
      /\ barriers' = [barriers EXCEPT ![p] = Walls(p, m)]
      /\ oppBarriers' = [oppBarriers EXCEPT ![p] = IF m.barrier = NoCell THEN @ ELSE @ + 1]
      /\ response' = [response EXCEPT ![p] = AnswerTo(p, m)]
  BY <1>1 DEF Fold
<1>5. ASSUME NEW r \in Role PROVE Honest(r)' /\ breaches'[r] = 0
  BY <1>1, <1>4 DEF HonestInv, Honest, TokenInv, TypeOK
<1>6. CASE p = "police"
  <2>1. m.barrier = NoCell /\ m.claim = NoCell
    BY <1>3, <1>6, Opponents DEF RoleFields
  <2>2. response'["police"] = "none"
    BY <1>4, <1>6, <2>1 DEF AnswerTo, Caught, TokenInv, TypeOK
  <2>3. barriers' = barriers /\ lastStep'["thief"] = lastStep["thief"]
        /\ oppBarriers'["thief"] = oppBarriers["thief"]
    BY <1>4, <1>6, <2>1, Opponents DEF Walls, TokenInv, TypeOK
  <2>4. InFlightWalls' = InFlightWalls
    BY <1>1, <2>3 DEF InFlightWalls
  <2>5. Replicas'
    BY <1>1, <2>3, <2>4 DEF HonestInv, Replicas
  <2>6. QED
    BY <1>5, <2>2, <2>5 DEF HonestInv
<1>7. CASE p = "thief"
  <2>1. InFlightWalls = {m.barrier} \ {NoCell}
    BY <1>2, <1>7, Opponents DEF InFlightWalls
  <2>2. lastStep'["thief"] = counter["police"] /\ counter["police"] \in Nat
    BY <1>2, <1>4, <1>7, Opponents DEF TokenInv, TypeOK
  <2>3. InFlightWalls' = {}
    BY <1>1, <2>2 DEF InFlightWalls
  <2>4. /\ barriers'["thief"] = barriers["thief"] \cup InFlightWalls
        /\ barriers'["police"] = barriers["police"]
        /\ response'["police"] = response["police"]
        /\ oppBarriers'["thief"] =
             IF m.barrier = NoCell THEN oppBarriers["thief"] ELSE oppBarriers["thief"] + 1
    BY <1>4, <1>7, <2>1, Opponents DEF Walls, TokenInv, TypeOK
  <2>5. Cardinality({}) = 0 /\ IsFiniteSet({}) /\ oppBarriers["thief"] \in Nat
    BY FS_EmptySet, Opponents DEF TokenInv, TypeOK
  <2>6. CASE m.barrier = NoCell
    <3>1. InFlightWalls = {}
      BY <2>1, <2>6
    <3>2. Replicas'
      BY <1>1, <2>3, <2>4, <2>6, <3>1 DEF HonestInv, Replicas
    <3>3. QED
      BY <1>5, <2>4, <3>2 DEF HonestInv
  <2>7. CASE m.barrier # NoCell
    <3>1. InFlightWalls = {m.barrier} /\ Cardinality({m.barrier}) = 1
      BY <2>1, <2>7, FS_Singleton
    <3>2. /\ IsFiniteSet(barriers["thief"]) /\ m.barrier \notin barriers["thief"]
          /\ Cardinality(barriers["thief"]) = oppBarriers["thief"]
      BY <3>1 DEF HonestInv, Replicas
    <3>3. /\ IsFiniteSet(barriers["thief"] \cup {m.barrier})
          /\ Cardinality(barriers["thief"] \cup {m.barrier}) = oppBarriers["thief"] + 1
      BY <3>2, FS_AddElement
    <3>4. Replicas'
      BY <1>1, <2>3, <2>4, <2>5, <2>7, <3>1, <3>3 DEF HonestInv, Replicas
    <3>5. QED
      BY <1>5, <2>4, <3>4 DEF HonestInv
  <2>8. QED
    BY <2>6, <2>7
<1>8. QED
  BY <1>6, <1>7, Opponents

LEMMA HonestStep ==
  ASSUME TokenInv, HonestInv, ThresholdsAgree, [Next]_vars PROVE HonestInv'
<1> USE DEF own, gate, wire, ends
<1>1. ASSUME NEW p \in Role, TakeTurn(p) PROVE HonestInv'
  <2>1. PICK decision \in Decision : \E act \in Guarded(p, decision) : Play(p, act, FALSE)
    BY <1>1 DEF TakeTurn
  <2>2. PICK act \in Guarded(p, decision) : Play(p, act, FALSE)
    BY <2>1
  <2>3. act \in Decision /\ DecisionLegal(p, act)
    BY GuardedIsLegal DEF TokenInv
  <2>4. QED
    BY <1>1, <2>2, <2>3, HonestPlay DEF TakeTurn
<1>2. ASSUME NEW p \in Role, Concede(p) PROVE HonestInv'
  <2>1. Hold \in Decision /\ DecisionLegal(p, Hold)
    BY DEF Hold, Decision, Direction, DecisionLegal, BarrierTarget
  <2>2. QED
    BY <1>2, <2>1, HonestPlay DEF Concede
<1>3. ASSUME NEW p \in Role, RejectTurn(p) PROVE FALSE
  BY <1>3, NewIsValid DEF RejectTurn, Reading
<1>4. ASSUME NEW p \in Role, AcceptTurn(p) PROVE HonestInv'
  BY <1>4, HonestAccept
<1>5. ASSUME NEW p \in Role, Sent(p) PROVE HonestInv'
  <2>1. response'["police"] \in {response["police"], "none"}
    BY <1>5, Opponents DEF Sent, TokenInv, TypeOK
  <2>2. QED
    BY <1>5, <2>1, HonestKept DEF Sent
<1>6. ASSUME NEW p \in Role,
             Negotiate(p) \/ Agree(p) \/ TransportFails(p) \/ DropDuplicate(p)
               \/ Expire(p) \/ Crash(p) \/ SubmitAudit(p) \/ ReadAudit(p)
               \/ MissAudit(p) \/ Arrive(p) \/ ArriveAgain(p) \/ HandshakeFails(p)
      PROVE  HonestInv'
  BY <1>6, HonestKept
     DEF Negotiate, Agree, TransportFails, DropDuplicate, Expire, Crash,
         SubmitAudit, ReadAudit, MissAudit, Arrive, ArriveAgain, HandshakeFails
<1>7. CASE UNCHANGED vars
  BY <1>7, HonestKept DEF vars
<1>8. QED
  BY <1>1, <1>2, <1>3, <1>4, <1>5, <1>6, <1>7 DEF Next, Thread, Works, Network

LEMMA HonestInvariant ==
  ASSUME ThresholdsAgree PROVE Spec => [](TokenInv /\ HonestInv)
<1>1. Init => TokenInv /\ HonestInv
  BY TokenInit, HonestInit
<1>2. (TokenInv /\ HonestInv) /\ [Next]_vars => (TokenInv /\ HonestInv)'
  BY TokenStep, HonestStep
<1>3. QED
  BY <1>1, <1>2, PTL DEF Spec

\* No turn of a peer that runs this code is ever counted as illegal by the
\* other, under any repetition, delay or fault, if their thresholds agree.
THEOREM NeverRejected ==
  ASSUME ThresholdsAgree PROVE Spec => []HonestNeverRejected
<1>1. HonestInv => HonestNeverRejected
  BY DEF HonestInv, HonestNeverRejected
<1>2. QED
  BY <1>1, HonestInvariant, PTL

\* The two maps are the same but for the wall in flight, and the quota is
\* the number of walls that stand.
THEOREM ReplicasAgree ==
  ASSUME ThresholdsAgree PROVE Spec => []MapsAgree
<1>1. TokenInv /\ HonestInv => MapsAgree
  <2> SUFFICES ASSUME TokenInv, HonestInv PROVE MapsAgree
    OBVIOUS
  <2> DEFINE wall == post["police"].barrier
  <2>1. /\ IsFiniteSet(barriers["thief"])
        /\ barriers["police"] = barriers["thief"] \cup InFlightWalls
        /\ barriers["thief"] \cap InFlightWalls = {}
    BY DEF HonestInv, Replicas
  <2>2. InFlightWalls = {} \/ InFlightWalls = {wall}
    BY DEF InFlightWalls
  <2>3. Cardinality(barriers["police"]) =
          Cardinality(barriers["thief"]) + Cardinality(InFlightWalls)
    <3>1. CASE InFlightWalls = {}
      BY <2>1, <3>1, FS_EmptySet, FS_CardinalityType
    <3>2. CASE InFlightWalls = {wall}
      <4>1. wall \notin barriers["thief"] /\ barriers["police"] = barriers["thief"] \cup {wall}
        BY <2>1, <3>2
      <4> HIDE DEF wall
      <4>2. Cardinality(barriers["police"]) = Cardinality(barriers["thief"]) + 1
        BY <2>1, <4>1, FS_AddElement
      <4>3. QED
        BY <3>2, <4>2, FS_Singleton
    <3>3. QED
      BY <2>2, <3>1, <3>2
  <2>4. QED
    BY <2>1, <2>3 DEF HonestInv, Replicas, MapsAgree
<1>2. QED
  BY <1>1, HonestInvariant, PTL

-----------------------------------------------------------------------------
(* The audit.                                                               *)

LedgerInv == \A p \in Role : Ledger(p)

LEMMA SealedByAppend ==
  ASSUME NEW p \in Role, NEW log \in Seq(CommitOf), SealedBy(p, log),
         NEW n, n = Len(log) + 1, NEW c \in CommitOf, c = Commit(p, n)
  PROVE  SealedBy(p, Append(log, c)) /\ Len(Append(log, c)) = n
<1>1. /\ Len(Append(log, c)) = n /\ Len(log) \in Nat
      /\ \A s \in 1 .. Len(log) : Append(log, c)[s] = log[s]
      /\ Append(log, c)[n] = c
      /\ DOMAIN Append(log, c) = 1 .. n /\ DOMAIN log = 1 .. Len(log)
  BY AppendProperties
<1>2. ASSUME NEW s \in 1 .. n PROVE Append(log, c)[s] = Commit(p, s)
  <2>1. CASE s = n
    BY <1>1, <2>1
  <2>2. CASE s # n
    <3>1. s \in 1 .. Len(log)
      BY <1>1, <2>2
    <3>2. QED
      BY <1>1, <3>1 DEF SealedBy
  <2>3. QED
    BY <2>1, <2>2
<1>3. QED
  BY <1>1, <1>2 DEF SealedBy

LEMMA LedgerInit == Init => LedgerInv
BY DEF Init, Fresh, LedgerInv, Ledger, SealedBy

\* Nothing the ledger speaks of moves.
LEMMA LedgerKept ==
  ASSUME LedgerInv, UNCHANGED <<counter, lastStep, sealed, commits, post, audits, audit>>
  PROVE  LedgerInv'
BY DEF LedgerInv, Ledger, SealedBy

LEMMA LedgerPlay ==
  ASSUME TokenInv, LedgerInv, NEW p \in Role, NEW act, NEW concede, Play(p, act, concede)
  PROVE  LedgerInv'
<1> DEFINE step == counter[p] + 1
<1>1. /\ sealed' = [sealed EXCEPT ![p] = Sealed(p, step)]
      /\ counter' = [counter EXCEPT ![p] = step]
      /\ UNCHANGED <<lastStep, commits, audits, audit>>
      /\ \A r \in Role : r # p => post'[r] = post[r]
      /\ post'[p].commit = Commit(p, step)
  BY DEF Play, Apply, BarrierTarget, gate, ends, TokenInv, TypeOK
<1>2. /\ sealed[p] \in Seq(CommitOf) /\ step \in Nat /\ counter[p] \in Nat
      /\ Commit(p, step) \in CommitOf
  BY DEF TokenInv, TypeOK, Commit, CommitOf
<1>3. Len(sealed[p]) = counter[p] /\ SealedBy(p, sealed[p])
  BY DEF LedgerInv, Ledger
<1>4. SealedBy(p, Sealed(p, step)) /\ Len(Sealed(p, step)) = step
  BY <1>2, <1>3, SealedByAppend DEF Sealed
<1>5. /\ sealed'[p] = Sealed(p, step) /\ counter'[p] = step
      /\ \A r \in Role : r # p => sealed'[r] = sealed[r] /\ counter'[r] = counter[r]
  BY <1>1 DEF TokenInv, TypeOK
<1>6. Ledger(p)'
  BY <1>1, <1>4, <1>5 DEF LedgerInv, Ledger, SealedBy
<1>7. ASSUME NEW r \in Role, r # p PROVE Ledger(r)'
  BY <1>1, <1>5, <1>7 DEF LedgerInv, Ledger, SealedBy
<1>8. QED
  BY <1>6, <1>7 DEF LedgerInv

LEMMA LedgerAccept ==
  ASSUME TokenInv, LedgerInv, NEW p \in Role, AcceptTurn(p)
  PROVE  LedgerInv'
<1> DEFINE m == Head(inbox[p])
           q == Opponent(p)
<1>1. /\ inbox[p] # << >> /\ ~Duplicate(p, m) /\ Fold(p, m)
      /\ UNCHANGED <<counter, sealed, post, audits, audit>>
  BY DEF AcceptTurn, Reading, wire, ends
<1>2. /\ m = post[q] /\ m.step = lastStep[p] + 1 /\ m.step = counter[q]
      /\ m \in TurnMessage
  BY <1>1, HeadIsLatest
<1> HIDE DEF m
<1>3. /\ q \in Role /\ commits[p] \in Seq(CommitOf) /\ lastStep[p] \in Nat
      /\ m.commit \in CommitOf
  BY <1>2, Opponents DEF TokenInv, TypeOK, TurnMessage
<1>4. m.commit = Commit(q, m.step)
  BY <1>2, <1>3 DEF LedgerInv, Ledger
<1>5. /\ lastStep' = [lastStep EXCEPT ![p] = m.step]
      /\ commits' = [commits EXCEPT ![p] = Append(@, m.commit)]
  BY <1>1 DEF Fold
<1>6. /\ commits'[p] = Append(commits[p], m.commit) /\ lastStep'[p] = m.step
      /\ \A r \in Role : r # p => commits'[r] = commits[r] /\ lastStep'[r] = lastStep[r]
  BY <1>5 DEF TokenInv, TypeOK
<1>7. Len(commits[p]) = lastStep[p] /\ SealedBy(q, commits[p])
  BY DEF LedgerInv, Ledger
<1>8. SealedBy(q, commits'[p]) /\ Len(commits'[p]) = lastStep'[p]
  BY <1>2, <1>3, <1>4, <1>6, <1>7, SealedByAppend
<1>9. Ledger(p)'
  BY <1>1, <1>6, <1>8 DEF LedgerInv, Ledger, SealedBy
<1>10. ASSUME NEW r \in Role, r # p PROVE Ledger(r)'
  BY <1>1, <1>6, <1>10 DEF LedgerInv, Ledger, SealedBy
<1>11. QED
  BY <1>9, <1>10 DEF LedgerInv

\* The reveal of a peer that sealed what it sent is an honest one.
LEMMA RevealIsHonest ==
  ASSUME TokenInv, LedgerInv, NEW p \in Role
  PROVE  HonestReveal(p, AuditReveal(p))
<1>1. DOMAIN AuditReveal(p) = 1 .. Len(sealed[p]) + 1 /\ Len(sealed[p]) \in Nat
  BY RevealTyped DEF TokenInv, TypeOK
<1>2. SealedBy(p, sealed[p]) /\ DOMAIN sealed[p] = 1 .. Len(sealed[p])
  BY DEF LedgerInv, Ledger, TokenInv, TypeOK
<1>3. ASSUME NEW i \in DOMAIN AuditReveal(p)
      PROVE  /\ AuditReveal(p)[i].step \in Nat
             /\ AuditReveal(p)[i].commit = Commit(p, AuditReveal(p)[i].step)
             /\ AuditReveal(p)[i].recomputes = "yes"
  <2>1. /\ i \in 1 .. Len(sealed[p]) + 1
        /\ AuditReveal(p)[i].step = i - 1 /\ AuditReveal(p)[i].recomputes = "yes"
        /\ AuditReveal(p)[i].commit = IF i = 1 THEN Commit(p, 0) ELSE sealed[p][i - 1]
    BY <1>1, <1>3 DEF AuditReveal
  <2>2. i # 1 => i - 1 \in DOMAIN sealed[p]
    BY <1>1, <1>2, <2>1
  <2>3. i # 1 => sealed[p][i - 1] = Commit(p, i - 1)
    BY <1>2, <2>2 DEF SealedBy
  <2>4. i = 1 => i - 1 = 0
    OBVIOUS
  <2>5. i - 1 \in Nat
    BY <1>1, <2>1
  <2>6. QED
    BY <2>1, <2>3, <2>4, <2>5
<1>4. AuditReveal(p)[1].signature = "valid"
  BY <1>1 DEF AuditReveal
<1>5. QED
  BY <1>3, <1>4 DEF HonestReveal

\* No record of an honest reveal differs from a commit that was received live,
\* and nothing in it makes the audit raise.
LEMMA HonestReads ==
  ASSUME NEW p \in Role, SealedBy(Opponent(p), commits[p]),
         NEW payload, HonestReveal(Opponent(p), payload.records)
  PROVE  ~AuditRaises(p, payload) /\ ~Convicts(p, payload)
<1>1. ASSUME NEW r \in Revealed(payload)
      PROVE  /\ r.step \in Nat /\ r.recomputes = "yes"
             /\ r.commit = Commit(Opponent(p), r.step)
  BY <1>1 DEF Revealed, HonestReveal
<1>2. Mismatch(p, payload) = {}
  BY <1>1 DEF Mismatch, SealedBy
<1>3. Failed(p, payload) = {}
  BY <1>1, <1>2 DEF Failed
<1>4. payload.records # << >> => payload.records[1].signature = "valid"
  BY DEF HonestReveal
<1>5. ~DeclarationIs(p, payload, "raises") /\ ~DeclarationIs(p, payload, "invalid")
  BY <1>4 DEF DeclarationIs
<1>6. \A r \in Revealed(payload) : r.step # Nested /\ r.recomputes # "raises"
  BY <1>1 DEF Nested
<1>7. QED
  BY <1>3, <1>5, <1>6 DEF AuditRaises, Convicts

LEMMA LedgerSubmit ==
  ASSUME TokenInv, LedgerInv, NEW p \in Role, SubmitAudit(p)
  PROVE  LedgerInv'
<1> DEFINE q == Opponent(p)
           mine == [claim |-> result[p], records |-> AuditReveal(p)]
<1>1. /\ UNCHANGED <<counter, lastStep, sealed, commits, post, audit>>
      /\ audits' = audits \/ audits' = [audits EXCEPT ![q] = Append(@, mine)]
  BY DEF SubmitAudit, own, gate, wire
<1>2. /\ q \in Role /\ Opponent(q) = p /\ audits[q] \in Seq(AuditPayload)
      /\ mine \in AuditPayload /\ mine.records = AuditReveal(p)
  BY Opponents, RevealTyped DEF TokenInv, TypeOK, AuditPayload
<1>0. HonestReveal(p, mine.records)
  BY <1>2, RevealIsHonest
<1> HIDE DEF mine
<1>3. CASE audits' = [audits EXCEPT ![q] = Append(@, mine)]
  <2>1. /\ audits'[q] = Append(audits[q], mine)
        /\ \A r \in Role : r # q => audits'[r] = audits[r]
    BY <1>2, <1>3 DEF TokenInv, TypeOK
  <2>2. /\ DOMAIN audits'[q] = 1 .. Len(audits[q]) + 1 /\ Len(audits[q]) \in Nat
        /\ DOMAIN audits[q] = 1 .. Len(audits[q])
        /\ \A i \in 1 .. Len(audits[q]) : audits'[q][i] = audits[q][i]
        /\ audits'[q][Len(audits[q]) + 1] = mine
    BY <1>2, <2>1, AppendProperties
  <2>3. ASSUME NEW i \in DOMAIN audits'[q] PROVE HonestReveal(p, audits'[q][i].records)
    <3>1. CASE i \in 1 .. Len(audits[q])
      BY <1>2, <2>2, <3>1 DEF LedgerInv, Ledger
    <3>2. CASE i = Len(audits[q]) + 1
      BY <1>0, <1>2, <2>2, <3>2
    <3>3. QED
      BY <2>2, <2>3, <3>1, <3>2
  <2>4. Ledger(q)'
    BY <1>1, <1>2, <2>3 DEF LedgerInv, Ledger, SealedBy
  <2>5. ASSUME NEW r \in Role, r # q PROVE Ledger(r)'
    BY <1>1, <2>1, <2>5 DEF LedgerInv, Ledger, SealedBy
  <2>6. QED
    BY <2>4, <2>5 DEF LedgerInv
<1>4. QED
  BY <1>1, <1>3, LedgerKept

\* A reveal whose records are the sender's seals differs from no commit that
\* was received live.
LEMMA LedgerRead ==
  ASSUME TokenInv, LedgerInv, NEW p \in Role, ReadAudit(p)
  PROVE  LedgerInv'
<1> DEFINE q == Opponent(p)
           payload == Head(audits[p])
<1>1. /\ audits[p] # << >> /\ audits[p] \in Seq(AuditPayload)
      /\ audits' = [audits EXCEPT ![p] = Tail(@)]
      /\ UNCHANGED <<counter, lastStep, sealed, commits, post>>
  BY DEF ReadAudit, own, gate, wire, TokenInv, TypeOK
<1>2. /\ 1 \in DOMAIN audits[p] /\ payload = audits[p][1]
      /\ DOMAIN Tail(audits[p]) = 1 .. Len(audits[p]) - 1 /\ Len(audits[p]) \in Nat
      /\ DOMAIN audits[p] = 1 .. Len(audits[p])
      /\ \A i \in 1 .. Len(audits[p]) - 1 : Tail(audits[p])[i] = audits[p][i + 1]
  BY <1>1, HeadTailProperties
<1>3. ~AuditRaises(p, payload) /\ ~Convicts(p, payload)
  <2>1. SealedBy(q, commits[p]) /\ HonestReveal(q, payload.records)
    BY <1>2 DEF LedgerInv, Ledger
  <2>2. QED
    BY <2>1, HonestReads
<1>4. audit' = [audit EXCEPT ![p] = "passed"]
  BY <1>3 DEF ReadAudit
<1>5. /\ audits'[p] = Tail(audits[p]) /\ audit'[p] = "passed"
      /\ \A r \in Role : r # p => audits'[r] = audits[r] /\ audit'[r] = audit[r]
  BY <1>1, <1>4 DEF TokenInv, TypeOK
<1>6. ASSUME NEW i \in DOMAIN audits'[p] PROVE HonestReveal(q, audits'[p][i].records)
  <2>1. i + 1 \in DOMAIN audits[p] /\ audits'[p][i] = audits[p][i + 1]
    BY <1>2, <1>5, <1>6
  <2>2. QED
    BY <2>1 DEF LedgerInv, Ledger
<1>7. Ledger(p)'
  BY <1>1, <1>5, <1>6 DEF LedgerInv, Ledger, SealedBy
<1>8. ASSUME NEW r \in Role, r # p PROVE Ledger(r)'
  BY <1>1, <1>5, <1>8 DEF LedgerInv, Ledger, SealedBy
<1>9. QED
  BY <1>7, <1>8 DEF LedgerInv

LEMMA LedgerStep == ASSUME TokenInv, LedgerInv, [Next]_vars PROVE LedgerInv'
<1> USE DEF own, gate, wire, ends
<1>1. ASSUME NEW p \in Role, TakeTurn(p) \/ Concede(p) PROVE LedgerInv'
  BY <1>1, LedgerPlay DEF TakeTurn, Concede
<1>2. ASSUME NEW p \in Role, AcceptTurn(p) PROVE LedgerInv'
  BY <1>2, LedgerAccept
<1>3. ASSUME NEW p \in Role, SubmitAudit(p) PROVE LedgerInv'
  BY <1>3, LedgerSubmit
<1>4. ASSUME NEW p \in Role, ReadAudit(p) PROVE LedgerInv'
  BY <1>4, LedgerRead
<1>5. ASSUME NEW p \in Role, MissAudit(p) PROVE LedgerInv'
  BY <1>5 DEF MissAudit, LedgerInv, Ledger, SealedBy, TokenInv, TypeOK
<1>6. ASSUME NEW p \in Role,
             Negotiate(p) \/ Agree(p) \/ Sent(p) \/ TransportFails(p)
               \/ DropDuplicate(p) \/ RejectTurn(p) \/ Expire(p) \/ Crash(p)
               \/ Arrive(p) \/ ArriveAgain(p) \/ HandshakeFails(p)
      PROVE  LedgerInv'
  BY <1>6, LedgerKept
     DEF Negotiate, Agree, Sent, TransportFails, DropDuplicate, RejectTurn,
         Expire, Crash, Arrive, ArriveAgain, HandshakeFails
<1>7. CASE UNCHANGED vars
  BY <1>7, LedgerKept DEF vars
<1>8. QED
  BY <1>1, <1>2, <1>3, <1>4, <1>5, <1>6, <1>7 DEF Next, Thread, Works, Network

\* An audit that is read finds nothing wrong, and leaves the verdict alone.
LEMMA AuditIsQuiet ==
  ASSUME LedgerInv, NEW p \in Role, ReadAudit(p),
         audits[p] \in Seq(AuditPayload)
  PROVE  UNCHANGED <<result, raised>> /\ fsm' = [fsm EXCEPT ![p] = "DONE"]
<1> DEFINE theirs == Head(audits[p])
<1>1. 1 \in DOMAIN audits[p] /\ theirs = audits[p][1]
  BY HeadTailProperties DEF ReadAudit
<1>2. SealedBy(Opponent(p), commits[p]) /\ HonestReveal(Opponent(p), theirs.records)
  BY <1>1 DEF LedgerInv, Ledger
<1>3. ~AuditRaises(p, theirs) /\ ~Convicts(p, theirs)
  BY <1>2, HonestReads
<1>4. QED
  BY <1>3 DEF ReadAudit

\* Only a handshake makes a thread raise, and one that has raised is stuck.
LEMMA RaisedStep ==
  ASSUME TokenInv, LedgerInv, RaisedEarly, [Next]_vars PROVE RaisedEarly'
<1> USE DEF own, gate, wire, ends
<1>1. ASSUME NEW p \in Role, HandshakeFails(p) PROVE RaisedEarly'
  BY <1>1 DEF HandshakeFails, RaisedEarly, TokenInv, TypeOK
<1>2. ASSUME NEW p \in Role, ReadAudit(p) PROVE RaisedEarly'
  <2>1. UNCHANGED raised /\ fsm[p] = "AUDITING" /\ fsm' = [fsm EXCEPT ![p] = "DONE"]
    BY <1>2, AuditIsQuiet DEF ReadAudit, TokenInv, TypeOK
  <2>2. QED
    BY <2>1 DEF RaisedEarly, TokenInv, TypeOK
<1>3. ASSUME NEW p \in Role,
             Negotiate(p) \/ Agree(p) \/ TakeTurn(p) \/ Concede(p) \/ Sent(p)
               \/ TransportFails(p) \/ DropDuplicate(p) \/ RejectTurn(p)
               \/ AcceptTurn(p) \/ Expire(p) \/ Crash(p) \/ SubmitAudit(p)
               \/ MissAudit(p) \/ Arrive(p) \/ ArriveAgain(p)
      PROVE  RaisedEarly'
  <2>1. UNCHANGED raised
    BY <1>3 DEF Negotiate, Agree, TakeTurn, Concede, Play, Sent, TransportFails,
                DropDuplicate, RejectTurn, AcceptTurn, Expire, Crash, SubmitAudit,
                MissAudit, Arrive, ArriveAgain
  <2>2. fsm[p] = "NEGOTIATING" => ~raised[p] \/ UNCHANGED fsm
    BY <1>3 DEF Negotiate, Agree, TakeTurn, Concede, Play, Sent, TransportFails,
                DropDuplicate, RejectTurn, AcceptTurn, Reading, Expire, Crash,
                SubmitAudit, MissAudit, Arrive, ArriveAgain
  <2>3. UNCHANGED fsm \/ \E to : fsm' = [fsm EXCEPT ![p] = to]
    BY <1>3 DEF Negotiate, Agree, TakeTurn, Concede, Play, Sent, TransportFails,
                DropDuplicate, RejectTurn, AcceptTurn, Leave, Expire, Crash,
                SubmitAudit, MissAudit, Arrive, ArriveAgain
  <2>4. \A r \in Role : fsm'[r] = fsm[r] \/ r = p
    BY <2>3 DEF TokenInv, TypeOK
  <2>5. QED
    BY <2>1, <2>2, <2>4 DEF RaisedEarly
<1>4. CASE UNCHANGED vars
  BY <1>4 DEF vars, RaisedEarly
<1>5. QED
  BY <1>1, <1>2, <1>3, <1>4 DEF Next, Thread, Works, Network

\* A peer that reveals the log it sealed as it played is never convicted by
\* the other's audit, nor can it make that audit raise, however its turns and
\* its reveal travelled.
THEOREM HonestPassesAudit == Spec => []NeverForged
<1>1. Init => TokenInv /\ LedgerInv /\ RaisedEarly
  BY TokenInit, LedgerInit DEF Init, Fresh, RaisedEarly
<1>2. (TokenInv /\ LedgerInv /\ RaisedEarly) /\ [Next]_vars
        => (TokenInv /\ LedgerInv /\ RaisedEarly)'
  BY TokenStep, LedgerStep, RaisedStep
<1>3. LedgerInv /\ RaisedEarly => NeverForged
  BY DEF LedgerInv, Ledger, RaisedEarly, NeverForged
<1>4. QED
  BY <1>1, <1>2, <1>3, PTL DEF Spec

-----------------------------------------------------------------------------
(***************************************************************************)
(* What a recorded verdict is worth: a survival was earned on a clock, and  *)
(* a capture is one that the rules of the game call a capture.  That much   *)
(* assumes nothing of the two thresholds, and calls may fail; what needs    *)
(* more - that the two peers never award both wins, and that they record    *)
(* the same result - names what it needs.                                   *)
(***************************************************************************)

\* What taking a new turn off the inbox does, apart from the wall it folds.
LEMMA AcceptReadsLatest ==
  ASSUME TokenInv, NEW p \in Role, AcceptTurn(p)
  PROVE  LET m == Head(inbox[p]) q == Opponent(p) IN
         /\ m = post[q] /\ m.step = counter[q]
         /\ Fold(p, m)
         /\ fsm[p] = "OPP_TURN"
         /\ UNCHANGED <<pos, counter, post>>
         /\ \/ m.response = "caught" /\ Leave(p, "capture")
            \/ /\ m.win \/ CeilingReached(p, m)
               /\ Leave(p, "survival")
            \/ /\ m.response # "caught"
               /\ fsm' = [fsm EXCEPT ![p] = "MY_TURN"]
               /\ UNCHANGED result
<1> DEFINE m == Head(inbox[p])
<1>1. inbox[p] # << >> /\ ~Duplicate(p, m)
  BY DEF AcceptTurn, Reading
<1>2. m = post[Opponent(p)] /\ m.step = counter[Opponent(p)]
  BY <1>1, HeadIsLatest
<1> HIDE DEF m
<1>3. QED
  BY <1>2 DEF AcceptTurn, Reading, wire, m

-----------------------------------------------------------------------------
(* Survivals.                                                               *)

LEMMA EarnedInit == Init => EarnedInv
BY Opponents DEF Init, Fresh, EarnedInv, NoPost

\* A step that records no survival and composes no message.
LEMMA EarnedKept ==
  ASSUME TokenInv, EarnedInv, UNCHANGED <<counter, post>>,
         \A r \in Role : result'[r] = "survival" => result[r] = "survival" \/ Earned
  PROVE  EarnedInv'
BY DEF EarnedInv, Earned

\* The counters only grow, and a win claim is composed on the thief's clock.
LEMMA EarnedPlay ==
  ASSUME TokenInv, EarnedInv, NEW p \in Role, NEW act, NEW concede \in BOOLEAN,
         Play(p, act, concede)
  PROVE  EarnedInv'
<1> DEFINE step == counter[p] + 1
<1> HIDE DEF step
<1>1. /\ counter' = [counter EXCEPT ![p] = step]
      /\ UNCHANGED result
      /\ post'[p].win = (~concede /\ Survives(p, step))
      /\ \A r \in Role : r # p => post'[r] = post[r]
  BY DEF Play, Apply, BarrierTarget, TokenInv, TypeOK, step
<1>2. /\ \A r \in Role : counter[r] \in Nat /\ counter'[r] \in Nat
      /\ \A r \in Role : counter[r] <= counter'[r]
      /\ counter'[p] = step
  <2>1. counter \in [Role -> Nat] /\ step = counter[p] + 1 /\ step \in Nat
    BY DEF TokenInv, TypeOK, step
  <2>2. QED
    BY <1>1, <2>1
<1>3. SurvivalThreshold["thief"] \in Nat /\ MaxMoves \in Nat
  BY SubGameAssumption DEF Role
<1>4. Earned => Earned'
  BY <1>2, <1>3, Opponents DEF Earned
<1>5. ~post'["police"].win
  <2>1. CASE p = "police"
    <3>1. ~Survives(p, step)
      BY <2>1 DEF Survives
    <3>2. QED
      BY <1>1, <2>1, <3>1
  <2>2. CASE p # "police"
    BY <1>1, <2>2, Opponents DEF EarnedInv
  <2>3. QED
    BY <2>1, <2>2
<1>6. post'["thief"].win => counter'["thief"] >= SurvivalThreshold["thief"]
  <2>1. CASE p = "thief"
    BY <1>1, <1>2, <2>1 DEF Survives
  <2>2. CASE p = "police"
    BY <1>1, <1>2, <1>3, <2>2, Opponents DEF EarnedInv
  <2>3. QED
    BY <2>1, <2>2, Opponents
<1>7. QED
  BY <1>1, <1>4, <1>5, <1>6 DEF EarnedInv

LEMMA EarnedStep == ASSUME TokenInv, EarnedInv, [Next]_vars PROVE EarnedInv'
<1> USE DEF own, gate, wire, ends
<1>1. ASSUME NEW p \in Role, TakeTurn(p) \/ Concede(p) PROVE EarnedInv'
  BY <1>1, EarnedPlay DEF TakeTurn, Concede
<1>2. ASSUME NEW p \in Role, Sent(p) PROVE EarnedInv'
  <2>1. post[p].step = counter[p]
    BY Opponents DEF TokenInv, Delivered
  <2>2. post[p].win \/ Spent(p, post[p].step) => Earned
    BY <2>1, Opponents DEF EarnedInv, Earned, Spent
  <2>3. \A r \in Role : result'[r] = "survival" => result[r] = "survival" \/ Earned
    BY <1>2, <2>2 DEF Sent, Leave, TokenInv, TypeOK
  <2>4. QED
    BY <1>2, <2>3, EarnedKept DEF Sent
<1>3. ASSUME NEW p \in Role, AcceptTurn(p) PROVE EarnedInv'
  <2> DEFINE m == Head(inbox[p])
             q == Opponent(p)
  <2>1. /\ m = post[q] /\ m.step = counter[q]
        /\ UNCHANGED <<counter, post>>
        /\ \/ Leave(p, "capture")
           \/ (m.win \/ CeilingReached(p, m)) /\ Leave(p, "survival")
           \/ UNCHANGED result
    BY <1>3, AcceptReadsLatest
  <2> HIDE DEF m
  <2>2. m.win \/ CeilingReached(p, m) => Earned
    BY <2>1, Opponents DEF EarnedInv, Earned, CeilingReached, Spent
  <2>3. \A r \in Role : result'[r] = "survival" => result[r] = "survival" \/ Earned
    BY <2>1, <2>2 DEF Leave, TokenInv, TypeOK
  <2>4. QED
    BY <2>1, <2>3, EarnedKept
<1>4. ASSUME NEW p \in Role,
             Negotiate(p) \/ Agree(p) \/ TransportFails(p) \/ DropDuplicate(p)
               \/ RejectTurn(p) \/ Expire(p) \/ Crash(p) \/ SubmitAudit(p)
               \/ ReadAudit(p) \/ MissAudit(p) \/ Arrive(p) \/ ArriveAgain(p) \/ HandshakeFails(p)
      PROVE  EarnedInv'
  <2>1. \/ UNCHANGED result
        \/ result' = [result EXCEPT ![p] = "technical_loss"]
    BY <1>4 DEF Negotiate, Agree, TransportFails, DropDuplicate, RejectTurn, Expire,
                Crash, SubmitAudit, ReadAudit, MissAudit, Arrive, ArriveAgain, HandshakeFails, Leave
  <2>2. UNCHANGED <<counter, post>>
    BY <1>4 DEF Negotiate, Agree, TransportFails, DropDuplicate, RejectTurn, Expire,
                Crash, SubmitAudit, ReadAudit, MissAudit, Arrive, ArriveAgain, HandshakeFails
  <2>3. \A r \in Role : result'[r] = "survival" => result[r] = "survival"
    BY <2>1 DEF TokenInv, TypeOK
  <2>4. QED
    BY <2>2, <2>3, EarnedKept
<1>5. CASE UNCHANGED vars
  BY <1>5, EarnedKept DEF vars
<1>6. QED
  BY <1>1, <1>2, <1>3, <1>4, <1>5 DEF Next, Thread, Works, Network

\* No survival is recorded before the thief's own threshold or the cop's move
\* ceiling is reached, whoever records it and whatever their copies of the
\* threshold say.
THEOREM SurvivalEarned == Spec => []SurvivalIsEarned
<1>1. Init => TokenInv /\ EarnedInv
  BY TokenInit, EarnedInit
<1>2. (TokenInv /\ EarnedInv) /\ [Next]_vars => (TokenInv /\ EarnedInv)'
  BY TokenStep, EarnedStep
<1>3. EarnedInv => SurvivalIsEarned
  BY DEF EarnedInv, Earned, SurvivalIsEarned
<1>4. QED
  BY <1>1, <1>2, <1>3, PTL DEF Spec

-----------------------------------------------------------------------------
(* Captures.                                                                *)

LEMMA CornerInit == Init => CornerInv
BY Opponents DEF Init, Fresh, CornerInv, Conceded, NoPost

\* A step in which no peer plays or reads a turn.
LEMMA CornerKept ==
  ASSUME TokenInv, CornerInv, UNCHANGED <<pos, barriers, counter, lastStep, post>>,
         \A r \in Role : response'[r] \in {response[r], "none"},
         \A r \in Role : result'[r] = "capture" => result[r] = "capture" \/ Conceded,
         fsm'["police"] = "MY_TURN" => fsm["police"] = "MY_TURN",
         Conceded => fsm'["thief"] \in {"SENDING", "GAME_OVER", "AUDITING", "DONE"},
         response'["thief"] = "caught" =>
           fsm'["thief"] \notin {"BOOT", "NEGOTIATING", "OPP_TURN"}
  PROVE  CornerInv'
<1>1. (Cornered' <=> Cornered) /\ (Conceded' <=> Conceded)
  BY DEF Cornered, Conceded
<1>2. response'["thief"] = "caught" => response["thief"] = "caught"
  BY Opponents
<1>3. response'["police"] # "caught"
  BY Opponents DEF CornerInv
<1>4. QED
  BY <1>1, <1>2, <1>3 DEF CornerInv

\* While the thief is caught the cop does not hold the turn.
LEMMA CopWaitsForConcession ==
  ASSUME TokenInv, CornerInv, fsm["police"] = "MY_TURN"
  PROVE  response["thief"] # "caught" /\ ~Conceded
<1>1. ~Conceded
  BY DEF CornerInv
<1>2. /\ counter["thief"] = lastStep["police"]
      /\ counter["police"] + 1 = lastStep["police"]
      /\ lastStep["thief"] <= counter["police"]
  <2>1. TurnToken /\ "police" \in Role /\ "thief" \in Role /\ Clock("police")
    BY TokenIsTurnToken, Opponents DEF TokenInv
  <2>2. lastStep["police"] = counter["thief"] /\ lastStep["thief"] <= counter["police"]
    BY <2>1, Opponents DEF TurnToken
  <2>3. counter["police"] + 1 = lastStep["police"] + 0
    BY <2>1, Opponents DEF Clock
  <2>4. lastStep["police"] + 0 = lastStep["police"]
    BY <2>1 DEF TokenInv, TypeOK
  <2>5. QED
    BY <2>2, <2>3, <2>4
<1>3. \A r \in Role : counter[r] \in Nat /\ lastStep[r] \in Nat
  BY DEF TokenInv, TypeOK
<1>4. counter["thief"] # lastStep["thief"]
  BY <1>2, <1>3, Opponents
<1>5. QED
  BY <1>1, <1>4 DEF CornerInv

\* The thief's turn: an ordinary one is played by a thief nobody caught, and
\* a concession moves nothing.
LEMMA CornerThiefPlays ==
  ASSUME TokenInv, CornerInv, fsm["thief"] = "MY_TURN",
         NEW act, NEW concede \in BOOLEAN, Play("thief", act, concede),
         response["thief"] = "caught" => act = Hold
  PROVE  CornerInv'
<1>1. /\ ~Conceded
      /\ fsm["police"] # "MY_TURN"
  BY TokenIsTurnToken, Opponents DEF CornerInv, TurnToken
<1>2. /\ UNCHANGED <<response, result, lastStep>>
      /\ fsm'["thief"] = "SENDING" /\ fsm'["police"] = fsm["police"]
      /\ post'["thief"].response = response["thief"]
      /\ post'["police"] = post["police"]
      /\ pos'["police"] = pos["police"]
  <2>1. /\ UNCHANGED <<response, result, lastStep>>
        /\ fsm' = [fsm EXCEPT !["thief"] = "SENDING"]
        /\ post' = [post EXCEPT !["thief"] = post'["thief"]]
        /\ pos' = [pos EXCEPT !["thief"] = pos'["thief"]]
        /\ post'["thief"].response = Owed("thief")
    BY Opponents DEF Play, Apply, BarrierTarget, gate, TokenInv, TypeOK
  <2>2. QED
    BY <2>1, Opponents DEF Owed, TokenInv, TypeOK
<1>3. Conceded' <=> response["thief"] = "caught"
  BY <1>2 DEF Conceded
<1>4. CASE response["thief"] = "caught"
  <2>1. act = Hold /\ Cornered
    BY <1>4 DEF CornerInv
  <2>2. pos' = pos /\ barriers'["thief"] = barriers["thief"]
    BY <2>1, Opponents DEF Play, Apply, BarrierTarget, Hold, TokenInv, TypeOK
  <2>3. Cornered'
    BY <2>1, <2>2 DEF Cornered
  <2>4. QED
    BY <1>1, <1>2, <1>3, <2>3 DEF CornerInv
<1>5. CASE response["thief"] # "caught"
  BY <1>1, <1>2, <1>3, <1>5 DEF CornerInv
<1>6. QED
  BY <1>4, <1>5

\* The cop's turn: the cell it claims is the one it moved to.
LEMMA CornerCopPlays ==
  ASSUME TokenInv, CornerInv, fsm["police"] = "MY_TURN",
         NEW act, NEW concede \in BOOLEAN, Play("police", act, concede)
  PROVE  CornerInv'
<1>1. response["thief"] # "caught" /\ ~Conceded
  BY CopWaitsForConcession
<1>2. /\ UNCHANGED <<response, result>>
      /\ post'["thief"] = post["thief"]
      /\ post'["police"].response = response["police"]
      /\ post'["police"].claim # NoCell => post'["police"].claim = pos'["police"]
  BY Opponents DEF Play, Apply, BarrierTarget, Owed, TokenInv, TypeOK
<1>3. ~Conceded'
  BY <1>1, <1>2 DEF Conceded
<1>4. QED
  BY <1>1, <1>2, <1>3 DEF CornerInv

\* The thief answers "caught" only when, with the new wall on its map, it is.
LEMMA CornerThiefReads ==
  ASSUME TokenInv, CornerInv, AcceptTurn("thief")
  PROVE  CornerInv'
<1> DEFINE m == Head(inbox["thief"])
<1>1. /\ m = post["police"] /\ m.step = counter["police"]
      /\ Fold("thief", m)
      /\ fsm["thief"] = "OPP_TURN"
      /\ UNCHANGED <<pos, counter, post>>
      /\ \/ m.response = "caught" /\ Leave("thief", "capture")
         \/ Leave("thief", "survival")
         \/ /\ fsm' = [fsm EXCEPT !["thief"] = "MY_TURN"]
            /\ UNCHANGED result
  BY AcceptReadsLatest, Opponents
<1>2. m.step = lastStep["thief"] + 1
  <2>1. inbox["thief"] # << >> /\ ~Duplicate("thief", m)
    BY DEF AcceptTurn, Reading
  <2>2. QED
    BY <2>1, HeadIsLatest, Opponents
<1> HIDE DEF m
<1>3. ~Conceded /\ ~Conceded'
  BY <1>1 DEF CornerInv, Conceded
<1>4. /\ lastStep'["thief"] = m.step
      /\ barriers'["thief"] = Walls("thief", m)
      /\ response'["thief"] = AnswerTo("thief", m)
      /\ response'["police"] = response["police"]
  BY <1>1, Opponents DEF Fold, TokenInv, TypeOK
<1>5. counter'["thief"] = lastStep'["thief"]
  BY <1>1, <1>2, <1>4, Opponents DEF TokenInv, Clock
<1>6. ASSUME response'["thief"] = "caught" PROVE Cornered'
  <2>1. Caught("thief", m)
    BY <1>4, <1>6 DEF AnswerTo
  <2>2. CASE m.claim = pos["thief"]
    <3>1. m.claim # NoCell
      <4>1. pos["thief"] \in Cell
        BY Opponents DEF TokenInv, TypeOK
      <4>2. NoCell \notin Cell
        BY BoardAssumption DEF NoCell, Cell
      <4>3. QED
        BY <2>2, <4>1, <4>2
    <3>2. QED
      BY <1>1, <2>2, <3>1 DEF CornerInv, Cornered
  <2>3. CASE m.barrier # NoCell /\ m.barrier = pos["thief"]
    BY <1>1, <1>4, <2>3 DEF Walls, Cornered
  <2>4. CASE Jailed(pos["thief"], Walls("thief", m))
    BY <1>1, <1>4, <2>4 DEF Cornered
  <2>5. QED
    BY <2>1, <2>2, <2>3, <2>4 DEF Caught
<1>7. fsm'["thief"] \in {"GAME_OVER", "MY_TURN"}
  BY <1>1, Opponents DEF Leave, TokenInv, TypeOK
<1>8. \A r \in Role : result'[r] # "capture"
  BY <1>1, <1>3 DEF Leave, CornerInv, TokenInv, TypeOK
<1>9. QED
  BY <1>1, <1>3, <1>4, <1>5, <1>6, <1>7, <1>8 DEF CornerInv

\* The cop records a capture on the thief's word, and plays on without it.
LEMMA CornerCopReads ==
  ASSUME TokenInv, CornerInv, AcceptTurn("police")
  PROVE  CornerInv'
<1> DEFINE m == Head(inbox["police"])
<1>1. /\ m = post["thief"]
      /\ Fold("police", m)
      /\ UNCHANGED <<pos, counter, post>>
      /\ \/ m.response = "caught" /\ Leave("police", "capture")
         \/ Leave("police", "survival")
         \/ /\ m.response # "caught"
            /\ fsm' = [fsm EXCEPT !["police"] = "MY_TURN"]
            /\ UNCHANGED result
  BY AcceptReadsLatest, Opponents
<1> HIDE DEF m
<1>2. /\ lastStep'["thief"] = lastStep["thief"]
      /\ barriers'["thief"] = barriers["thief"]
      /\ response'["thief"] = response["thief"]
      /\ response'["police"] = AnswerTo("police", m)
      /\ fsm'["thief"] = fsm["thief"]
  BY <1>1, Opponents DEF Fold, Leave, TokenInv, TypeOK
<1>3. (Cornered' <=> Cornered) /\ (Conceded' <=> Conceded)
  BY <1>1, <1>2 DEF Cornered, Conceded
<1>4. response'["police"] # "caught"
  BY <1>2 DEF AnswerTo, Caught
<1>5. Conceded => fsm'["police"] # "MY_TURN"
  BY <1>1, Opponents DEF Conceded, Leave, TokenInv, TypeOK
<1>6. \A r \in Role : result'[r] = "capture" => result[r] = "capture" \/ Conceded
  BY <1>1 DEF Conceded, Leave, TokenInv, TypeOK
<1>7. QED
  BY <1>1, <1>2, <1>3, <1>4, <1>5, <1>6 DEF CornerInv

LEMMA CornerStep == ASSUME TokenInv, CornerInv, [Next]_vars PROVE CornerInv'
<1> USE DEF own, gate, wire, ends
<1>1. ASSUME NEW p \in Role, TakeTurn(p) \/ Concede(p) PROVE CornerInv'
  BY <1>1, CornerThiefPlays, CornerCopPlays, Opponents DEF TakeTurn, Concede
<1>2. ASSUME NEW p \in Role, AcceptTurn(p) PROVE CornerInv'
  BY <1>2, CornerThiefReads, CornerCopReads, Opponents
<1>3. ASSUME NEW p \in Role, Sent(p) PROVE CornerInv'
  <2>1. /\ UNCHANGED <<pos, barriers, counter, lastStep, post>>
        /\ response' = [response EXCEPT ![p] = "none"]
    BY <1>3 DEF Sent
  <2>2. \A r \in Role : result'[r] = "capture" => result[r] = "capture" \/ Conceded
    BY <1>3, Opponents DEF Sent, Leave, CornerInv, Conceded, TokenInv, TypeOK
  <2>3. fsm'[p] \in {"GAME_OVER", "OPP_TURN"} /\ \A r \in Role : r # p => fsm'[r] = fsm[r]
    BY <1>3 DEF Sent, Leave, TokenInv, TypeOK
  <2>4. Conceded => fsm'["thief"] \in {"SENDING", "GAME_OVER", "AUDITING", "DONE"}
    <3>1. CASE p = "thief"
      BY <1>3, <3>1 DEF Sent, Leave, Conceded, TokenInv, TypeOK
    <3>2. CASE p # "thief"
      BY <2>3, <3>2, Opponents DEF CornerInv
    <3>3. QED
      BY <3>1, <3>2
  <2>5. response'["thief"] = "caught" =>
          fsm'["thief"] \notin {"BOOT", "NEGOTIATING", "OPP_TURN"}
    BY <2>1, <2>3, Opponents DEF CornerInv, TokenInv, TypeOK
  <2>6. \A r \in Role : response'[r] \in {response[r], "none"}
    BY <2>1 DEF TokenInv, TypeOK
  <2>7. fsm'["police"] = "MY_TURN" => fsm["police"] = "MY_TURN"
    BY <2>3, Opponents
  <2>8. QED
    BY <2>1, <2>2, <2>4, <2>5, <2>6, <2>7, CornerKept
<1>4. ASSUME NEW p \in Role, Negotiate(p) \/ Agree(p) PROVE CornerInv'
  <2>1. UNCHANGED <<pos, barriers, counter, lastStep, post, response, result>>
    BY <1>4 DEF Negotiate, Agree
  <2>2. /\ fsm[p] \in {"BOOT", "NEGOTIATING"}
        /\ \A r \in Role : r # p => fsm'[r] = fsm[r]
    BY <1>4 DEF Negotiate, Agree, TokenInv, TypeOK
  <2>3. p = "police" => fsm'["police"] \in {"NEGOTIATING", "OPP_TURN"}
    BY <1>4 DEF Negotiate, Agree, FirstTurn, TokenInv, TypeOK
  <2>4. p = "thief" => response["thief"] # "caught" /\ ~Conceded
    BY <2>2 DEF CornerInv
  <2>5. QED
    BY <2>1, <2>2, <2>3, <2>4, Opponents, CornerKept DEF CornerInv
<1>5. ASSUME NEW p \in Role,
             TransportFails(p) \/ DropDuplicate(p) \/ RejectTurn(p) \/ Expire(p)
               \/ Crash(p) \/ SubmitAudit(p) \/ ReadAudit(p) \/ MissAudit(p)
               \/ Arrive(p) \/ ArriveAgain(p) \/ HandshakeFails(p)
      PROVE  CornerInv'
  <2>1. UNCHANGED <<pos, barriers, counter, lastStep, post, response>>
    BY <1>5 DEF TransportFails, DropDuplicate, RejectTurn, Expire, Crash,
                SubmitAudit, ReadAudit, MissAudit, Arrive, ArriveAgain, HandshakeFails
  <2>2. UNCHANGED result \/ result' = [result EXCEPT ![p] = "technical_loss"]
    BY <1>5 DEF TransportFails, DropDuplicate, RejectTurn, Expire, Crash,
                SubmitAudit, ReadAudit, MissAudit, Arrive, ArriveAgain, HandshakeFails, Leave
  <2>3. \/ UNCHANGED fsm
        \/ \E to \in {"GAME_OVER", "AUDITING", "DONE"} : fsm' = [fsm EXCEPT ![p] = to]
    BY <1>5 DEF TransportFails, DropDuplicate, RejectTurn, Expire, Crash,
                SubmitAudit, ReadAudit, MissAudit, Arrive, ArriveAgain, HandshakeFails, Leave
  <2>4. \A r \in Role : fsm'[r] = fsm[r] \/ fsm'[r] \in {"GAME_OVER", "AUDITING", "DONE"}
    BY <2>3 DEF TokenInv, TypeOK
  <2>5. \A r \in Role : result'[r] = "capture" => result[r] = "capture"
    BY <2>2 DEF TokenInv, TypeOK
  <2>6. QED
    BY <2>1, <2>4, <2>5, Opponents, CornerKept DEF CornerInv
<1>6. CASE UNCHANGED vars
  BY <1>6, CornerKept DEF vars, CornerInv
<1>7. QED
  BY <1>1, <1>2, <1>3, <1>4, <1>5, <1>6 DEF Next, Thread, Works, Network

\* No peer ever records a capture of a thief that stands free: from the turn
\* that catches it to the end of the sub-game, nothing frees it again.
THEOREM CaptureReal == Spec => []CaptureIsReal
<1>1. Init => TokenInv /\ CornerInv
  BY TokenInit, CornerInit
<1>2. (TokenInv /\ CornerInv) /\ [Next]_vars => (TokenInv /\ CornerInv)'
  BY TokenStep, CornerStep
<1>3. CornerInv => CaptureIsReal
  BY DEF CornerInv, Cornered, CaptureIsReal
<1>4. QED
  BY <1>1, <1>2, <1>3, PTL DEF Spec

-----------------------------------------------------------------------------
(* Jailing is seen when it happens.                                         *)

\* The way back along a direction.
Reversed == [N |-> "S", S |-> "N", E |-> "W", W |-> "E", STAY |-> "STAY"]

\* Every move of the negotiated set can be taken back.
MovesAreReversible == \A dir \in Direction : InMoveSet(dir) => InMoveSet(Reversed[dir])

\* A cell entered by a legal move has a way out: the cell it was entered from.
LEMMA WayBack ==
  ASSUME MovesAreReversible, NEW cell \in Cell, NEW walls, cell \notin walls,
         NEW dir \in Direction, StepLegal(cell, dir, walls), ~Jailed(cell, walls)
  PROVE  ~Jailed(Shift(cell, dir), walls)
<1>1. /\ Reversed[dir] \in Direction /\ InMoveSet(Reversed[dir])
      /\ dir # "STAY" => Reversed[dir] # "STAY"
  BY DEF MovesAreReversible, StepLegal, Reversed, Direction
<1>2. cell[1] \in Int /\ cell[2] \in Int /\ cell = <<cell[1], cell[2]>>
  BY BoardAssumption DEF Cell
<1>3. /\ Delta[dir][1] \in Int /\ Delta[dir][2] \in Int
      /\ Delta[Reversed[dir]][1] = 0 - Delta[dir][1]
      /\ Delta[Reversed[dir]][2] = 0 - Delta[dir][2]
      /\ dir = "STAY" => Delta[dir][1] = 0 /\ Delta[dir][2] = 0
  BY DEF Delta, Reversed, Direction
<1>4. CASE dir = "STAY"
  <2>1. Shift(cell, dir) = cell
    BY <1>2, <1>3, <1>4 DEF Shift
  <2>2. QED
    BY <2>1
<1>5. CASE dir # "STAY"
  <2>1. Shift(Shift(cell, dir), Reversed[dir]) = cell
    <3>1. Shift(cell, dir)[1] = cell[1] + Delta[dir][1]
          /\ Shift(cell, dir)[2] = cell[2] + Delta[dir][2]
      BY DEF Shift
    <3>2. Shift(Shift(cell, dir), Reversed[dir]) =
            <<Shift(cell, dir)[1] + Delta[Reversed[dir]][1],
              Shift(cell, dir)[2] + Delta[Reversed[dir]][2]>>
      BY DEF Shift
    <3>3. QED
      BY <1>2, <1>3, <3>1, <3>2
  <2>2. Reversed[dir] \in LegalMoves(Shift(cell, dir), walls)
    BY <1>1, <2>1 DEF LegalMoves, StepLegal
  <2>3. QED
    BY <1>1, <1>5, <2>2 DEF Jailed
<1>6. QED
  BY <1>4, <1>5

LEMMA ExitInit == ASSUME ~Jailed(ThiefStart, {}), Init PROVE ExitInv
<1>1. pos["thief"] = ThiefStart /\ barriers["thief"] = {}
  BY Opponents DEF Init, Fresh
<1>2. QED
  BY <1>1 DEF ExitInv

\* The thief's own turn: a free thief that moves can move back.
LEMMA ExitThiefPlays ==
  ASSUME MovesAreReversible, TokenInv, CornerInv, ExitInv, fsm["thief"] = "MY_TURN",
         NEW act \in Decision, DecisionLegal("thief", act),
         NEW concede \in BOOLEAN, Play("thief", act, concede)
  PROVE  ExitInv'
<1>1. /\ response' = response /\ post'["thief"].response = response["thief"]
      /\ barriers'["thief"] = barriers["thief"]
      /\ pos'["thief"] = IF act.type = "MOVE" THEN Shift(pos["thief"], act.dir) ELSE pos["thief"]
  <2>1. act.type # "BARRIER"
    BY Opponents DEF DecisionLegal
  <2>2. QED
    BY <2>1, Opponents DEF Play, Apply, Owed, TokenInv, TypeOK
<1>2. ~Conceded
  BY DEF CornerInv
<1>3. CASE response["thief"] = "caught"
  BY <1>1, <1>3 DEF ExitInv
<1>4. CASE response["thief"] # "caught" /\ act.type # "MOVE"
  BY <1>1, <1>2, <1>4 DEF ExitInv
<1>5. CASE response["thief"] # "caught" /\ act.type = "MOVE"
  <2>1. /\ StepLegal(pos["thief"], act.dir, barriers["thief"])
        /\ act.dir \in Direction /\ pos["thief"] \in Cell
    BY <1>5, Opponents DEF DecisionLegal, Decision, TokenInv, TypeOK
  <2>2. /\ pos["thief"] \notin barriers["thief"]
        /\ ~Jailed(pos["thief"], barriers["thief"])
    BY <1>2, <1>5 DEF ExitInv
  <2>3. ~Jailed(Shift(pos["thief"], act.dir), barriers["thief"])
    BY <2>1, <2>2, WayBack
  <2>4. Shift(pos["thief"], act.dir) \notin barriers["thief"]
    BY <2>1 DEF StepLegal
  <2>5. QED
    BY <1>1, <1>5, <2>3, <2>4 DEF ExitInv
<1>6. QED
  BY <1>3, <1>4, <1>5

\* The thief reads a wall: it owes "caught" when the wall jails it.
LEMMA ExitThiefReads ==
  ASSUME TokenInv, CornerInv, ExitInv, AcceptTurn("thief")
  PROVE  ExitInv'
<1> DEFINE m == Head(inbox["thief"])
<1>1. /\ Fold("thief", m) /\ fsm["thief"] = "OPP_TURN" /\ UNCHANGED pos
  BY AcceptReadsLatest, Opponents
<1> HIDE DEF m
<1>2. /\ barriers'["thief"] = Walls("thief", m)
      /\ response'["thief"] = AnswerTo("thief", m)
  BY <1>1, Opponents DEF Fold, TokenInv, TypeOK
<1>3. response["thief"] # "caught" /\ ~Conceded
  BY <1>1 DEF CornerInv
<1>4. CASE Caught("thief", m)
  BY <1>2, <1>4 DEF AnswerTo, ExitInv
<1>5. CASE ~Caught("thief", m)
  <2>1. /\ pos["thief"] \notin barriers["thief"]
        /\ ~Jailed(pos["thief"], barriers["thief"])
    BY <1>3 DEF ExitInv
  <2>2. CASE m.barrier = NoCell
    <3>1. Walls("thief", m) = barriers["thief"]
      BY <2>2 DEF Walls
    <3>2. QED
      BY <1>1, <1>2, <2>1, <3>1 DEF ExitInv
  <2>3. CASE m.barrier # NoCell
    <3>1. m.barrier # pos["thief"] /\ ~Jailed(pos["thief"], Walls("thief", m))
      BY <1>5, <2>3 DEF Caught
    <3>2. pos["thief"] \notin Walls("thief", m)
      BY <2>1, <3>1 DEF Walls
    <3>3. QED
      BY <1>1, <1>2, <3>1, <3>2 DEF ExitInv
  <2>4. QED
    BY <2>2, <2>3
<1>6. QED
  BY <1>4, <1>5

\* No other step moves the thief, changes its map or forgives it.
LEMMA ExitKept ==
  ASSUME ExitInv, pos'["thief"] = pos["thief"], barriers'["thief"] = barriers["thief"],
         response["thief"] = "caught" => response'["thief"] = "caught" \/ Conceded,
         Conceded => Conceded'
  PROVE  ExitInv'
BY DEF ExitInv

LEMMA ExitStep ==
  ASSUME MovesAreReversible, TokenInv, CornerInv, ExitInv, [Next]_vars
  PROVE  ExitInv'
<1> USE DEF own, gate, wire, ends
<1>1. ASSUME NEW p \in Role, TakeTurn(p) \/ Concede(p) PROVE ExitInv'
  <2>1. PICK act \in Decision, concede \in BOOLEAN :
          DecisionLegal(p, act) /\ Play(p, act, concede)
    <3>1. CASE TakeTurn(p)
      <4>1. PICK decision \in Decision : \E act \in Guarded(p, decision) : Play(p, act, FALSE)
        BY <3>1 DEF TakeTurn
      <4>2. QED
        BY <4>1, GuardedIsLegal
    <3>2. CASE Concede(p)
      <4>1. Hold \in Decision /\ DecisionLegal(p, Hold)
        BY DEF Hold, Decision, Direction, DecisionLegal, BarrierTarget
      <4>2. QED
        BY <3>2, <4>1 DEF Concede
    <3>3. QED
      BY <1>1, <3>1, <3>2
  <2>2. fsm[p] = "MY_TURN"
    BY <1>1 DEF TakeTurn, Concede
  <2>3. CASE p = "thief"
    BY <2>1, <2>2, <2>3, ExitThiefPlays
  <2>4. CASE p = "police"
    <3>1. /\ pos'["thief"] = pos["thief"] /\ barriers'["thief"] = barriers["thief"]
          /\ response' = response /\ post'["thief"] = post["thief"]
      BY <2>1, <2>4, Opponents DEF Play, Apply, TokenInv, TypeOK
    <3>2. QED
      BY <3>1, ExitKept DEF Conceded
  <2>5. QED
    BY <2>3, <2>4, Opponents
<1>2. ASSUME NEW p \in Role, AcceptTurn(p) PROVE ExitInv'
  <2>1. CASE p = "thief"
    BY <1>2, <2>1, ExitThiefReads
  <2>2. CASE p = "police"
    <3>1. Fold("police", Head(inbox["police"])) /\ UNCHANGED <<pos, post>>
      BY <1>2, <2>2 DEF AcceptTurn
    <3>2. /\ pos'["thief"] = pos["thief"] /\ barriers'["thief"] = barriers["thief"]
          /\ response'["thief"] = response["thief"] /\ post' = post
      BY <3>1, Opponents DEF Fold, TokenInv, TypeOK
    <3>3. QED
      BY <3>2, ExitKept DEF Conceded
  <2>3. QED
    BY <2>1, <2>2, Opponents
<1>3. ASSUME NEW p \in Role, Sent(p) PROVE ExitInv'
  <2>1. UNCHANGED <<pos, barriers, post>> /\ response' = [response EXCEPT ![p] = "none"]
    BY <1>3 DEF Sent
  <2>2. response["thief"] = "caught" => response'["thief"] = "caught" \/ Conceded
    <3>1. CASE p = "police"
      BY <2>1, <3>1, Opponents DEF TokenInv, TypeOK
    <3>2. CASE p = "thief"
      <4>1. fsm["thief"] = "SENDING" /\ Clock("thief")
        BY <1>3, <3>2, Opponents DEF Sent, TokenInv
      <4>2. counter["thief"] = lastStep["thief"] + 1 /\ lastStep["thief"] \in Nat
        BY <4>1, Opponents DEF Clock, TokenInv, TypeOK
      <4>3. QED
        BY <4>2 DEF CornerInv
    <3>3. QED
      BY <3>1, <3>2, Opponents
  <2>3. QED
    BY <2>1, <2>2, ExitKept DEF Conceded
<1>4. ASSUME NEW p \in Role,
             Negotiate(p) \/ Agree(p) \/ TransportFails(p) \/ DropDuplicate(p)
               \/ RejectTurn(p) \/ Expire(p) \/ Crash(p) \/ SubmitAudit(p)
               \/ ReadAudit(p) \/ MissAudit(p) \/ Arrive(p) \/ ArriveAgain(p) \/ HandshakeFails(p)
      PROVE  ExitInv'
  <2>1. UNCHANGED <<pos, barriers, post, response>>
    BY <1>4 DEF Negotiate, Agree, TransportFails, DropDuplicate, RejectTurn, Expire,
                Crash, SubmitAudit, ReadAudit, MissAudit, Arrive, ArriveAgain, HandshakeFails
  <2>2. QED
    BY <2>1, ExitKept DEF Conceded
<1>5. CASE UNCHANGED vars
  BY <1>5, ExitKept DEF vars, Conceded
<1>6. QED
  BY <1>1, <1>2, <1>3, <1>4, <1>5 DEF Next, Thread, Works, Network

\* A thief asked to move always has a way out, though it looks for one only
\* when a wall is declared: if the move set holds the way back of every
\* direction it holds, and the thief's start is no jail.
THEOREM JailIsSeen ==
  ASSUME MovesAreReversible, ~Jailed(ThiefStart, {})
  PROVE  Spec => []ThiefHasExit
<1>1. Init => TokenInv /\ CornerInv /\ ExitInv
  BY TokenInit, CornerInit, ExitInit
<1>2. (TokenInv /\ CornerInv /\ ExitInv) /\ [Next]_vars
        => (TokenInv /\ CornerInv /\ ExitInv)'
  BY TokenStep, CornerStep, ExitStep
<1>3. TokenInv /\ CornerInv /\ ExitInv => ThiefHasExit
  BY DEF CornerInv, ExitInv, ThiefHasExit
<1>4. QED
  BY <1>1, <1>2, <1>3, PTL DEF Spec

-----------------------------------------------------------------------------
(* No opposed verdicts.                                                     *)

\* The cop's ceiling is no lower than the thief's threshold, as in both
\* configurations the repository ships (game.json: 35 and 35).
CeilingIsHigh == SurvivalThreshold["thief"] <= MaxMoves

LEMMA ClaimInit == Init => ClaimInv
BY Opponents DEF Init, Fresh, ClaimInv, NoPost

\* Each message carries its number, and all counts are numbers.
LEMMA PostNumbered ==
  ASSUME TokenInv, NEW p \in Role
  PROVE  post[p].step = counter[p] /\ counter[p] \in Nat
BY Opponents DEF TokenInv, Delivered, TypeOK

\* A step in which nobody plays: the survivals recorded are the thief's claim.
LEMMA ClaimKept ==
  ASSUME TokenInv, ClaimInv, UNCHANGED <<counter, post>>,
         \A r \in Role : result'[r] = "survival" => result[r] = "survival" \/ post["thief"].win,
         post["thief"].win => /\ fsm'["thief"] \in {"SENDING", "GAME_OVER", "AUDITING", "DONE"}
                              /\ fsm'["police"] # "MY_TURN",
         fsm'["police"] = "SENDING" => fsm["police"] = "SENDING"
  PROVE  ClaimInv'
BY DEF ClaimInv, Conceded

\* The thief's turn, when nothing of its own is pending.
LEMMA ClaimThiefPlays ==
  ASSUME TokenInv, ClaimInv, fsm["thief"] = "MY_TURN",
         NEW act, NEW concede \in BOOLEAN, Play("thief", act, concede),
         concede <=> response["thief"] = "caught"
  PROVE  ClaimInv'
<1> DEFINE step == counter["thief"] + 1
<1>1. /\ UNCHANGED result /\ fsm'["thief"] = "SENDING" /\ fsm'["police"] = fsm["police"]
      /\ counter'["thief"] = step /\ counter'["police"] = counter["police"]
      /\ post'["thief"].response = response["thief"]
  BY Opponents DEF Play, Apply, Owed, TokenInv, TypeOK
<1>2. post'["thief"].win = (~concede /\ Survives("thief", step))
  BY Opponents DEF Play, TokenInv, TypeOK
<1>3. fsm["police"] # "MY_TURN"
  BY TokenIsTurnToken, Opponents DEF TurnToken
<1>4. \A r \in Role : result[r] # "survival"
  <2>1. post["thief"].win => fsm["thief"] \in {"SENDING", "GAME_OVER", "AUDITING", "DONE"}
    BY DEF ClaimInv
  <2>2. ~post["thief"].win
    BY <2>1
  <2>3. QED
    BY <2>2 DEF ClaimInv
<1>5. step \in Nat /\ SurvivalThreshold["thief"] \in Nat
  <2>1. "thief" \in Role
    BY Opponents
  <2>2. counter["thief"] \in Nat
    BY <2>1 DEF TokenInv, TypeOK
  <2>3. SurvivalThreshold["thief"] \in Nat
    BY <2>1, SubGameAssumption
  <2>4. QED
    BY <2>2, <2>3
<1> HIDE DEF step
<1>6. Conceded' <=> concede
  BY <1>1 DEF Conceded
<1>7. post'["thief"].win <=> ~concede /\ step >= SurvivalThreshold["thief"]
  BY <1>2 DEF Survives
<1>8. post'["thief"].win \/ Conceded' \/ step < SurvivalThreshold["thief"]
  BY <1>5, <1>6, <1>7
<1>9. post'["thief"].win => ~Conceded'
  BY <1>6, <1>7
<1>10. QED
  BY <1>1, <1>3, <1>4, <1>8, <1>9 DEF ClaimInv

\* The cop's turn: it answers a turn that neither claimed nor conceded, so
\* its own count is still below the thief's threshold.
LEMMA ClaimCopPlays ==
  ASSUME TokenInv, CornerInv, ClaimInv, fsm["police"] = "MY_TURN",
         NEW act, NEW concede \in BOOLEAN, Play("police", act, concede)
  PROVE  ClaimInv'
<1>1. ~Conceded /\ ~post["thief"].win
  BY CopWaitsForConcession DEF ClaimInv
<1>2. /\ counter["police"] + 1 = counter["thief"]
      /\ counter["thief"] \in Nat /\ counter["police"] \in Nat
  <2>1. TurnToken /\ "police" \in Role /\ "thief" \in Role /\ Clock("police")
    BY TokenIsTurnToken, Opponents DEF TokenInv
  <2>2. lastStep["police"] = counter["thief"] /\ lastStep["police"] \in Nat
    BY <2>1, Opponents DEF TurnToken, TokenInv, TypeOK
  <2>3. counter["police"] + 1 = lastStep["police"] + 0
    BY <2>1, Opponents DEF Clock
  <2>4. counter["thief"] \in Nat /\ counter["police"] \in Nat
    BY Opponents DEF TokenInv, TypeOK
  <2>5. QED
    BY <2>2, <2>3, <2>4
<1>3. counter["thief"] < SurvivalThreshold["thief"]
  BY <1>1, <1>2 DEF ClaimInv
<1>4. /\ UNCHANGED result /\ post'["thief"] = post["thief"]
      /\ counter'["thief"] = counter["thief"]
      /\ counter'["police"] = counter["police"] + 1
  BY Opponents DEF Play, TokenInv, TypeOK
<1>5. Conceded' <=> Conceded
  BY <1>4 DEF Conceded
<1>6. counter'["police"] < SurvivalThreshold["thief"] /\ counter'["police"] > 0
  BY <1>2, <1>3, <1>4
<1>7. QED
  BY <1>1, <1>3, <1>4, <1>5, <1>6 DEF ClaimInv

\* The cop never gets to its ceiling.
LEMMA CeilingIsFar ==
  ASSUME CeilingIsHigh, TokenInv, ClaimInv, counter["police"] > 0
  PROVE  ~Spent("police", counter["police"])
<1>1. counter["police"] \in Nat /\ MaxMoves \in Nat /\ SurvivalThreshold["thief"] \in Nat
  BY SubGameAssumption, Opponents DEF TokenInv, TypeOK
<1>2. QED
  BY <1>1 DEF CeilingIsHigh, ClaimInv, Spent

\* The ack: a survival that is recorded is the thief's claim.
LEMMA ClaimSent ==
  ASSUME CeilingIsHigh, TokenInv, EarnedInv, ClaimInv, NEW p \in Role, Sent(p)
  PROVE  ClaimInv'
<1>1. UNCHANGED <<counter, post>> /\ fsm[p] = "SENDING"
  BY DEF Sent, own, wire
<1>2. /\ fsm'[p] \in {"GAME_OVER", "OPP_TURN"}
      /\ post[p].win => fsm'[p] = "GAME_OVER" \/ post[p].response = "caught"
      /\ \A r \in Role : r # p => fsm'[r] = fsm[r]
  BY DEF Sent, Leave, TokenInv, TypeOK
<1>3. ASSUME NEW r \in Role, result'[r] = "survival"
      PROVE  result[r] = "survival" \/ post["thief"].win
  <2>1. result'[r] = result[r] \/ post[p].win \/ Spent(p, post[p].step)
    BY <1>3 DEF Sent, Leave, TokenInv, TypeOK
  <2>2. CASE p = "thief"
    BY <1>3, <2>1, <2>2 DEF Spent
  <2>3. CASE p = "police"
    <3>1. post["police"].step = counter["police"] /\ counter["police"] > 0
      BY <1>1, <2>3, PostNumbered DEF ClaimInv
    <3>2. ~post["police"].win /\ ~Spent("police", post["police"].step)
      BY <3>1, CeilingIsFar DEF EarnedInv
    <3>3. QED
      BY <1>3, <2>1, <2>3, <3>2
  <2>4. QED
    BY <2>2, <2>3, Opponents
<1>4. post["thief"].win => /\ fsm'["thief"] \in {"SENDING", "GAME_OVER", "AUDITING", "DONE"}
                           /\ fsm'["police"] # "MY_TURN"
  BY <1>2, Opponents DEF ClaimInv, Conceded
<1>5. fsm'["police"] = "SENDING" => fsm["police"] = "SENDING"
  BY <1>2, Opponents
<1>6. QED
  BY <1>1, <1>3, <1>4, <1>5, ClaimKept

\* A turn read: the cop records the survival the thief claims, and the thief
\* never sees the cop at its ceiling.
LEMMA ClaimAccept ==
  ASSUME CeilingIsHigh, TokenInv, EarnedInv, ClaimInv, NEW p \in Role, AcceptTurn(p)
  PROVE  ClaimInv'
<1> DEFINE m == Head(inbox[p])
           q == Opponent(p)
<1>1. /\ m = post[q] /\ m.step = counter[q] /\ fsm[p] = "OPP_TURN"
      /\ UNCHANGED <<counter, post>>
      /\ \/ Leave(p, "capture")
         \/ (m.win \/ CeilingReached(p, m)) /\ Leave(p, "survival")
         \/ fsm' = [fsm EXCEPT ![p] = "MY_TURN"] /\ UNCHANGED result
  BY AcceptReadsLatest
<1>2. /\ m.win => m.response = "caught" \/ fsm'[p] = "GAME_OVER"
      /\ m.step \in Nat /\ m.step > 0
  <2>1. inbox[p] # << >> /\ ~Duplicate(p, m)
    BY DEF AcceptTurn, Reading
  <2>2. m.step = lastStep[p] + 1 /\ lastStep[p] \in Nat
    BY <2>1, HeadIsLatest DEF TokenInv, TypeOK
  <2>3. m.win => m.response = "caught" \/ fsm'[p] = "GAME_OVER"
    BY DEF AcceptTurn, Leave, TokenInv, TypeOK
  <2>4. QED
    BY <2>2, <2>3
<1> HIDE DEF m
<1>3. /\ fsm'[p] \in {"GAME_OVER", "MY_TURN"}
      /\ \A r \in Role : r # p => fsm'[r] = fsm[r]
  BY <1>1 DEF Leave, TokenInv, TypeOK
<1>4. CASE p = "thief"
  <2>1. q = "police" /\ ~post["thief"].win
    BY <1>1, <1>4, Opponents DEF ClaimInv
  <2>2. ~m.win /\ ~CeilingReached(p, m)
    <3>1. ~Spent("police", counter["police"])
      BY <1>1, <1>2, <2>1, CeilingIsFar
    <3>2. QED
      BY <1>1, <2>1, <3>1 DEF CeilingReached, EarnedInv
  <2>3. \A r \in Role : result'[r] = "survival" => result[r] = "survival"
    BY <1>1, <2>2 DEF Leave, TokenInv, TypeOK
  <2>4. QED
    BY <1>1, <1>3, <1>4, <2>1, <2>3, Opponents, ClaimKept
<1>5. CASE p = "police"
  <2>1. q = "thief" /\ m = post["thief"]
    BY <1>1, <1>5, Opponents
  <2>2. ~CeilingReached(p, m)
    BY <2>1 DEF CeilingReached, Spent
  <2>3. \A r \in Role :
          result'[r] = "survival" => result[r] = "survival" \/ post["thief"].win
    BY <1>1, <2>1, <2>2 DEF Leave, TokenInv, TypeOK
  <2>4. post["thief"].win => fsm'["police"] = "GAME_OVER"
    BY <1>2, <1>5, <2>1 DEF ClaimInv, Conceded
  <2>5. fsm'["thief"] = fsm["thief"]
    BY <1>3, <1>5, Opponents
  <2>6. post["thief"].win => /\ fsm'["thief"] \in {"SENDING", "GAME_OVER", "AUDITING", "DONE"}
                             /\ fsm'["police"] # "MY_TURN"
    BY <2>4, <2>5 DEF ClaimInv
  <2>7. fsm'["police"] # "SENDING"
    BY <1>3, <1>5
  <2>8. QED
    BY <1>1, <2>3, <2>6, <2>7, ClaimKept
<1>6. QED
  BY <1>4, <1>5, Opponents

LEMMA ClaimStep ==
  ASSUME CeilingIsHigh, TokenInv, EarnedInv, CornerInv, ClaimInv, [Next]_vars
  PROVE  ClaimInv'
<1> USE DEF own, gate, wire, ends
<1>1. ASSUME NEW p \in Role, TakeTurn(p) \/ Concede(p) PROVE ClaimInv'
  <2>1. CASE TakeTurn(p)
    <3>1. PICK decision \in Decision : \E act \in Guarded(p, decision) : Play(p, act, FALSE)
      BY <2>1 DEF TakeTurn
    <3>2. PICK act \in Guarded(p, decision) : Play(p, act, FALSE)
      BY <3>1
    <3>3. fsm[p] = "MY_TURN" /\ (FALSE <=> response[p] = "caught")
      BY <2>1 DEF TakeTurn
    <3>4. QED
      BY <3>2, <3>3, ClaimThiefPlays, ClaimCopPlays, Opponents
  <2>2. CASE Concede(p)
    <3>1. fsm[p] = "MY_TURN" /\ Play(p, Hold, TRUE) /\ (TRUE <=> response[p] = "caught")
      BY <2>2 DEF Concede
    <3>2. QED
      BY <3>1, ClaimThiefPlays, ClaimCopPlays, Opponents
  <2>3. QED
    BY <1>1, <2>1, <2>2
<1>2. ASSUME NEW p \in Role, AcceptTurn(p) PROVE ClaimInv'
  BY <1>2, ClaimAccept
<1>3. ASSUME NEW p \in Role, Sent(p) PROVE ClaimInv'
  BY <1>3, ClaimSent
<1>4. ASSUME NEW p \in Role, Negotiate(p) \/ Agree(p) PROVE ClaimInv'
  <2>1. UNCHANGED <<counter, post, result>>
    BY <1>4 DEF Negotiate, Agree
  <2>2. /\ fsm[p] \in {"BOOT", "NEGOTIATING"}
        /\ \A r \in Role : r # p => fsm'[r] = fsm[r]
        /\ p = "police" => fsm'["police"] \in {"NEGOTIATING", "OPP_TURN"}
    BY <1>4 DEF Negotiate, Agree, FirstTurn, TokenInv, TypeOK
  <2>3. post["thief"].win => p = "police"
    BY <2>2, Opponents DEF ClaimInv
  <2>4. fsm'["police"] = "SENDING" => fsm["police"] = "SENDING"
    BY <2>2, Opponents
  <2>5. post["thief"].win => /\ fsm'["thief"] \in {"SENDING", "GAME_OVER", "AUDITING", "DONE"}
                             /\ fsm'["police"] # "MY_TURN"
    BY <2>2, <2>3, Opponents DEF ClaimInv
  <2>6. QED
    BY <2>1, <2>4, <2>5, ClaimKept
<1>5. ASSUME NEW p \in Role,
             TransportFails(p) \/ DropDuplicate(p) \/ RejectTurn(p) \/ Expire(p)
               \/ Crash(p) \/ SubmitAudit(p) \/ ReadAudit(p) \/ MissAudit(p)
               \/ Arrive(p) \/ ArriveAgain(p) \/ HandshakeFails(p)
      PROVE  ClaimInv'
  <2>1. UNCHANGED <<counter, post>>
    BY <1>5 DEF TransportFails, DropDuplicate, RejectTurn, Expire, Crash,
                SubmitAudit, ReadAudit, MissAudit, Arrive, ArriveAgain, HandshakeFails
  <2>2. UNCHANGED result \/ result' = [result EXCEPT ![p] = "technical_loss"]
    BY <1>5 DEF TransportFails, DropDuplicate, RejectTurn, Expire, Crash,
                SubmitAudit, ReadAudit, MissAudit, Arrive, ArriveAgain, HandshakeFails, Leave
  <2>3. \/ UNCHANGED fsm
        \/ \E to \in {"GAME_OVER", "AUDITING", "DONE"} : fsm' = [fsm EXCEPT ![p] = to]
    BY <1>5 DEF TransportFails, DropDuplicate, RejectTurn, Expire, Crash,
                SubmitAudit, ReadAudit, MissAudit, Arrive, ArriveAgain, HandshakeFails, Leave
  <2>4. \A r \in Role : fsm'[r] = fsm[r] \/ fsm'[r] \in {"GAME_OVER", "AUDITING", "DONE"}
    BY <2>3 DEF TokenInv, TypeOK
  <2>5. \A r \in Role : result'[r] = "survival" => result[r] = "survival"
    BY <2>2 DEF TokenInv, TypeOK
  <2>6. fsm'["police"] = "SENDING" => fsm["police"] = "SENDING"
    BY <2>4, Opponents
  <2>7. post["thief"].win => /\ fsm'["thief"] \in {"SENDING", "GAME_OVER", "AUDITING", "DONE"}
                             /\ fsm'["police"] # "MY_TURN"
    BY <2>4, Opponents DEF ClaimInv
  <2>8. QED
    BY <2>1, <2>5, <2>6, <2>7, ClaimKept
<1>6. CASE UNCHANGED vars
  BY <1>6, ClaimKept DEF vars, ClaimInv
<1>7. QED
  BY <1>1, <1>2, <1>3, <1>4, <1>5, <1>6 DEF Next, Thread, Works, Network

LEMMA ClaimInvariant ==
  ASSUME CeilingIsHigh
  PROVE  Spec => [](TokenInv /\ EarnedInv /\ CornerInv /\ ClaimInv)
<1>1. Init => TokenInv /\ EarnedInv /\ CornerInv /\ ClaimInv
  BY TokenInit, EarnedInit, CornerInit, ClaimInit
<1>2. (TokenInv /\ EarnedInv /\ CornerInv /\ ClaimInv) /\ [Next]_vars
        => (TokenInv /\ EarnedInv /\ CornerInv /\ ClaimInv)'
  BY TokenStep, EarnedStep, CornerStep, ClaimStep
<1>3. QED
  BY <1>1, <1>2, PTL DEF Spec

\* The two settlements never award both wins, if the cop's ceiling is no lower
\* than the thief's threshold: a capture is the thief's concession and a
\* survival its claim, and it never sends both.
THEOREM OneWinner ==
  ASSUME CeilingIsHigh PROVE Spec => []NoOpposedVerdicts
<1>1. CornerInv /\ ClaimInv => NoOpposedVerdicts
  <2> SUFFICES ASSUME CornerInv, ClaimInv PROVE NoOpposedVerdicts
    OBVIOUS
  <2>1. \A p \in Role : result[p] = "capture" => Conceded
    BY DEF CornerInv
  <2>2. \A p \in Role : result[p] = "survival" => ~Conceded
    BY DEF ClaimInv
  <2>3. QED
    BY <2>1, <2>2, Opponents DEF NoOpposedVerdicts
<1>2. QED
  BY <1>1, ClaimInvariant, PTL
-----------------------------------------------------------------------------
(* Agreement on the outcome, where nothing fails.                           *)

Reliable == Faults = FALSE /\ ThresholdsAgree /\ CeilingIsHigh

\* All that was proved so far.
Sound == /\ TokenInv /\ HonestInv /\ LedgerInv
         /\ EarnedInv /\ CornerInv /\ ClaimInv

LEMMA AgreeInit == Init => AgreeInv
<1> SUFFICES ASSUME Init PROVE AgreeInv
  OBVIOUS
<1>1. \A p \in Role : ~Left(p) /\ result[p] = "none"
  BY DEF Init, Fresh, Left
<1>2. ~LastWord /\ ~arrived["thief"]
  BY Opponents DEF Init, Fresh, LastWord, Conceded, NoPost
<1>3. QED
  BY <1>1, <1>2 DEF AgreeInv

\* Nobody enters or leaves the endings, and no verdict changes.
SameEnds == \A r \in Role : (Left(r)' <=> Left(r)) /\ result'[r] = result[r]

\* A step in which no turn is played, read or delivered for the first time.
LEMMA AgreeKept ==
  ASSUME AgreeInv, SameEnds, UNCHANGED <<lastStep, counter, post, arrived>>,
         lastStep["police"] < counter["thief"] /\ Pending => Pending'
  PROVE  AgreeInv'
<1>1. LastWord' <=> LastWord
  BY DEF LastWord, Conceded
<1>2. QED
  BY <1>1, Opponents DEF AgreeInv, SameEnds

\* A verdict rests on the thief's last word.
LEMMA LeftOnLastWord ==
  ASSUME Sound, AgreeInv, NEW p \in Role, Left(p)
  PROVE  LastWord /\ fsm["thief"] \in {"SENDING", "GAME_OVER", "AUDITING", "DONE"}
<1>1. result[p] = "capture" \/ result[p] = "survival"
  BY DEF AgreeInv
<1>2. Conceded \/ post["thief"].win
  BY <1>1 DEF Sound, CornerInv, ClaimInv
<1>3. QED
  BY <1>2 DEF Sound, CornerInv, ClaimInv, LastWord

\* No deadline ever runs out: a peer is not left waiting for one that is gone.
LEMMA NoExpiry ==
  ASSUME Reliable, Sound, AgreeInv, NEW p \in Role
  PROVE  ~Expire(p)
<1> SUFFICES ASSUME Expire(p) PROVE FALSE
  OBVIOUS
<1> DEFINE q == Opponent(p)
<1>1. /\ fsm[p] = "OPP_TURN" /\ inbox[p] = << >>
      /\ Left(q) /\ (counter[q] > 0 => arrived[q]) /\ q \in Role
  BY Opponents DEF Expire, DeadlinePassed, Orphaned, Reliable, Left
<1>2. LastWord /\ fsm["thief"] # "OPP_TURN"
  BY <1>1, LeftOnLastWord
<1>3. p = "police" /\ q = "thief"
  BY <1>1, <1>2, Opponents
<1>4. ~Left("police") /\ arrived["thief"]
  BY <1>1, <1>2, <1>3 DEF Left, AgreeInv
<1>5. ~Pending
  BY <1>1, <1>3 DEF Pending
<1>6. /\ lastStep["police"] <= counter["thief"]
      /\ lastStep["police"] \in Nat /\ counter["thief"] \in Nat
  <2>1. \A r \in Role : counter[r] \in Nat /\ lastStep[r] \in Nat /\ Delivered(r)
    BY DEF Sound, TokenInv, TypeOK
  <2>2. Delivered("police") => lastStep["police"] <= counter["thief"]
    BY Opponents DEF Delivered
  <2>3. QED
    BY <2>1, <2>2, Opponents
<1>7. QED
  BY <1>2, <1>4, <1>5, <1>6 DEF AgreeInv

LEMMA AgreePlay ==
  ASSUME Sound, AgreeInv, NEW p \in Role, NEW act, NEW concede, fsm[p] = "MY_TURN",
         Play(p, act, concede)
  PROVE  AgreeInv'
<1>1. /\ fsm' = [fsm EXCEPT ![p] = "SENDING"] /\ UNCHANGED <<result, lastStep, inbox>>
      /\ counter' = [counter EXCEPT ![p] = counter[p] + 1]
      /\ arrived' = [arrived EXCEPT ![p] = FALSE]
      /\ \A r \in Role : r # p => post'[r] = post[r]
  BY DEF Play, gate, Sound, TokenInv, TypeOK
<1>2. SameEnds
  BY <1>1 DEF SameEnds, Left, Sound, TokenInv, TypeOK
<1>3. CASE p = "thief"
  <2>1. /\ counter["thief"] \in Nat /\ lastStep["police"] \in Nat
        /\ lastStep["police"] <= counter["thief"]
    BY Opponents DEF Sound, TokenInv, TypeOK, Delivered
  <2>2. counter'["thief"] = counter["thief"] + 1 /\ ~arrived'["thief"]
    BY <1>1, <1>3, Opponents DEF Sound, TokenInv, TypeOK
  <2>3. lastStep'["police"] # counter'["thief"] /\ counter'["thief"] > 0
    BY <1>1, <2>1, <2>2
  <2>4. QED
    BY <1>2, <2>2, <2>3 DEF AgreeInv, SameEnds
<1>4. CASE p = "police"
  <2>1. /\ counter'["thief"] = counter["thief"] /\ post'["thief"] = post["thief"]
        /\ (arrived'["thief"] <=> arrived["thief"])
    BY <1>1, <1>4, Opponents DEF Sound, TokenInv, TypeOK
  <2>2. (LastWord' <=> LastWord) /\ (Pending' <=> Pending)
    BY <1>1, <2>1 DEF LastWord, Conceded, Pending
  <2>3. QED
    BY <1>1, <1>2, <2>1, <2>2, Opponents DEF AgreeInv, SameEnds
<1>5. QED
  BY <1>3, <1>4, Opponents

\* The ack: the thief leaves on its own last word, the cop never does.
LEMMA AgreeSent ==
  ASSUME Reliable, Sound, AgreeInv, NEW p \in Role, Sent(p)
  PROVE  AgreeInv'
<1>1. /\ UNCHANGED <<lastStep, counter, post, arrived, inbox>> /\ fsm[p] = "SENDING"
      /\ \/ post[p].response = "caught" /\ Leave(p, "capture")
         \/ /\ post[p].win \/ Spent(p, post[p].step)
            /\ Leave(p, "survival")
         \/ fsm' = [fsm EXCEPT ![p] = "OPP_TURN"] /\ UNCHANGED result
  BY DEF Sent, own, gate, wire
<1>2. (LastWord' <=> LastWord) /\ (Pending' <=> Pending)
  BY <1>1 DEF LastWord, Conceded, Pending
<1>3. CASE p = "thief"
  <2>1. IF Left(p)' THEN result'[p] \in {"capture", "survival"} ELSE result'[p] = "none"
    BY <1>1 DEF Leave, Left, AgreeInv, Sound, TokenInv, TypeOK
  <2>2. /\ (Left("police")' <=> Left("police")) /\ result'["police"] = result["police"]
    BY <1>1, <1>3, Opponents DEF Leave, Left, Sound, TokenInv, TypeOK
  <2>3. QED
    BY <1>1, <1>2, <1>3, <2>1, <2>2, Opponents DEF AgreeInv
<1>4. CASE p = "police"
  <2>1. ~Spent("police", counter["police"]) /\ post["police"].step = counter["police"]
    BY <1>1, <1>4, CeilingIsFar, PostNumbered DEF Reliable, Sound, ClaimInv
  <2>2. fsm' = [fsm EXCEPT ![p] = "OPP_TURN"] /\ UNCHANGED result
    BY <1>1, <1>4, <2>1 DEF Sound, CornerInv, EarnedInv
  <2>3. SameEnds
    BY <1>1, <2>2 DEF SameEnds, Left, Sound, TokenInv, TypeOK
  <2>4. QED
    BY <1>1, <1>2, <2>3, AgreeKept
<1>5. QED
  BY <1>3, <1>4, Opponents

\* A turn read: the cop leaves exactly on the thief's last word, the thief on
\* nothing it reads.
LEMMA AgreeAccept ==
  ASSUME Reliable, Sound, AgreeInv, NEW p \in Role, AcceptTurn(p)
  PROVE  AgreeInv'
<1> DEFINE m == Head(inbox[p])
           q == Opponent(p)
<1>1. /\ m = post[q] /\ m.step = counter[q] /\ Fold(p, m) /\ fsm[p] = "OPP_TURN"
      /\ UNCHANGED <<counter, post>>
  BY AcceptReadsLatest DEF Sound
<1>2. \/ m.response = "caught" /\ Leave(p, "capture")
      \/ (m.win \/ CeilingReached(p, m)) /\ Leave(p, "survival")
      \/ /\ m.response # "caught" /\ ~m.win
         /\ fsm' = [fsm EXCEPT ![p] = "MY_TURN"] /\ UNCHANGED result
  BY DEF AcceptTurn
<1>3. UNCHANGED arrived /\ Take(p) /\ m.step = lastStep[p] + 1
  <2>1. inbox[p] # << >> /\ ~Duplicate(p, m) /\ Take(p) /\ UNCHANGED arrived
    BY DEF AcceptTurn, Reading, wire
  <2>2. QED
    BY <2>1, HeadIsLatest DEF Sound
<1> HIDE DEF m
<1>4. LastWord' <=> LastWord
  BY <1>1 DEF LastWord, Conceded
<1>5. \A r \in Role : counter[r] \in Nat /\ lastStep[r] \in Nat
  BY DEF Sound, TokenInv, TypeOK
<1>6. CASE p = "thief"
  <2>1. q = "police" /\ counter["police"] > 0
    <3>1. q = "police"
      BY <1>6, Opponents
    <3>2. m.step = counter["police"]
      BY <1>1, <3>1
    <3>3. counter["police"] \in Nat /\ lastStep["thief"] \in Nat
      BY <1>5, Opponents
    <3>4. QED
      BY <1>3, <1>6, <3>1, <3>2, <3>3
  <2>2. ~Spent("police", m.step)
    BY <1>1, <2>1, CeilingIsFar DEF Reliable, Sound
  <2>3. m.response # "caught" /\ ~m.win /\ ~CeilingReached(p, m)
    BY <1>1, <2>1, <2>2 DEF Sound, CornerInv, EarnedInv, CeilingReached
  <2>4. fsm' = [fsm EXCEPT ![p] = "MY_TURN"] /\ UNCHANGED result
    BY <1>2, <2>3
  <2>5. SameEnds
    BY <1>1, <2>4 DEF SameEnds, Left, Sound, TokenInv, TypeOK
  <2>6. lastStep'["police"] = lastStep["police"] /\ inbox'["police"] = inbox["police"]
    BY <1>1, <1>3, <1>6, Opponents DEF Fold, Take, Sound, TokenInv, TypeOK
  <2>7. Pending' <=> Pending
    BY <1>1, <2>6 DEF Pending
  <2>8. QED
    BY <1>1, <1>3, <1>4, <2>5, <2>6, <2>7, Opponents DEF AgreeInv, SameEnds
<1>7. CASE p = "police"
  <2>1. q = "thief" /\ m = post["thief"] /\ lastStep'["police"] = counter["thief"]
    BY <1>1, <1>7, Opponents DEF Fold, Sound, TokenInv, TypeOK
  <2>2. ~CeilingReached(p, m)
    BY <2>1 DEF CeilingReached, Spent
  <2>3. LastWord => Left("police")'
    BY <1>2, <1>7, <2>1 DEF LastWord, Conceded, Leave, Left, Sound, TokenInv, TypeOK
  <2>4. IF Left(p)' THEN result'[p] \in {"capture", "survival"} ELSE result'[p] = "none"
    BY <1>1, <1>2 DEF Leave, Left, AgreeInv, Sound, TokenInv, TypeOK
  <2>5. (Left("thief")' <=> Left("thief")) /\ result'["thief"] = result["thief"]
    BY <1>2, <1>7, Opponents DEF Leave, Left, Sound, TokenInv, TypeOK
  <2>6. ~(lastStep'["police"] < counter'["thief"])
    BY <1>1, <1>5, <2>1, Opponents
  <2>7. QED
    BY <1>1, <1>4, <1>7, <2>3, <2>4, <2>5, <2>6, Opponents DEF AgreeInv
<1>8. QED
  BY <1>6, <1>7, Opponents

\* A copy more in an inbox hides nothing that waits there.
LEMMA AppendKeepsPending ==
  ASSUME Sound, NEW p \in Role, NEW copy \in TurnMessage, counter' = counter,
         inbox' = [inbox EXCEPT ![Opponent(p)] = Append(@, copy)]
  PROVE  /\ Pending => Pending'
         /\ p = "thief" /\ copy.step = counter["thief"] => Pending'
<1>1. inbox["police"] \in Seq(TurnMessage) /\ Len(inbox["police"]) \in Nat
  BY Opponents DEF Sound, TokenInv, TypeOK
<1>2. CASE p = "thief"
  <2>1. inbox'["police"] = Append(inbox["police"], copy)
    BY <1>2, Opponents DEF Sound, TokenInv, TypeOK
  <2>2. /\ Len(inbox'["police"]) = Len(inbox["police"]) + 1
        /\ \A i \in 1 .. Len(inbox["police"]) : inbox'["police"][i] = inbox["police"][i]
        /\ inbox'["police"][Len(inbox["police"]) + 1] = copy
    BY <1>1, <2>1, AppendProperties
  <2>3. Pending => Pending'
    BY <1>1, <2>2 DEF Pending
  <2>4. copy.step = counter["thief"] => Pending'
    BY <1>1, <2>2 DEF Pending
  <2>5. QED
    BY <2>3, <2>4
<1>3. CASE p = "police"
  <2>1. inbox'["police"] = inbox["police"]
    BY <1>3, Opponents DEF Sound, TokenInv, TypeOK
  <2>2. QED
    BY <1>3, <2>1 DEF Pending
<1>4. QED
  BY <1>2, <1>3, Opponents

\* What is dropped from an inbox was read before, so it is not what waits.
LEMMA DropKeepsPending ==
  ASSUME Sound, NEW p \in Role, DropDuplicate(p),
         lastStep["police"] < counter["thief"], Pending
  PROVE  Pending'
<1>1. /\ inbox[p] # << >> /\ Take(p) /\ Duplicate(p, Head(inbox[p])) /\ counter' = counter
  BY DEF DropDuplicate, Reading, own
<1>2. /\ \A r \in Role : r # p => inbox'[r] = inbox[r]
      /\ Len(inbox'[p]) = Len(inbox[p]) - 1
      /\ \A i \in 1 .. Len(inbox'[p]) : inbox'[p][i] = inbox[p][i + 1]
  BY <1>1, TakeKeepsRest DEF Sound
<1>3. CASE p = "thief"
  <2>1. inbox'["police"] = inbox["police"]
    BY <1>2, <1>3, Opponents
  <2>2. QED
    BY <1>1, <2>1 DEF Pending
<1>4. CASE p = "police"
  <2>1. PICK i \in 1 .. Len(inbox["police"]) : inbox["police"][i].step = counter["thief"]
    BY DEF Pending
  <2>2. /\ Head(inbox["police"]) = inbox["police"][1] /\ Len(inbox["police"]) \in Nat
        /\ lastStep["police"] \in Nat /\ counter["thief"] \in Nat
    BY <1>1, <1>4, Opponents DEF Sound, TokenInv, TypeOK
  <2>3. i # 1
    BY <1>1, <1>4, <2>1, <2>2 DEF Duplicate
  <2>4. /\ i - 1 \in 1 .. Len(inbox'["police"])
        /\ inbox'["police"][i - 1] = inbox["police"][i]
    BY <1>2, <1>4, <2>1, <2>2, <2>3
  <2>5. inbox'["police"][i - 1].step = counter'["thief"]
    BY <1>1, <2>1, <2>4
  <2>6. QED
    BY <2>4, <2>5 DEF Pending
<1>5. QED
  BY <1>3, <1>4, Opponents

LEMMA AgreeStep ==
  ASSUME Reliable, Sound, AgreeInv, [Next]_vars
  PROVE  AgreeInv'
<1> USE DEF own, gate, wire, ends
<1>1. ASSUME NEW p \in Role, TakeTurn(p) \/ Concede(p) PROVE AgreeInv'
  BY <1>1, AgreePlay DEF TakeTurn, Concede
<1>2. ASSUME NEW p \in Role, Sent(p) PROVE AgreeInv'
  BY <1>2, AgreeSent
<1>3. ASSUME NEW p \in Role, AcceptTurn(p) PROVE AgreeInv'
  BY <1>3, AgreeAccept
<1>4. ASSUME NEW p \in Role,
             \/ TransportFails(p) \/ Crash(p) \/ MissAudit(p) \/ HandshakeFails(p)
             \/ Expire(p) \/ RejectTurn(p)
      PROVE  FALSE
  <2>1. ~TransportFails(p) /\ ~Crash(p) /\ ~MissAudit(p) /\ ~HandshakeFails(p)
    BY DEF Reliable, TransportFails, Crash, MissAudit, HandshakeFails
  <2>2. ~RejectTurn(p)
    BY NewIsValid DEF Reliable, Sound, RejectTurn, Reading
  <2>3. QED
    BY <1>4, <2>1, <2>2, NoExpiry
<1>5. ASSUME NEW p \in Role, Arrive(p) PROVE AgreeInv'
  <2>1. /\ UNCHANGED <<fsm, result, lastStep, counter, post>>
        /\ inbox' = [inbox EXCEPT ![Opponent(p)] = Append(@, post[p])]
        /\ arrived' = [arrived EXCEPT ![p] = TRUE]
    BY <1>5 DEF Arrive
  <2>2. post[p] \in TurnMessage /\ post[p].step = counter[p]
    BY PostNumbered DEF Sound, TokenInv, TypeOK
  <2>3. /\ Pending => Pending'
        /\ p = "thief" => Pending'
    BY <2>1, <2>2, AppendKeepsPending
  <2>4. p = "police" => (arrived'["thief"] <=> arrived["thief"])
    BY <2>1, Opponents DEF Sound, TokenInv, TypeOK
  <2>5. (LastWord' <=> LastWord) /\ SameEnds
    BY <2>1 DEF LastWord, Conceded, SameEnds, Left
  <2>6. QED
    BY <2>1, <2>3, <2>4, <2>5, Opponents DEF AgreeInv, SameEnds
<1>6. ASSUME NEW p \in Role, ArriveAgain(p) PROVE AgreeInv'
  <2>1. UNCHANGED <<fsm, result, lastStep, counter, post, arrived>>
    BY <1>6 DEF ArriveAgain
  <2>2. PICK s \in 1 .. counter[p] :
          inbox' = [inbox EXCEPT ![Opponent(p)] = Append(@, [post[p] EXCEPT !.step = s])]
    BY <1>6 DEF ArriveAgain
  <2> DEFINE copy == [post[p] EXCEPT !.step = s]
  <2>3. s \in Nat /\ post[p] \in TurnMessage
    BY DEF Sound, TokenInv, TypeOK
  <2>4. copy \in TurnMessage
    BY <2>3 DEF TurnMessage
  <2> HIDE DEF copy
  <2>5. inbox' = [inbox EXCEPT ![Opponent(p)] = Append(@, copy)]
    BY <2>2 DEF copy
  <2>6. Pending => Pending'
    BY <2>1, <2>4, <2>5, AppendKeepsPending
  <2>7. SameEnds
    BY <2>1 DEF SameEnds, Left
  <2>8. QED
    BY <2>1, <2>6, <2>7, AgreeKept
<1>7. ASSUME NEW p \in Role, DropDuplicate(p) PROVE AgreeInv'
  <2>1. UNCHANGED <<fsm, result, lastStep, counter, post, arrived>>
    BY <1>7 DEF DropDuplicate
  <2>2. SameEnds
    BY <2>1 DEF SameEnds, Left
  <2>3. lastStep["police"] < counter["thief"] /\ Pending => Pending'
    BY <1>7, DropKeepsPending
  <2>4. QED
    BY <2>1, <2>2, <2>3, AgreeKept
<1>8. ASSUME NEW p \in Role,
             Negotiate(p) \/ Agree(p) \/ SubmitAudit(p) \/ ReadAudit(p)
      PROVE  AgreeInv'
  <2>1. UNCHANGED <<lastStep, counter, post, arrived, inbox>>
    BY <1>8 DEF Negotiate, Agree, SubmitAudit, ReadAudit
  <2>2. UNCHANGED result
    BY <1>8, AuditIsQuiet DEF Negotiate, Agree, SubmitAudit, Sound, TokenInv, TypeOK
  <2>3. /\ \A r \in Role : r # p => fsm'[r] = fsm[r]
        /\ \/ fsm[p] \in {"BOOT", "NEGOTIATING"} /\ fsm'[p] \in {"NEGOTIATING", "MY_TURN", "OPP_TURN"}
           \/ fsm[p] \in {"GAME_OVER", "AUDITING"} /\ fsm'[p] \in {"AUDITING", "DONE"}
    <3>1. CASE ReadAudit(p)
      BY <3>1, AuditIsQuiet DEF ReadAudit, Sound, TokenInv, TypeOK
    <3>2. QED
      BY <1>8, <3>1 DEF Negotiate, Agree, FirstTurn, SubmitAudit, Sound, TokenInv, TypeOK
  <2>4. SameEnds
    BY <2>2, <2>3 DEF SameEnds, Left
  <2>5. Pending' <=> Pending
    BY <2>1 DEF Pending
  <2>6. QED
    BY <2>1, <2>4, <2>5, AgreeKept
<1>9. CASE UNCHANGED vars
  <2>1. SameEnds /\ (Pending' <=> Pending)
    BY <1>9 DEF vars, SameEnds, Left, Pending
  <2>2. QED
    BY <1>9, <2>1, AgreeKept DEF vars
<1>10. QED
  BY <1>1, <1>2, <1>3, <1>4, <1>5, <1>6, <1>7, <1>8, <1>9 DEF Next, Thread, Works, Network

\* Where no call fails, the thresholds are the same and the ceiling is no
\* lower, the two peers settle every sub-game alike, however their messages
\* are delayed and repeated: nobody is left waiting, and the cop reads the
\* thief's last word before it leaves.
THEOREM SettledAlike ==
  ASSUME Reliable PROVE Spec => []OutcomesAgree
<1>1. Init => Sound /\ AgreeInv
  BY TokenInit, HonestInit, LedgerInit, EarnedInit, CornerInit, ClaimInit, AgreeInit
  DEF Sound
<1>2. (Sound /\ AgreeInv) /\ [Next]_vars => (Sound /\ AgreeInv)'
  BY TokenStep, HonestStep, LedgerStep, EarnedStep, CornerStep, ClaimStep, AgreeStep
  DEF Sound, Reliable
<1>3. Sound /\ AgreeInv => OutcomesAgree
  <2> SUFFICES ASSUME Sound, AgreeInv, Finished PROVE result["police"] = result["thief"]
    BY DEF OutcomesAgree
  <2>1. \A p \in Role : result[p] \in {"capture", "survival"}
    BY DEF Finished, AgreeInv, Left
  <2>2. \A p \in Role : result[p] = "capture" => Conceded
    BY DEF Sound, CornerInv
  <2>3. \A p \in Role : result[p] = "survival" => ~Conceded
    BY DEF Sound, ClaimInv
  <2>4. QED
    BY <2>1, <2>2, <2>3, Opponents
<1>4. QED
  BY <1>1, <1>2, <1>3, PTL DEF Spec
=============================================================================
