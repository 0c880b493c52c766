---------------------------- MODULE SeriesProofs ----------------------------
(***************************************************************************)
(* Theorems about a series of any length, with any number of faults: about  *)
(* its handshakes and turns where no agreement is delivered twice, about    *)
(* its report whatever is.                                                  *)
(***************************************************************************)
EXTENDS Series, SequenceTheorems, Recursion

\* A retried agreement is one message (run SeriesDuplicate shows what a second
\* copy does).
NoCopies == MaxCopies = 0

LEMMA Peers ==
  ASSUME NEW p \in Peer
  PROVE  /\ Other(p) \in Peer /\ Other(p) # p /\ Other(Other(p)) = p
         /\ \A r \in Peer : r # p => r = Other(p)
BY DEF Peer, Other

\* Taking the head of an inbox leaves two well-typed parts.
LEMMA TakenTyped ==
  ASSUME NEW S, NEW s \in Seq(S), s # << >>
  PROVE  /\ Head(s) \in S /\ Tail(s) \in Seq(S) /\ Len(Tail(s)) = Len(s) - 1
         /\ Head(s) = s[1] /\ 1 \in DOMAIN s /\ Len(s) \in Nat /\ Len(s) > 0
         /\ \A i \in DOMAIN Tail(s) : i + 1 \in DOMAIN s /\ Tail(s)[i] = s[i + 1]
BY HeadTailProperties, LenProperties

LEMMA AddedTyped ==
  ASSUME NEW S, NEW s \in Seq(S), NEW x \in S
  PROVE  /\ Append(s, x) \in Seq(S) /\ Len(Append(s, x)) = Len(s) + 1
         /\ \A i \in DOMAIN Append(s, x) :
              \/ i \in DOMAIN s /\ Append(s, x)[i] = s[i]
              \/ i = Len(s) + 1 /\ Append(s, x)[i] = x
BY AppendProperties, LenProperties

LEMMA OneMore ==
  ASSUME NEW S, NEW s \in Seq(S), NEW one \in Seq(S), Len(one) = 1
  PROVE  /\ Len(s \o one) = Len(s) + 1 /\ Len(s) \in Nat
         /\ \A i \in DOMAIN (s \o one) :
              \/ i \in DOMAIN s /\ (s \o one)[i] = s[i]
              \/ i = Len(s) + 1 /\ (s \o one)[i] = one[1]
<1>1. /\ s \o one \in Seq(S) /\ Len(s) \in Nat /\ Len(s \o one) = Len(s) + 1
      /\ \A i \in 1 .. Len(s) + 1 : (s \o one)[i] = IF i <= Len(s) THEN s[i] ELSE one[i - Len(s)]
  BY ConcatProperties, LenProperties
<1>2. DOMAIN s = 1 .. Len(s) /\ DOMAIN (s \o one) = 1 .. Len(s) + 1
  BY <1>1, LenProperties
<1>3. ASSUME NEW i \in DOMAIN (s \o one)
      PROVE  \/ i \in DOMAIN s /\ (s \o one)[i] = s[i]
             \/ i = Len(s) + 1 /\ (s \o one)[i] = one[1]
  <2>1. i \in 1 .. Len(s) + 1 /\ i \in Nat
    BY <1>1, <1>2
  <2>2. (s \o one)[i] = IF i <= Len(s) THEN s[i] ELSE one[i - Len(s)]
    BY <1>1, <2>1
  <2>3. CASE i <= Len(s)
    BY <1>1, <1>2, <2>1, <2>2, <2>3
  <2>4. CASE i = Len(s) + 1
    <3>1. ~(i <= Len(s)) /\ i - Len(s) = 1
      BY <1>1, <2>4
    <3>2. QED
      BY <2>2, <2>4, <3>1
  <2>5. QED
    BY <1>1, <2>1, <2>3, <2>4
<1>4. QED
  BY <1>1, <1>3

-----------------------------------------------------------------------------
(* The handshakes: which sub-game each runtime is agreed on, and which one   *)
(* the turns in its inbox are of.                                            *)

LEMMA TypeInit == Init => TypeOK
BY DEF Init, TypeOK, Peer, Phase, Verdict, NoAudit, AuditDict

LEMMA RoleTyped ==
  ASSUME NEW p \in Peer, NEW k
  PROVE  RoleIn(p, k) \in {"police", "thief"}
BY DEF RoleIn

\* An attempt to deliver a turn.
LEMMA DeliverTyped ==
  ASSUME TypeOK, NEW p \in Peer, NEW says \in Says(p), Deliver(p, says)
  PROVE  turns' \in [Peer -> Seq(Turn)]
<1> DEFINE m == [game |-> number[p], sender |-> Role(p), step |-> mine[p] + 1, says |-> says]
<1>1. number[p] \in Nat /\ mine[p] + 1 \in Nat /\ Role(p) \in {"police", "thief"}
  BY RoleTyped DEF TypeOK, Role
<1>2. says \in {"turn", "caught", "win"}
  BY DEF Says
<1>3. m \in Turn
  BY <1>1, <1>2 DEF Turn
<1>4. turns' = [turns EXCEPT ![Other(p)] = Append(@, m)]
  BY DEF Deliver
<1> HIDE DEF m
<1>5. Append(turns[Other(p)], m) \in Seq(Turn)
  BY <1>3, Peers, AddedTyped DEF TypeOK
<1>6. QED
  BY <1>4, <1>5, Peers DEF TypeOK

LEMMA FaultTyped == ASSUME TypeOK, Fault \/ UNCHANGED faults PROVE faults' \in Nat
BY DEF TypeOK, Fault

LEMMA TypeStep == TypeOK /\ [Next]_vars => TypeOK'
<1> SUFFICES ASSUME TypeOK, [Next]_vars PROVE TypeOK'
  OBVIOUS
<1> USE DEF play
<1>1. ASSUME NEW p \in Peer, StartSubGame(p) PROVE TypeOK'
  <2>1. turns' \in [Peer -> Seq(Turn)] /\ audits' \in [Peer -> Seq(Reveal)]
    BY <1>1 DEF StartSubGame, Drain, TypeOK
  <2>2. phase' \in [Peer -> Phase]
    BY <1>1 DEF StartSubGame, Goto, TypeOK, Phase
  <2>3. QED
    BY <1>1, <2>1, <2>2 DEF StartSubGame, TypeOK
<1>2. ASSUME NEW p \in Peer, Offer(p) PROVE TypeOK'
  <2>1. PICK n \in 0 .. MaxCopies :
          negotiation' = [negotiation EXCEPT ![Other(p)] = @ \o [i \in 1 .. n + 1 |-> number[p]]]
    BY <1>2 DEF Offer
  <2>2. [i \in 1 .. n + 1 |-> number[p]] \in Seq(Nat)
    <3>1. n \in Nat /\ number[p] \in Nat
      BY SeriesAssumption DEF TypeOK
    <3>2. QED
      BY <3>1, IsASeq
  <2>3. negotiation[Other(p)] \o [i \in 1 .. n + 1 |-> number[p]] \in Seq(Nat)
    BY <2>2, Peers, ConcatProperties DEF TypeOK
  <2>4. negotiation' \in [Peer -> Seq(Nat)]
    BY <2>1, <2>3 DEF TypeOK
  <2>5. QED
    BY <1>2, <2>4 DEF Offer, Goto, TypeOK, Phase
<1>3. ASSUME NEW p \in Peer, Agree(p) PROVE TypeOK'
  <2>1. Head(negotiation[p]) \in Nat /\ Tail(negotiation[p]) \in Seq(Nat)
    BY <1>3, TakenTyped DEF Agree, TypeOK
  <2>2. QED
    BY <1>3, <2>1 DEF Agree, Goto, TypeOK, Phase
<1>4. ASSUME NEW p \in Peer, HandshakeFails(p) PROVE TypeOK'
  BY <1>4, FaultTyped DEF HandshakeFails, Goto, TypeOK, Phase
<1>5. ASSUME NEW p \in Peer, TakeTurn(p) PROVE TypeOK'
  <2>1. turns' \in [Peer -> Seq(Turn)]
    BY <1>5, DeliverTyped DEF TakeTurn
  <2>2. phase' \in [Peer -> Phase] /\ verdict' \in [Peer -> Verdict \cup {"none"}]
    BY <1>5 DEF TakeTurn, Settle, Goto, TypeOK, Phase, Verdict
  <2>3. mine' \in [Peer -> Nat]
    BY <1>5 DEF TakeTurn, TypeOK
  <2>4. QED
    BY <1>5, <2>1, <2>2, <2>3 DEF TakeTurn, TypeOK
<1>6. ASSUME NEW p \in Peer, SendFails(p) PROVE TypeOK'
  <2>1. turns' \in [Peer -> Seq(Turn)]
    BY <1>6, DeliverTyped DEF SendFails, TypeOK
  <2>2. faults' \in Nat
    BY <1>6, FaultTyped DEF SendFails
  <2>3. phase' \in [Peer -> Phase] /\ verdict' \in [Peer -> Verdict \cup {"none"}]
    BY <1>6 DEF SendFails, Settle, Goto, TypeOK, Phase, Verdict
  <2>4. mine' \in [Peer -> Nat]
    BY <1>6 DEF SendFails, TypeOK
  <2>5. QED
    BY <1>6, <2>1, <2>2, <2>3, <2>4 DEF SendFails, TypeOK
<1>7. ASSUME NEW p \in Peer, AcceptTurn(p) PROVE TypeOK'
  <2> DEFINE m == Head(turns[p])
  <2>1. m \in Turn /\ Tail(turns[p]) \in Seq(Turn)
    BY <1>7, TakenTyped DEF AcceptTurn, Listening, TypeOK
  <2>2. m.step \in Nat /\ m.game \in Nat
    BY <2>1 DEF Turn
  <2>3. turns' \in [Peer -> Seq(Turn)] /\ seen' \in [Peer -> Nat]
    BY <1>7, <2>1, <2>2 DEF AcceptTurn, TypeOK
  <2>4. heard' \in [Peer -> SUBSET Nat]
    BY <1>7, <2>2 DEF AcceptTurn, TypeOK
  <2>5. phase' \in [Peer -> Phase] /\ verdict' \in [Peer -> Verdict \cup {"none"}]
    BY <1>7 DEF AcceptTurn, Settle, Goto, TypeOK, Phase, Verdict
  <2>6. QED
    BY <1>7, <2>3, <2>4, <2>5 DEF AcceptTurn, TypeOK
<1>8. ASSUME NEW p \in Peer, RefuseTurn(p) PROVE TypeOK'
  <2>1. turns' \in [Peer -> Seq(Turn)]
    BY <1>8, TakenTyped DEF RefuseTurn, Listening, TypeOK
  <2>2. strikes' \in [Peer -> Nat]
    BY <1>8 DEF RefuseTurn, TypeOK
  <2>3. phase' \in [Peer -> Phase] /\ verdict' \in [Peer -> Verdict \cup {"none"}]
    BY <1>8 DEF RefuseTurn, Settle, Goto, TypeOK, Phase, Verdict
  <2>4. QED
    BY <1>8, <2>1, <2>2, <2>3 DEF RefuseTurn, TypeOK
<1>9. ASSUME NEW p \in Peer, Expire(p) PROVE TypeOK'
  BY <1>9, FaultTyped DEF Expire, Settle, Goto, TypeOK, Phase, Verdict
<1>10. ASSUME NEW p \in Peer, SubmitAudit(p) PROVE TypeOK'
  <2> DEFINE reveal == [game |-> number[p], steps |-> mine[p]]
  <2>1. reveal \in Reveal
    BY DEF TypeOK, Reveal
  <2>2. \/ audits' = [audits EXCEPT ![Other(p)] = Append(@, reveal)]
        \/ UNCHANGED audits
    BY <1>10 DEF SubmitAudit
  <2> HIDE DEF reveal
  <2>3. Append(audits[Other(p)], reveal) \in Seq(Reveal)
    BY <2>1, Peers, AddedTyped DEF TypeOK
  <2>4. audits' \in [Peer -> Seq(Reveal)]
    BY <2>2, <2>3 DEF TypeOK
  <2>5. faults' \in Nat
    BY <1>10, FaultTyped DEF SubmitAudit
  <2>6. QED
    BY <1>10, <2>4, <2>5 DEF SubmitAudit, Goto, TypeOK, Phase
<1>11. ASSUME NEW p \in Peer, ReadAudit(p) PROVE TypeOK'
  <2>1. Tail(audits[p]) \in Seq(Reveal)
    BY <1>11, TakenTyped DEF ReadAudit, TypeOK
  <2>2. Differs(p, Head(audits[p])) \in BOOLEAN
    BY DEF Differs
  <2>3. audit' \in [Peer -> AuditDict]
    BY <1>11, <2>2 DEF ReadAudit, TypeOK, AuditDict
  <2>4. verdict' \in [Peer -> Verdict \cup {"none"}]
    BY <1>11 DEF ReadAudit, TypeOK, Verdict
  <2>5. QED
    BY <1>11, <2>1, <2>3, <2>4 DEF ReadAudit, Goto, TypeOK, Phase
<1>12. ASSUME NEW p \in Peer, MissAudit(p) PROVE TypeOK'
  BY <1>12, FaultTyped DEF MissAudit, Goto, TypeOK, Phase
<1>13. ASSUME NEW p \in Peer, Record(p) PROVE TypeOK'
  <2>1. Append(outcomes[p], SubgameOutcome(p))
          \in Seq([result : Verdict \cup {"none"}, audit : AuditDict])
    BY AddedTyped DEF TypeOK, SubgameOutcome
  <2>2. outcomes' \in [Peer -> Seq([result : Verdict \cup {"none"}, audit : AuditDict])]
    BY <1>13, <2>1 DEF Record, TypeOK
  <2>3. NoAudit \in AuditDict
    BY DEF NoAudit, AuditDict
  <2>4. number' \in [Peer -> Nat \ {0}] /\ phase' \in [Peer -> Phase]
    BY <1>13 DEF Record, Goto, TypeOK, Phase
  <2>5. /\ agreed' \in [Peer -> Nat] /\ mine' \in [Peer -> Nat] /\ seen' \in [Peer -> Nat]
        /\ heard' \in [Peer -> SUBSET Nat] /\ strikes' \in [Peer -> Nat]
        /\ verdict' \in [Peer -> Verdict \cup {"none"}] /\ audit' \in [Peer -> AuditDict]
    BY <1>13, <2>3 DEF Record, FreshRuntime, TypeOK
  <2>6. QED
    BY <1>13, <2>2, <2>4, <2>5 DEF Record, TypeOK
<1>14. CASE UNCHANGED vars
  BY <1>14 DEF vars, TypeOK
<1>15. QED
  BY <1>1, <1>2, <1>3, <1>4, <1>5, <1>6, <1>7, <1>8, <1>9, <1>10, <1>11, <1>12,
     <1>13, <1>14 DEF Next, Process

LEMMA SeriesInit == Init => SeriesInv
<1> SUFFICES ASSUME Init, NEW p \in Peer PROVE Handshakes(p) /\ Mail(p) /\ Progress(p)
  BY TypeInit DEF SeriesInv
<1>1. Handshakes(p)
  <2>1. /\ negotiation[p] = << >> /\ Len(negotiation[p]) = 0 /\ agreed[p] = 0
        /\ \A r \in Peer : phase[r] = "start" /\ number[r] = 1
    BY DEF Init
  <2>2. Consumed(p) = 0 /\ Offered(Other(p)) = {0}
    BY <2>1, Peers DEF Consumed, Offered, Handshaken
  <2>3. QED
    BY <2>1, <2>2 DEF Handshakes, Handshaken
<1>2. Mail(p)
  BY DEF Init, Mail
<1>3. Progress(p)
  BY SeriesAssumption DEF Init, Progress
<1>4. QED
  BY <1>1, <1>2, <1>3

\* What most steps leave alone: both stay in their sub-games, one of them with
\* its agreement.
Onward(p) ==
  /\ UNCHANGED <<number, negotiation, agreed, outcomes>>
  /\ phase[p] \in Handshaken /\ phase'[p] \in Handshaken
  /\ \A r \in Peer : r # p => phase'[r] = phase[r]

LEMMA OnwardKeeps ==
  ASSUME SeriesInv, NEW p \in Peer, Onward(p)
  PROVE  \A r \in Peer : /\ Handshakes(r)'
                         /\ number'[r] <= NumGames + 1
                         /\ number'[r] = NumGames + 1 <=> phase'[r] = "over"
                         /\ Len(outcomes'[r]) = number'[r] - 1
<1> SUFFICES ASSUME NEW r \in Peer
             PROVE  /\ Handshakes(r)'
                    /\ number'[r] <= NumGames + 1
                    /\ number'[r] = NumGames + 1 <=> phase'[r] = "over"
                    /\ Len(outcomes'[r]) = number'[r] - 1
  OBVIOUS
<1>1. Handshakes(r) /\ Progress(r)
  BY DEF SeriesInv
<1>2. \A o \in Peer : \/ phase'[o] = phase[o]
                      \/ phase[o] \in Handshaken /\ phase'[o] \in Handshaken
  BY DEF Onward
<1>3. \A o \in Peer : Consumed(o)' = Consumed(o) /\ Offered(o)' = Offered(o)
  BY <1>2 DEF Consumed, Offered, Onward, Handshaken
<1>4. Handshakes(r)'
  BY <1>1, <1>2, <1>3, Peers DEF Handshakes, Onward
<1>5. phase'[r] = "over" <=> phase[r] = "over"
  BY <1>2 DEF Handshaken
<1>6. QED
  BY <1>1, <1>4, <1>5 DEF Progress, Onward

LEMMA CountsTyped ==
  ASSUME TypeOK, NEW p \in Peer
  PROVE  number[p] \in Nat \ {0} /\ Consumed(p) \in Nat /\ Len(negotiation[p]) \in Nat
<1>1. number[p] \in Nat \ {0} /\ negotiation[p] \in Seq(Nat)
  BY DEF TypeOK
<1>2. QED
  BY <1>1, LenProperties DEF Consumed

LEMMA GameTyped ==
  ASSUME TypeOK, NEW r \in Peer
  PROVE  \A i \in DOMAIN turns[r] : turns[r][i].game \in Nat
<1> SUFFICES ASSUME NEW i \in DOMAIN turns[r] PROVE turns[r][i].game \in Nat
  OBVIOUS
<1>1. turns[r][i] \in Turn
  BY ElementOfSeq DEF TypeOK
<1>2. QED
  BY <1>1 DEF Turn

\* An inbox that only loses turns stays in order, unless its peer goes back.
Fewer(r) == \A i \in DOMAIN turns'[r] : \E j \in DOMAIN turns[r] : turns'[r][i] = turns[r][j]

LEMMA FewerKeeps ==
  ASSUME NEW r \in Peer, Mail(r), Fewer(r), number'[r] = number[r], number[r] \in Nat,
         \A i \in DOMAIN turns[r] : turns[r][i].game \in Nat,
         phase'[r] \in {"start", "offer", "over"} => phase[r] \in {"start", "offer", "over"},
         phase[r] \in {"start", "over"} => phase'[r] = phase[r]
  PROVE  Mail(r)'
<1> SUFFICES ASSUME NEW i \in DOMAIN turns'[r]
             PROVE  LET m == turns'[r][i] IN
                    /\ m.sender = RoleIn(Other(r), m.game)
                    /\ m.game <= IF phase'[r] \in {"start", "offer", "over"}
                                 THEN number[r] - 1 ELSE number[r]
                    /\ phase'[r] \notin {"start", "over"} => m.game >= number[r] - 1
  BY DEF Mail
<1>1. PICK j \in DOMAIN turns[r] : turns'[r][i] = turns[r][j]
  BY DEF Fewer
<1>2. QED
  BY <1>1 DEF Mail

\* The roles of a peer alternate, so a turn of the sub-game before looks like
\* one of the peer's own role.
LEMMA RolesAlternate ==
  ASSUME NEW p \in Peer, NEW k \in Nat \ {0}
  PROVE  /\ RoleIn(Other(p), k - 1) = RoleIn(p, k)
         /\ RoleIn(Other(p), k) # RoleIn(p, k)
<1>1. (k - 1) % 2 = 1 <=> ~(k % 2 = 1)
  OBVIOUS
<1>2. QED
  BY <1>1 DEF RoleIn, Other, Peer

\* Nobody plays before the other has offered to.
LEMMA PlaysWhenOffered ==
  ASSUME SeriesInv, NEW p \in Peer, phase[p] \in Handshaken
  PROVE  LET q == Other(p) IN
         /\ number[q] \in {number[p], number[p] + 1}
         /\ phase[q] \in {"start", "offer", "over"} => number[q] = number[p] + 1
<1> DEFINE q == Other(p)
<1>1. q \in Peer /\ Other(q) = p
  BY Peers
<1>2. /\ number[p] \in Nat /\ number[q] \in Nat
      /\ Len(negotiation[p]) \in Nat /\ Len(negotiation[q]) \in Nat
  BY <1>1, LenProperties DEF SeriesInv, TypeOK
<1>3. /\ number[p] + Len(negotiation[p]) \in Offered(q)
      /\ Consumed(q) + Len(negotiation[q]) \in Offered(p)
  BY <1>1 DEF SeriesInv, Handshakes, Consumed
<1>4. \A n \in Offered(p) : n = number[p]
  BY DEF Offered, Handshaken
<1>5. number[q] - 1 <= number[p]
  BY <1>2, <1>3, <1>4 DEF Consumed
<1>6. \A n \in Offered(q) : n <= number[q] /\ (phase[q] \in {"start", "offer", "over"} => n = number[q] - 1)
  BY <1>2 DEF Offered, Handshaken
<1>7. number[p] <= number[q] /\ (phase[q] \in {"start", "offer", "over"} => number[p] <= number[q] - 1)
  BY <1>2, <1>3, <1>6
<1>8. QED
  BY <1>2, <1>5, <1>7

\* Turns that arrive are of the sub-game their sender is in.
LEMMA DeliveryKeeps ==
  ASSUME SeriesInv, NEW p \in Peer, phase[p] = "my_turn", NEW says, Deliver(p, says),
         UNCHANGED number, \A r \in Peer : r # p => phase'[r] = phase[r],
         phase'[p] \in Handshaken, NEW r \in Peer
  PROVE  Mail(r)'
<1> DEFINE q == Other(p)
           m == [game |-> number[p], sender |-> Role(p), step |-> mine[p] + 1, says |-> says]
<1>0. q \in Peer /\ q # p /\ Other(q) = p
  BY Peers
<1>1. number[p] \in Nat \ {0} /\ number[q] \in Nat /\ turns[r] \in Seq(Turn)
  BY <1>0 DEF SeriesInv, TypeOK
<1>2. turns' = [turns EXCEPT ![q] = Append(@, m)]
  BY DEF Deliver
<1>3. m.sender = RoleIn(p, number[p]) /\ m.game = number[p]
  BY DEF Role
<1>4. /\ number[q] \in {number[p], number[p] + 1}
      /\ phase[q] \in {"start", "offer", "over"} => number[q] = number[p] + 1
  BY PlaysWhenOffered DEF Handshaken
<1> HIDE DEF m
<1>5. CASE r = p
  <2>1. turns'[r] = turns[r] /\ DOMAIN turns'[r] = DOMAIN turns[r]
    BY <1>0, <1>2, <1>5 DEF SeriesInv, TypeOK
  <2>2. Fewer(r)
    BY <2>1 DEF Fewer
  <2>3. Mail(r) /\ number'[r] = number[r] /\ number[r] \in Nat
    BY DEF SeriesInv, TypeOK
  <2>4. \A i \in DOMAIN turns[r] : turns[r][i].game \in Nat
    BY GameTyped DEF SeriesInv
  <2>5. QED
    BY <1>5, <2>2, <2>3, <2>4, FewerKeeps DEF Handshaken
<1>6. CASE r = q
  <2>1. turns'[q] = Append(turns[q], m) /\ phase'[q] = phase[q] /\ number'[q] = number[q]
    BY <1>0, <1>2 DEF SeriesInv, TypeOK
  <2>2. Mail(q)
    BY <1>0 DEF SeriesInv
  <2>3. \A i \in DOMAIN turns'[q] :
          \/ i \in DOMAIN turns[q] /\ turns'[q][i] = turns[q][i]
          \/ turns'[q][i] = m
    BY <1>1, <1>6, <2>1, AppendProperties, LenProperties
  <2>4. /\ m.sender = RoleIn(Other(q), m.game)
        /\ m.game <= IF phase[q] \in {"start", "offer", "over"} THEN number[q] - 1 ELSE number[q]
        /\ m.game >= number[q] - 1
    BY <1>0, <1>1, <1>3, <1>4
  <2>5. QED
    BY <1>6, <2>1, <2>2, <2>3, <2>4 DEF Mail
<1>7. QED
  BY <1>5, <1>6, Peers

\* The step of a peer that has its agreement, when no turn arrives.
LEMMA OnwardInv ==
  ASSUME SeriesInv, TypeOK', NEW p \in Peer, Onward(p), \A r \in Peer : Mail(r)',
         \A r \in Peer : heard'[r] \subseteq {number[r]},
         \A r \in Peer : r # p => mine'[r] = mine[r] /\ seen'[r] = seen[r] /\ heard'[r] = heard[r]
  PROVE  SeriesInv'
<1> SUFFICES ASSUME NEW r \in Peer PROVE Progress(r)'
  BY OnwardKeeps DEF SeriesInv
<1>1. r # p => phase'[r] = phase[r]
  BY DEF Onward
<1>2. phase'[r] \notin Handshaken => mine'[r] = 0 /\ seen'[r] = 0 /\ heard'[r] = {}
  BY <1>1 DEF Onward, SeriesInv, Progress
<1>3. number'[r] = number[r]
  BY DEF Onward
<1>4. QED
  BY <1>2, <1>3, OnwardKeeps DEF Progress

LEMMA TailIsFewer ==
  ASSUME TypeOK, NEW p \in Peer, turns[p] # << >>, turns' = [turns EXCEPT ![p] = Tail(@)]
  PROVE  \A r \in Peer : Fewer(r)
<1>1. \A i \in DOMAIN Tail(turns[p]) : i + 1 \in DOMAIN turns[p] /\ Tail(turns[p])[i] = turns[p][i + 1]
  BY TakenTyped DEF TypeOK
<1>2. turns'[p] = Tail(turns[p]) /\ \A r \in Peer : r # p => turns'[r] = turns[r]
  BY DEF TypeOK
<1>3. QED
  BY <1>1, <1>2 DEF Fewer

LEMMA FewerMail ==
  ASSUME SeriesInv, NEW p \in Peer, Onward(p), \A r \in Peer : Fewer(r)
  PROVE  \A r \in Peer : Mail(r)'
<1> SUFFICES ASSUME NEW r \in Peer PROVE Mail(r)'
  OBVIOUS
<1>1. Mail(r) /\ Fewer(r) /\ number[r] \in Nat
  BY DEF SeriesInv, TypeOK
<1>2. \A i \in DOMAIN turns[r] : turns[r][i].game \in Nat
  BY GameTyped DEF SeriesInv
<1>3. \/ phase'[r] = phase[r]
      \/ phase[r] \in Handshaken /\ phase'[r] \in Handshaken
  BY DEF Onward
<1>4. /\ phase'[r] \in {"start", "offer", "over"} => phase[r] \in {"start", "offer", "over"}
      /\ phase[r] \in {"start", "over"} => phase'[r] = phase[r]
  BY <1>3 DEF Handshaken
<1>5. number'[r] = number[r]
  BY DEF Onward
<1>6. QED
  BY <1>1, <1>2, <1>4, <1>5, FewerKeeps

\* Of the turns in the inbox, those that look like the opponent's are of this
\* sub-game.
LEMMA HeardIsCurrent ==
  ASSUME SeriesInv, NEW p \in Peer, Listening(p), InSequence(p, Head(turns[p]))
  PROVE  Head(turns[p]).game = number[p]
<1> DEFINE m == Head(turns[p])
<1>1. 1 \in DOMAIN turns[p] /\ m = turns[p][1] /\ phase[p] = "opp_turn"
  BY TakenTyped DEF SeriesInv, TypeOK, Listening
<1>2. m.game \in Nat /\ number[p] \in Nat \ {0}
  BY <1>1, GameTyped DEF SeriesInv, TypeOK
<1>3. /\ m.sender = RoleIn(Other(p), m.game) /\ m.sender # RoleIn(p, number[p])
      /\ m.game <= number[p] /\ m.game >= number[p] - 1
  BY <1>1 DEF SeriesInv, Mail, InSequence, Role
<1> HIDE DEF m
<1>4. m.game # number[p] - 1
  BY <1>2, <1>3, RolesAlternate
<1>5. QED
  BY <1>2, <1>3, <1>4 DEF m

\* The message consumed by a handshake is the one of its own sub-game.
LEMMA AgreeKeeps ==
  ASSUME SeriesInv, TypeOK', NEW p \in Peer, Agree(p)
  PROVE  SeriesInv'
<1> DEFINE q == Other(p)
<1>0. q \in Peer /\ q # p /\ Other(q) = p /\ \A r \in Peer : r = p \/ r = q
  BY Peers
<1>1. /\ phase[p] = "await" /\ negotiation[p] # << >> /\ number' = number
      /\ phase'[p] \in {"my_turn", "opp_turn"} /\ phase'[q] = phase[q]
      /\ negotiation'[p] = Tail(negotiation[p]) /\ negotiation'[q] = negotiation[q]
      /\ agreed'[p] = Head(negotiation[p]) /\ agreed'[q] = agreed[q]
      /\ UNCHANGED <<turns, mine, seen, heard, outcomes>>
  BY <1>0 DEF Agree, Goto, SeriesInv, TypeOK
<1>2. /\ number[p] \in Nat /\ negotiation[p] \in Seq(Nat)
      /\ Consumed(p) = number[p] - 1 /\ Consumed(p)' = number[p]
  BY <1>1 DEF SeriesInv, TypeOK, Consumed, Handshaken
<1>3. /\ Len(Tail(negotiation[p])) = Len(negotiation[p]) - 1 /\ Len(negotiation[p]) \in Nat
      /\ Head(negotiation[p]) = negotiation[p][1] /\ 1 \in DOMAIN negotiation[p]
      /\ \A i \in DOMAIN Tail(negotiation[p]) :
           /\ i \in Nat /\ i + 1 \in DOMAIN negotiation[p]
           /\ Tail(negotiation[p])[i] = negotiation[p][i + 1]
  BY <1>1, <1>2, TakenTyped, HeadTailProperties, LenProperties
<1>4. Handshakes(p) /\ Handshakes(q)
  BY <1>0 DEF SeriesInv
<1>5. agreed'[p] = number[p]
  BY <1>1, <1>2, <1>3, <1>4 DEF Handshakes
<1>6. Offered(p)' = Offered(p) /\ Offered(q)' = Offered(q)
  BY <1>0, <1>1 DEF Offered, Handshaken
<1>7. Handshakes(p)'
  <2>1. Consumed(p)' + Len(negotiation'[p]) \in Offered(q)'
    <3>1. Consumed(p)' + Len(negotiation'[p]) = Consumed(p) + Len(negotiation[p])
      <4>1. Len(negotiation'[p]) = Len(negotiation[p]) - 1 /\ Len(negotiation[p]) \in Nat
        BY <1>1, <1>3
      <4>2. Consumed(p) = number[p] - 1 /\ Consumed(p)' = number[p] /\ number[p] \in Nat
        BY <1>2
      <4>3. QED
        BY <4>1, <4>2
    <3>2. QED
      BY <3>1, <1>4, <1>6 DEF Handshakes
  <2>2. ASSUME NEW i \in DOMAIN negotiation'[p]
        PROVE  negotiation'[p][i] = Consumed(p)' + i
    <3>1. i \in Nat /\ i + 1 \in DOMAIN negotiation[p] /\ negotiation'[p][i] = negotiation[p][i + 1]
      BY <1>1, <1>3
    <3>2. negotiation[p][i + 1] = Consumed(p) + (i + 1)
      BY <3>1, <1>4 DEF Handshakes
    <3>3. Consumed(p) = number[p] - 1 /\ Consumed(p)' = number[p] /\ number[p] \in Nat
      BY <1>2
    <3>4. QED
      BY <3>1, <3>2, <3>3
  <2>3. QED
    BY <1>1, <1>5, <2>1, <2>2 DEF Handshakes, Handshaken
<1>8. Handshakes(q)'
  <2>1. Consumed(q)' = Consumed(q)
    BY <1>0, <1>1 DEF Consumed
  <2>2. QED
    BY <1>0, <1>1, <1>4, <1>6, <2>1 DEF Handshakes
<1>9. ASSUME NEW r \in Peer PROVE Mail(r)' /\ Progress(r)'
  BY <1>0, <1>1 DEF SeriesInv, Mail, Progress, Handshaken
<1>10. QED
  BY <1>0, <1>7, <1>8, <1>9 DEF SeriesInv

\* One agreement more on its way, and not two.
LEMMA OfferKeeps ==
  ASSUME NoCopies, SeriesInv, TypeOK', NEW p \in Peer, Offer(p)
  PROVE  SeriesInv'
<1> DEFINE q == Other(p)
           one == [i \in 1 .. 1 |-> number[p]]
<1>0. q \in Peer /\ q # p /\ Other(q) = p /\ \A r \in Peer : r = p \/ r = q
  BY Peers
<1>1. negotiation' = [negotiation EXCEPT ![q] = @ \o one]
  BY DEF Offer, NoCopies
<1>2. number[p] \in Nat /\ negotiation[q] \in Seq(Nat)
  BY <1>0 DEF SeriesInv, TypeOK
<1>3. one \in Seq(Nat) /\ Len(one) = 1 /\ one[1] = number[p]
  BY <1>2, IsASeq
<1> HIDE DEF one
<1>4. /\ phase[p] = "offer" /\ number' = number /\ phase'[p] = "await" /\ phase'[q] = phase[q]
      /\ negotiation'[q] = negotiation[q] \o one /\ negotiation'[p] = negotiation[p]
      /\ UNCHANGED <<agreed, turns, mine, seen, heard, outcomes>>
  BY <1>0, <1>1 DEF Offer, Goto, SeriesInv, TypeOK, play
<1>5. /\ Len(negotiation'[q]) = Len(negotiation[q]) + 1 /\ Len(negotiation[q]) \in Nat
      /\ \A i \in DOMAIN negotiation'[q] :
           \/ i \in DOMAIN negotiation[q] /\ negotiation'[q][i] = negotiation[q][i]
           \/ i = Len(negotiation[q]) + 1 /\ negotiation'[q][i] = number[p]
  BY <1>2, <1>3, <1>4, OneMore
<1>6. Handshakes(p) /\ Handshakes(q)
  BY <1>0 DEF SeriesInv
<1>7. /\ Consumed(p)' = Consumed(p) /\ Consumed(q)' = Consumed(q)
      /\ Offered(q)' = Offered(q) /\ Offered(p) = {number[p] - 1} /\ Offered(p)' = {number[p]}
  BY <1>0, <1>4 DEF Consumed, Offered, Handshaken
<1>8. Handshakes(p)'
  BY <1>0, <1>4, <1>6, <1>7 DEF Handshakes, Handshaken
<1>9. Handshakes(q)'
  <2>0. Consumed(q) \in Nat
    BY <1>0, CountsTyped DEF SeriesInv
  <2>1. Consumed(q) + Len(negotiation[q]) = number[p] - 1
    BY <1>0, <1>6, <1>7 DEF Handshakes
  <2>2. Len(negotiation'[q]) = Len(negotiation[q]) + 1 /\ Len(negotiation[q]) \in Nat
    BY <1>5
  <2>3. Consumed(q)' = Consumed(q)
    BY <1>7
  <2>4. number[p] = Consumed(q) + (Len(negotiation[q]) + 1)
    BY <1>2, <2>0, <2>1, <2>2
  <2>5. Consumed(q)' + Len(negotiation'[q]) \in Offered(p)'
    BY <1>7, <2>2, <2>3, <2>4
  <2>6. ASSUME NEW i \in DOMAIN negotiation'[q]
        PROVE  negotiation'[q][i] = Consumed(q)' + i
    <3>1. CASE i \in DOMAIN negotiation[q] /\ negotiation'[q][i] = negotiation[q][i]
      BY <3>1, <1>6, <1>7 DEF Handshakes
    <3>2. CASE i = Len(negotiation[q]) + 1 /\ negotiation'[q][i] = number[p]
      BY <2>3, <2>4, <3>2
    <3>3. QED
      BY <1>5, <3>1, <3>2
  <2>7. QED
    BY <1>0, <1>4, <1>6, <2>5, <2>6 DEF Handshakes
<1>10. ASSUME NEW r \in Peer PROVE Mail(r)'
  <2>1. Mail(r) /\ turns'[r] = turns[r] /\ number'[r] = number[r] /\ number[r] \in Nat
    BY <1>4 DEF SeriesInv, TypeOK
  <2>2. \A i \in DOMAIN turns[r] : turns[r][i].game \in Nat
    BY GameTyped DEF SeriesInv
  <2>3. Fewer(r)
    BY <2>1 DEF Fewer
  <2>4. /\ phase'[r] \in {"start", "offer", "over"} => phase[r] \in {"start", "offer", "over"}
        /\ phase[r] \in {"start", "over"} => phase'[r] = phase[r]
    BY <1>0, <1>4
  <2>5. QED
    BY <2>1, <2>2, <2>3, <2>4, FewerKeeps
<1>11. ASSUME NEW r \in Peer PROVE Progress(r)'
  BY <1>0, <1>4 DEF SeriesInv, Progress, Handshaken
<1>12. QED
  BY <1>0, <1>8, <1>9, <1>10, <1>11 DEF SeriesInv

\* A process that stops at its handshake.
LEMMA FailureKeeps ==
  ASSUME SeriesInv, TypeOK', NEW p \in Peer, HandshakeFails(p)
  PROVE  SeriesInv'
<1> DEFINE q == Other(p)
<1>0. q \in Peer /\ q # p /\ Other(q) = p /\ \A r \in Peer : r = p \/ r = q
  BY Peers
<1>1. /\ phase[p] \in {"offer", "await"} /\ phase'[p] = "down" /\ phase'[q] = phase[q]
      /\ UNCHANGED <<number, negotiation, agreed, turns, mine, seen, heard, outcomes>>
  BY <1>0 DEF HandshakeFails, Goto, SeriesInv, TypeOK, play
<1>2. /\ Consumed(p)' = Consumed(p) /\ Consumed(q)' = Consumed(q)
      /\ Offered(q)' = Offered(q) /\ Offered(p) \subseteq Offered(p)'
  BY <1>0, <1>1 DEF Consumed, Offered, Handshaken
<1>3. ASSUME NEW r \in Peer PROVE Handshakes(r)'
  <2>1. Handshakes(r) /\ Consumed(r)' = Consumed(r) /\ Offered(Other(r)) \subseteq Offered(Other(r))'
    BY <1>0, <1>2 DEF SeriesInv
  <2>2. phase[r] \in Handshaken <=> phase'[r] \in Handshaken
    BY <1>0, <1>1 DEF Handshaken
  <2>3. QED
    BY <1>1, <2>1, <2>2 DEF Handshakes
<1>4. ASSUME NEW r \in Peer PROVE Mail(r)'
  <2>1. Mail(r) /\ turns'[r] = turns[r] /\ number'[r] = number[r] /\ number[r] \in Nat
    BY <1>1 DEF SeriesInv, TypeOK
  <2>2. \A i \in DOMAIN turns[r] : turns[r][i].game \in Nat
    BY GameTyped DEF SeriesInv
  <2>3. Fewer(r)
    BY <2>1 DEF Fewer
  <2>4. /\ phase'[r] \in {"start", "offer", "over"} => phase[r] \in {"start", "offer", "over"}
        /\ phase[r] \in {"start", "over"} => phase'[r] = phase[r]
    BY <1>0, <1>1
  <2>5. QED
    BY <2>1, <2>2, <2>3, <2>4, FewerKeeps
<1>5. ASSUME NEW r \in Peer PROVE Progress(r)'
  BY <1>0, <1>1 DEF SeriesInv, Progress, Handshaken
<1>6. QED
  BY <1>3, <1>4, <1>5 DEF SeriesInv

\* The drain.
LEMMA StartKeeps ==
  ASSUME SeriesInv, TypeOK', NEW p \in Peer, StartSubGame(p)
  PROVE  SeriesInv'
<1> DEFINE q == Other(p)
<1>0. q \in Peer /\ q # p /\ Other(q) = p /\ \A r \in Peer : r = p \/ r = q
  BY Peers
<1>1. /\ phase[p] = "start" /\ phase'[p] = "offer" /\ phase'[q] = phase[q]
      /\ turns'[p] = << >> /\ turns'[q] = turns[q]
      /\ UNCHANGED <<number, negotiation, agreed, mine, seen, heard, outcomes>>
  BY <1>0 DEF StartSubGame, Drain, Goto, SeriesInv, TypeOK, play
<1>2. \A r \in Peer : Consumed(r)' = Consumed(r) /\ Offered(r)' = Offered(r)
  BY <1>0, <1>1 DEF Consumed, Offered, Handshaken
<1>3. ASSUME NEW r \in Peer PROVE Handshakes(r)' /\ Progress(r)'
  BY <1>0, <1>1, <1>2 DEF SeriesInv, Handshakes, Progress, Handshaken
<1>4. Mail(p)' /\ Mail(q)'
  BY <1>0, <1>1 DEF SeriesInv, Mail
<1>5. QED
  BY <1>0, <1>3, <1>4 DEF SeriesInv

\* A sub-game is over: all there is in the inbox is old.
LEMMA RecordKeeps ==
  ASSUME SeriesInv, TypeOK', NEW p \in Peer, Record(p)
  PROVE  SeriesInv'
<1> DEFINE q == Other(p)
<1>0. q \in Peer /\ q # p /\ Other(q) = p /\ \A r \in Peer : r = p \/ r = q
  BY Peers
<1>1. /\ phase[p] = "record" /\ phase'[q] = phase[q]
      /\ phase'[p] = IF number[p] = NumGames THEN "over" ELSE "start"
      /\ number'[p] = number[p] + 1 /\ number'[q] = number[q]
      /\ UNCHANGED <<negotiation, turns>>
      /\ agreed'[p] = 0 /\ agreed'[q] = agreed[q]
      /\ mine'[p] = 0 /\ mine'[q] = mine[q] /\ seen'[p] = 0 /\ seen'[q] = seen[q]
      /\ heard'[p] = {} /\ heard'[q] = heard[q]
      /\ outcomes'[q] = outcomes[q]
  BY <1>0 DEF Record, FreshRuntime, Goto, SeriesInv, TypeOK
<1>2. Len(outcomes'[p]) = Len(outcomes[p]) + 1
  BY AppendProperties DEF Record, SeriesInv, TypeOK
<1>3. number[p] \in Nat \ {0} /\ number[q] \in Nat \ {0} /\ NumGames \in Nat
  BY <1>0, SeriesAssumption DEF SeriesInv, TypeOK
<1>4. phase'[p] \in {"over", "start"}
  BY <1>1
<1>5. /\ Consumed(p)' = Consumed(p) /\ Consumed(q)' = Consumed(q)
      /\ Offered(q)' = Offered(q) /\ Offered(p)' = Offered(p)
  BY <1>0, <1>1, <1>3, <1>4 DEF Consumed, Offered, Handshaken
<1>6. Handshakes(p)' /\ Handshakes(q)'
  BY <1>0, <1>1, <1>4, <1>5 DEF SeriesInv, Handshakes, Handshaken
<1>7. Mail(p)' /\ Mail(q)'
  <2>1. Mail(p)'
    BY <1>1, <1>3, <1>4 DEF SeriesInv, Mail
  <2>2. Mail(q)'
    BY <1>0, <1>1 DEF SeriesInv, Mail
  <2>3. QED
    BY <2>1, <2>2
<1>8. Progress(p)'
  <2>1. number[p] <= NumGames + 1 /\ number[p] # NumGames + 1 /\ Len(outcomes[p]) = number[p] - 1
    BY <1>1 DEF SeriesInv, Progress
  <2>2. QED
    BY <1>1, <1>2, <1>3, <2>1 DEF Progress
<1>9. Progress(q)'
  BY <1>0, <1>1 DEF SeriesInv, Progress
<1>10. QED
  BY <1>0, <1>6, <1>7, <1>8, <1>9 DEF SeriesInv

LEMMA TurnKeeps ==
  ASSUME SeriesInv, TypeOK', NEW p \in Peer,
         TakeTurn(p) \/ SendFails(p) \/ AcceptTurn(p) \/ RefuseTurn(p) \/ Expire(p)
  PROVE  SeriesInv'
<1>1. Onward(p)
  <2>1. /\ UNCHANGED <<number, negotiation, agreed, outcomes>>
        /\ phase[p] \in {"my_turn", "opp_turn"}
        /\ \/ UNCHANGED phase
           \/ phase' = [phase EXCEPT ![p] = "my_turn"]
           \/ phase' = [phase EXCEPT ![p] = "opp_turn"]
           \/ phase' = [phase EXCEPT ![p] = "settle"]
    BY DEF TakeTurn, SendFails, AcceptTurn, RefuseTurn, Expire, Settle, Goto, Listening, play
  <2>2. QED
    BY <2>1 DEF Onward, Handshaken, SeriesInv, TypeOK
<1>2. \A r \in Peer : r # p => phase'[r] = phase[r]
  BY <1>1 DEF Onward
<1>3. \A r \in Peer : Mail(r)'
  <2>1. CASE UNCHANGED turns
    <3>1. \A r \in Peer : Fewer(r)
      BY <2>1 DEF Fewer
    <3>2. QED
      BY <1>1, <3>1, FewerMail
  <2>2. CASE turns[p] # << >> /\ turns' = [turns EXCEPT ![p] = Tail(@)]
    <3>1. \A r \in Peer : Fewer(r)
      BY <2>2, TailIsFewer DEF SeriesInv
    <3>2. QED
      BY <1>1, <3>1, FewerMail
  <2>3. ASSUME NEW says, Deliver(p, says), phase[p] = "my_turn" PROVE \A r \in Peer : Mail(r)'
    <3>1. UNCHANGED number /\ phase'[p] \in Handshaken
      BY <1>1 DEF Onward
    <3>2. QED
      BY <1>2, <2>3, <3>1, DeliveryKeeps
  <2>4. QED
    BY <2>1, <2>2, <2>3 DEF TakeTurn, SendFails, AcceptTurn, RefuseTurn, Expire, Listening
<1>4. \A r \in Peer : heard'[r] \subseteq {number[r]}
  <2>1. \A r \in Peer : heard[r] \subseteq {number[r]}
    BY DEF SeriesInv, Progress
  <2>2. CASE AcceptTurn(p)
    <3>1. heard' = [heard EXCEPT ![p] = @ \cup {number[p]}]
      BY <2>2, HeardIsCurrent DEF AcceptTurn
    <3>2. QED
      BY <2>1, <3>1 DEF SeriesInv, TypeOK
  <2>3. CASE UNCHANGED heard
    BY <2>1, <2>3
  <2>4. QED
    BY <2>2, <2>3 DEF TakeTurn, SendFails, RefuseTurn, Expire, play
<1>5. \A r \in Peer : r # p => mine'[r] = mine[r] /\ seen'[r] = seen[r] /\ heard'[r] = heard[r]
  BY DEF TakeTurn, SendFails, AcceptTurn, RefuseTurn, Expire, play, SeriesInv, TypeOK
<1>6. QED
  BY <1>1, <1>3, <1>4, <1>5, OnwardInv

LEMMA AuditKeeps ==
  ASSUME SeriesInv, TypeOK', NEW p \in Peer, SubmitAudit(p) \/ ReadAudit(p) \/ MissAudit(p)
  PROVE  SeriesInv'
<1>1. /\ UNCHANGED <<number, negotiation, turns, agreed, mine, seen, heard, outcomes>>
      /\ phase[p] \in {"settle", "audit"}
      /\ \/ phase' = [phase EXCEPT ![p] = "audit"]
         \/ phase' = [phase EXCEPT ![p] = "record"]
  BY DEF SubmitAudit, ReadAudit, MissAudit, Goto, play
<1>2. Onward(p)
  BY <1>1 DEF Onward, Handshaken, SeriesInv, TypeOK
<1>3. \A r \in Peer : Fewer(r)
  BY <1>1 DEF Fewer
<1>4. \A r \in Peer : Mail(r)'
  BY <1>2, <1>3, FewerMail
<1>5. \A r \in Peer : heard'[r] \subseteq {number[r]}
  BY <1>1 DEF SeriesInv, Progress
<1>6. QED
  BY <1>1, <1>2, <1>4, <1>5, OnwardInv

LEMMA SeriesStep == NoCopies => (SeriesInv /\ [Next]_vars => SeriesInv')
<1> SUFFICES ASSUME NoCopies, SeriesInv, [Next]_vars PROVE SeriesInv'
  OBVIOUS
<1>1. TypeOK'
  BY TypeStep DEF SeriesInv
<1>2. ASSUME NEW p \in Peer, Process(p) PROVE SeriesInv'
  BY <1>1, <1>2, StartKeeps, OfferKeeps, AgreeKeeps, FailureKeeps, TurnKeeps, AuditKeeps,
     RecordKeeps DEF Process
<1>3. CASE UNCHANGED vars
  <2>1. \A p \in Peer : Consumed(p)' = Consumed(p) /\ Offered(p)' = Offered(p)
    BY <1>3 DEF vars, Consumed, Offered
  <2>2. \A p \in Peer : Handshakes(p)'
    BY <1>3, <2>1, Peers DEF vars, play, SeriesInv, Handshakes
  <2>3. \A p \in Peer : Mail(p)' /\ Progress(p)'
    BY <1>3 DEF vars, play, SeriesInv, Mail, Progress
  <2>4. QED
    BY <1>1, <2>2, <2>3 DEF SeriesInv
<1>4. QED
  BY <1>2, <1>3 DEF Next

LEMMA SeriesInvariant == ASSUME NoCopies PROVE Spec => []SeriesInv
<1>1. SeriesInv /\ [Next]_vars => SeriesInv'
  BY SeriesStep
<1>2. QED
  BY <1>1, SeriesInit, PTL DEF Spec

\* Whatever is lost, late or given up on, in a series of any length, the drain
\* before a sub-game discards no turn of it.
THEOREM DrainsAreSafe == ASSUME NoCopies PROVE Spec => []DrainIsSafe
<1>1. SeriesInv => DrainIsSafe
  <2> SUFFICES ASSUME SeriesInv, NEW p \in Peer, phase[p] = "start", NEW i \in DOMAIN turns[p]
               PROVE  turns[p][i].game < number[p]
    BY DEF DrainIsSafe
  <2>1. turns[p][i].game <= number[p] - 1
    BY DEF SeriesInv, Mail
  <2>2. turns[p][i].game \in Nat /\ number[p] \in Nat
    BY GameTyped DEF SeriesInv, TypeOK
  <2>3. QED
    BY <2>1, <2>2
<1>2. QED
  BY <1>1, SeriesInvariant, PTL

\* No runtime takes a turn of another sub-game for one of its own: what a late
\* opponent still sends is of the sub-game before, whose roles were swapped.
THEOREM TurnsStayCurrent == ASSUME NoCopies PROVE Spec => []TurnsAreCurrent
<1>1. SeriesInv => TurnsAreCurrent
  BY DEF SeriesInv, Progress, TurnsAreCurrent
<1>2. QED
  BY <1>1, SeriesInvariant, PTL

\* Though no inbox of agreements is ever drained, no handshake consumes the
\* agreement of an earlier sub-game.
THEOREM AgreementsStayCurrent == ASSUME NoCopies PROVE Spec => []AgreementsAreCurrent
<1>1. SeriesInv => AgreementsAreCurrent
  BY DEF SeriesInv, Handshakes, AgreementsAreCurrent
<1>2. QED
  BY <1>1, SeriesInvariant, PTL
-----------------------------------------------------------------------------
(* Without a fault the two processes go through the series in step.         *)

LEMMA SameGameBothWays ==
  ASSUME NEW p \in Peer
  PROVE  SameGame <=> number[p] = number[Other(p)]
BY DEF SameGame, Peer, Other

LEMMA RolesDiffer ==
  ASSUME TypeOK, NEW p \in Peer, SameGame
  PROVE  Role(Other(p)) # Role(p) /\ {Role(p), Role(Other(p))} = {"police", "thief"}
<1>1. number[p] \in Nat \ {0} /\ number[Other(p)] = number[p]
  BY SameGameBothWays DEF TypeOK
<1>2. QED
  BY <1>1, RolesAlternate, RoleTyped, Peers DEF Role

LEMMA StepsTyped ==
  ASSUME TypeOK
  PROVE  \A p \in Peer : mine[p] \in Nat /\ seen[p] \in Nat /\ number[p] \in Nat \ {0}
BY DEF TypeOK

\* Who plays is in the same sub-game as the other, and neither is gone.
LEMMA PlaysTogether ==
  ASSUME SeriesInv, Clean, NEW p \in Peer, phase[p] \in {"my_turn", "opp_turn", "settle"}
  PROVE  /\ SameGame /\ number[Other(p)] = number[p]
         /\ phase[Other(p)] \notin {"start", "offer", "over", "down"}
<1> DEFINE q == Other(p)
<1>1. q \in Peer /\ Other(q) = p
  BY Peers
<1>2. number[p] \in Nat /\ number[q] \in Nat
  BY <1>1 DEF SeriesInv, TypeOK
<1>3. /\ number[q] \in {number[p], number[p] + 1}
      /\ phase[q] \in {"start", "offer", "over"} => number[q] = number[p] + 1
  BY PlaysWhenOffered DEF Handshaken
<1>4. ~(number[q] > number[p]) /\ phase[q] # "down"
  BY <1>1 DEF Clean, InStep
<1>5. number[q] = number[p]
  BY <1>2, <1>3, <1>4
<1>6. QED
  BY <1>2, <1>3, <1>4, <1>5, SameGameBothWays

\* The other is never gone while it is needed.
LEMMA NotGone ==
  ASSUME SeriesInv, Clean, NEW p \in Peer, phase[p] \notin {"audit", "record", "over"}
  PROVE  ~Gone(Other(p))
<1> DEFINE q == Other(p)
<1>1. q \in Peer /\ Other(q) = p
  BY Peers
<1>2. phase[q] # "down"
  BY <1>1 DEF Clean, InStep
<1>3. number[p] \in Nat /\ number[q] \in Nat /\ NumGames \in Nat
  BY <1>1, SeriesAssumption DEF SeriesInv, TypeOK
<1>4. number[p] <= NumGames + 1 /\ number[p] # NumGames + 1
  BY DEF SeriesInv, Progress
<1>5. phase[q] = "over" => number[q] = NumGames + 1
  BY <1>1 DEF SeriesInv, Progress
<1>6. ~(number[q] > number[p])
  BY DEF Clean, InStep
<1>7. QED
  BY <1>2, <1>3, <1>4, <1>5, <1>6 DEF Gone

\* Who has not offered to play is alone: the other does not play either.
LEMMA NotYetPlaying ==
  ASSUME SeriesInv, NEW p \in Peer, SameGame, phase[p] \in {"start", "offer", "over"}
  PROVE  /\ phase[Other(p)] \notin Handshaken
         /\ mine[Other(p)] = 0 /\ seen[Other(p)] = 0 /\ mine[p] = 0 /\ seen[p] = 0
<1> DEFINE q == Other(p)
<1>1. q \in Peer /\ Other(q) = p
  BY Peers
<1>2. number[p] = number[q] /\ number[p] \in Nat
  BY SameGameBothWays DEF SeriesInv, TypeOK
<1>3. phase[q] \notin Handshaken
  BY <1>1, <1>2, PlaysWhenOffered
<1>4. phase[p] \notin Handshaken
  BY DEF Handshaken
<1>5. QED
  BY <1>1, <1>3, <1>4 DEF SeriesInv, Progress

\* What the counters and the turns of a peer say of it, in one sub-game.
LEMMA CountsAt ==
  ASSUME SeriesInv, Clean, SameGame, NEW p \in Peer
  PROVE  LET q == Other(p) IN
         /\ mine[p] \in Nat /\ seen[p] \in Nat
         /\ phase[p] \notin Handshaken => mine[p] = 0 /\ seen[p] = 0
         /\ phase[p] = "my_turn" => mine[p] = IF Role(p) = "thief" THEN seen[p] ELSE seen[p] - 1
         /\ phase[p] = "opp_turn" => mine[p] = IF Role(p) = "thief" THEN seen[p] + 1 ELSE seen[p]
         /\ phase[p] \in Settled => mine[p] = IF Role(p) = "thief" THEN seen[p] + 1 ELSE seen[p] - 1
         /\ mine[q] \in {seen[p], seen[p] + 1}
         /\ phase[p] \in Settled /\ phase[q] \notin Settled =>
              Role(p) = "thief" /\ mine[p] = seen[q] + 1
         /\ phase[p] \in {"my_turn", "opp_turn"} \/ phase[p] \in Settled \/ phase[p] \notin Handshaken
<1>1. mine[p] \in Nat /\ seen[p] \in Nat
  BY StepsTyped DEF SeriesInv
<1>2. phase[p] \notin Handshaken => mine[p] = 0 /\ seen[p] = 0
  BY DEF SeriesInv, Progress
<1>3. Counted(p) /\ OneTurn(p) /\ SettledAlike(p)
  BY DEF Clean
<1>4. QED
  BY <1>1, <1>2, <1>3 DEF Counted, OneTurn, SettledAlike, Handshaken, Settled

\* Whose turn it is has been heard to the end, and the other still listens.
LEMMA MyTurnIsMine ==
  ASSUME SeriesInv, Clean, NEW p \in Peer, phase[p] = "my_turn"
  PROVE  /\ mine[p] = seen[Other(p)] /\ turns[Other(p)] = << >>
         /\ phase[Other(p)] \notin Settled
<1> DEFINE q == Other(p)
<1>0. q \in Peer /\ Other(q) = p
  BY Peers
<1>1. SameGame
  BY PlaysTogether
<1>2. {Role(p), Role(q)} = {"police", "thief"} /\ Role(p) # Role(q)
  BY <1>1, RolesDiffer DEF SeriesInv
<1>3. phase[p] \notin Settled
  BY DEF Settled
<1>4. /\ mine[p] \in Nat /\ seen[p] \in Nat
      /\ mine[p] = IF Role(p) = "thief" THEN seen[p] ELSE seen[p] - 1
      /\ mine[q] \in {seen[p], seen[p] + 1}
  BY <1>1, CountsAt
<1>5. /\ mine[q] \in Nat /\ seen[q] \in Nat
      /\ phase[q] \notin Handshaken => mine[q] = 0 /\ seen[q] = 0
      /\ phase[q] = "my_turn" => mine[q] = IF Role(q) = "thief" THEN seen[q] ELSE seen[q] - 1
      /\ phase[q] = "opp_turn" => mine[q] = IF Role(q) = "thief" THEN seen[q] + 1 ELSE seen[q]
      /\ phase[q] \in Settled => mine[q] = IF Role(q) = "thief" THEN seen[q] + 1 ELSE seen[q] - 1
      /\ mine[p] \in {seen[q], seen[q] + 1}
      /\ phase[q] \in Settled => Role(q) = "thief" /\ mine[q] = seen[p] + 1
      /\ phase[q] \in {"my_turn", "opp_turn"} \/ phase[q] \in Settled \/ phase[q] \notin Handshaken
  BY <1>0, <1>1, <1>3, CountsAt
<1> HIDE DEF q
<1>6. ASSUME Role(p) = "thief" PROVE mine[p] = seen[q] /\ phase[q] \notin Settled
  <2>1. Role(q) = "police"
    BY <1>2, <1>6
  <2>2. phase[q] \notin Settled
    BY <1>5, <2>1
  <2>3. mine[p] = seen[q]
    BY <1>4, <1>5, <1>6, <2>1, <2>2
  <2>4. QED
    BY <2>2, <2>3
<1>7. ASSUME Role(p) = "police" PROVE mine[p] = seen[q] /\ phase[q] \notin Settled
  <2>1. Role(q) = "thief"
    BY <1>2, <1>7
  <2>2. phase[q] \notin Settled
    BY <1>4, <1>5, <1>7, <2>1
  <2>3. mine[p] = seen[q]
    BY <1>4, <1>5, <1>7, <2>1, <2>2
  <2>4. QED
    BY <2>2, <2>3
<1>8. mine[p] = seen[q] /\ phase[q] \notin Settled
  BY <1>2, <1>6, <1>7
<1>9. turns[q] = << >>
  <2>1. mine[p] # seen[q] + 1
    BY <1>5, <1>8
  <2>2. OneTurn(q)
    BY <1>0 DEF Clean
  <2>3. QED
    BY <1>0, <2>1, <2>2 DEF OneTurn
<1>10. QED
  BY <1>8, <1>9 DEF q

\* A peer that waits has been heard, if it can hear something.
LEMMA HeardWhenAnswered ==
  ASSUME SeriesInv, Clean, NEW p \in Peer, phase[p] = "opp_turn",
         mine[Other(p)] = seen[p] + 1
  PROVE  mine[p] = seen[Other(p)] /\ turns[Other(p)] = << >>
<1> DEFINE q == Other(p)
<1>0. q \in Peer /\ Other(q) = p
  BY Peers
<1>1. SameGame
  BY PlaysTogether
<1>2. {Role(p), Role(q)} = {"police", "thief"} /\ Role(p) # Role(q)
  BY <1>1, RolesDiffer DEF SeriesInv
<1>3. phase[p] \notin Settled
  BY DEF Settled
<1>4. /\ mine[p] \in Nat /\ seen[p] \in Nat
      /\ mine[p] = IF Role(p) = "thief" THEN seen[p] + 1 ELSE seen[p]
      /\ mine[q] = seen[p] + 1
  BY <1>1, CountsAt
<1>5. /\ mine[q] \in Nat /\ seen[q] \in Nat
      /\ phase[q] \notin Handshaken => mine[q] = 0 /\ seen[q] = 0
      /\ phase[q] = "my_turn" => mine[q] = IF Role(q) = "thief" THEN seen[q] ELSE seen[q] - 1
      /\ phase[q] = "opp_turn" => mine[q] = IF Role(q) = "thief" THEN seen[q] + 1 ELSE seen[q]
      /\ phase[q] \in Settled => mine[q] = IF Role(q) = "thief" THEN seen[q] + 1 ELSE seen[q] - 1
      /\ mine[p] \in {seen[q], seen[q] + 1}
      /\ phase[q] \in Settled => Role(q) = "thief" /\ mine[q] = seen[p] + 1
      /\ phase[q] \in {"my_turn", "opp_turn"} \/ phase[q] \in Settled \/ phase[q] \notin Handshaken
  BY <1>0, <1>1, <1>3, CountsAt
<1> HIDE DEF q
<1>6. ASSUME Role(p) = "thief" PROVE mine[p] = seen[q]
  <2>1. Role(q) = "police"
    BY <1>2, <1>6
  <2>2. QED
    BY <1>4, <1>5, <1>6, <2>1
<1>7. ASSUME Role(p) = "police" PROVE mine[p] = seen[q]
  <2>1. Role(q) = "thief"
    BY <1>2, <1>7
  <2>2. QED
    BY <1>4, <1>5, <1>7, <2>1
<1>8. mine[p] = seen[q]
  BY <1>2, <1>6, <1>7
<1>9. turns[q] = << >>
  <2>1. mine[p] # seen[q] + 1
    BY <1>5, <1>8
  <2>2. OneTurn(q)
    BY <1>0 DEF Clean
  <2>3. QED
    BY <1>0, <2>1, <2>2 DEF OneTurn
<1>10. QED
  BY <1>8, <1>9 DEF q

LEMMA RowsKept ==
  ASSUME SeriesInv, Clean, UNCHANGED <<number, outcomes>>, UNCHANGED verdict \/ SameGame
  PROVE  \A r \in Peer : RowsAgree(r)'
<1> SUFFICES ASSUME NEW r \in Peer PROVE RowsAgree(r)'
  OBVIOUS
<1>1. RowsAgree(r)
  BY DEF Clean
<1>2. SameGame => number[r] = number[Other(r)]
  BY SameGameBothWays
<1>3. CASE UNCHANGED verdict
  BY <1>1, <1>3 DEF RowsAgree
<1>4. CASE SameGame
  <2>1. number[r] \in Nat
    BY DEF SeriesInv, TypeOK
  <2>2. ~(number[r] > number[Other(r)])
    BY <1>2, <1>4, <2>1
  <2>3. QED
    BY <1>1, <2>2 DEF RowsAgree
<1>5. QED
  BY <1>3, <1>4

\* The steps before the audit see no reveal come or go.
BeforeAudit == {"await", "my_turn", "opp_turn", "settle"}

LEMMA RevealsKept ==
  ASSUME Clean, UNCHANGED <<number, audits, audit>>, NEW p \in Peer,
         phase[p] \in BeforeAudit, phase'[p] \in BeforeAudit,
         \A r \in Peer : r # p => phase'[r] = phase[r]
  PROVE  \A r \in Peer : OneReveal(r)'
<1> SUFFICES ASSUME NEW r \in Peer PROVE OneReveal(r)'
  OBVIOUS
<1>1. \A o \in Peer : Revealed(o)' <=> Revealed(o)
  <2> SUFFICES ASSUME NEW o \in Peer PROVE Revealed(o)' <=> Revealed(o)
    OBVIOUS
  <2>1. phase'[o] \in {"audit", "record"} <=> phase[o] \in {"audit", "record"}
    BY DEF BeforeAudit
  <2>2. QED
    BY <2>1 DEF Revealed, SameGame
<1>2. Revealed(Other(r))' <=> Revealed(Other(r))
  BY <1>1, Peers
<1>3. /\ phase'[r] = "record" <=> phase[r] = "record"
      /\ phase'[r] \in {"await", "my_turn", "opp_turn", "settle", "audit"}
           <=> phase[r] \in {"await", "my_turn", "opp_turn", "settle", "audit"}
  BY DEF BeforeAudit
<1>4. OneReveal(r)
  BY DEF Clean
<1>5. QED
  BY <1>2, <1>3, <1>4 DEF OneReveal

LEMMA CleanStart ==
  ASSUME SeriesInv, Clean, NEW p \in Peer, StartSubGame(p)
  PROVE  Clean'
<1> DEFINE q == Other(p)
<1>0. q \in Peer /\ q # p /\ Other(q) = p /\ \A r \in Peer : r = p \/ r = q
  BY Peers
<1>1. /\ phase[p] = "start" /\ phase'[p] = "offer" /\ phase'[q] = phase[q]
      /\ turns'[p] = << >> /\ turns'[q] = turns[q] /\ audits'[p] = << >> /\ audits'[q] = audits[q]
      /\ UNCHANGED <<number, mine, seen, verdict, audit, outcomes>>
  BY <1>0 DEF StartSubGame, Drain, Goto, SeriesInv, TypeOK, play
<1>2. SameGame => phase[q] \notin Handshaken /\ mine[q] = 0 /\ seen[p] = 0
  BY <1>1, NotYetPlaying
<1>3. \A r \in Peer : InStep(r) /\ Counted(r) /\ OneTurn(r) /\ SettledAlike(r) /\ OneReveal(r)
  BY DEF Clean
<1>4. \A r \in Peer : InStep(r)' /\ Counted(r)' /\ SettledAlike(r)'
  BY <1>0, <1>1, <1>3 DEF InStep, Counted, SettledAlike, Settled, SameGame, Role
<1>5. OneTurn(p)' /\ OneTurn(q)'
  <2>1. OneTurn(p)'
    BY <1>0, <1>1, <1>2, <1>3 DEF OneTurn, SameGame
  <2>2. OneTurn(q)'
    BY <1>0, <1>1, <1>3 DEF OneTurn, SameGame, LatestTurn, Role
  <2>3. QED
    BY <2>1, <2>2
<1>6. OneReveal(p)' /\ OneReveal(q)'
  BY <1>0, <1>1, <1>2, <1>3 DEF OneReveal, Revealed, SameGame, Handshaken
<1>7. \A r \in Peer : RowsAgree(r)'
  BY <1>1, RowsKept
<1>8. QED
  BY <1>0, <1>4, <1>5, <1>6, <1>7 DEF Clean

\* Offering, and being agreed.
LEMMA CleanHandshake ==
  ASSUME SeriesInv, Clean, NEW p \in Peer, Offer(p) \/ Agree(p)
  PROVE  Clean'
<1> DEFINE q == Other(p)
<1>0. q \in Peer /\ q # p /\ Other(q) = p /\ \A r \in Peer : r = p \/ r = q
  BY Peers
<1>1. /\ phase'[q] = phase[q]
      /\ \/ phase[p] = "offer" /\ phase'[p] = "await"
         \/ phase[p] = "await" /\ phase'[p] = IF Role(p) = "thief" THEN "my_turn" ELSE "opp_turn"
      /\ UNCHANGED <<number, turns, audits, mine, seen, verdict, audit, outcomes>>
  BY <1>0 DEF Offer, Agree, Goto, SeriesInv, TypeOK, play
<1>2. mine[p] = 0 /\ seen[p] = 0
  BY <1>1 DEF SeriesInv, Progress, Handshaken
<1>3. \A r \in Peer : InStep(r) /\ Counted(r) /\ OneTurn(r) /\ SettledAlike(r) /\ OneReveal(r)
  BY DEF Clean
<1>4. Counted(p)'
  BY <1>1, <1>2 DEF Counted, Settled, Role
<1>5. Counted(q)'
  BY <1>0, <1>1, <1>3 DEF Counted, Role
<1>6. phase'[p] \notin Settled /\ phase[p] \notin Settled
  BY <1>1 DEF Settled
<1>7. InStep(p)' /\ InStep(q)' /\ SettledAlike(p)' /\ SettledAlike(q)'
  BY <1>0, <1>1, <1>3, <1>6 DEF InStep, SettledAlike, SameGame, Role
<1>8. \A r \in Peer : OneTurn(r)'
  BY <1>1, <1>3 DEF OneTurn, SameGame, LatestTurn, Role
<1>9. \A r \in Peer : OneReveal(r)'
  <2>1. CASE phase[p] = "await"
    <3>1. phase[p] \in BeforeAudit /\ phase'[p] \in BeforeAudit
      BY <1>1, <2>1 DEF BeforeAudit
    <3>2. QED
      BY <1>0, <1>1, <3>1, RevealsKept
  <2>2. CASE phase[p] = "offer"
    <3>1. SameGame => phase[q] \notin Handshaken
      BY <2>2, NotYetPlaying
    <3>2. ~(number[q] > number[p])
      BY <1>3, <2>2 DEF InStep
    <3>3. ~Revealed(q)
      BY <1>0, <3>1, <3>2 DEF Revealed, Handshaken
    <3>4. (Revealed(q)' <=> Revealed(q)) /\ (Revealed(p)' <=> Revealed(p))
      BY <1>0, <1>1, <2>2 DEF Revealed, SameGame
    <3>5. OneReveal(p)'
      BY <1>0, <1>1, <1>3, <2>2, <3>3, <3>4 DEF OneReveal
    <3>6. OneReveal(q)'
      BY <1>0, <1>1, <1>3, <3>4 DEF OneReveal
    <3>7. QED
      BY <1>0, <3>5, <3>6
  <2>3. QED
    BY <1>1, <2>1, <2>2
<1>10. \A r \in Peer : RowsAgree(r)'
  BY <1>1, RowsKept
<1>11. QED
  BY <1>0, <1>4, <1>5, <1>7, <1>8, <1>9, <1>10 DEF Clean

LEMMA CleanTurn ==
  ASSUME SeriesInv, Clean, NEW p \in Peer, TakeTurn(p)
  PROVE  Clean'
<1> DEFINE q == Other(p)
<1>0. q \in Peer /\ q # p /\ Other(q) = p /\ \A r \in Peer : r = p \/ r = q
  BY Peers
<1>1. phase[p] = "my_turn" /\ mine'[p] = mine[p] + 1 /\ mine'[q] = mine[q]
      /\ UNCHANGED <<number, audits, seen, audit, outcomes>>
  BY <1>0 DEF TakeTurn, SeriesInv, TypeOK
<1>2. PICK says \in Says(p) :
        /\ Deliver(p, says)
        /\ \/ says = "caught" /\ Settle(p, "capture")
           \/ says = "win" /\ Settle(p, "survival")
           \/ says = "turn" /\ Goto(p, "opp_turn") /\ UNCHANGED verdict
  BY DEF TakeTurn
<1>3. /\ phase'[q] = phase[q] /\ verdict'[q] = verdict[q]
      /\ \/ says = "caught" /\ phase'[p] = "settle" /\ verdict'[p] = "capture"
         \/ says = "win" /\ phase'[p] = "settle" /\ verdict'[p] = "survival"
         \/ says = "turn" /\ phase'[p] = "opp_turn" /\ verdict'[p] = verdict[p]
  BY <1>0, <1>2 DEF Settle, Goto, SeriesInv, TypeOK
<1>4. says # "turn" => Role(p) = "thief"
  BY <1>2 DEF Says
<1>5. /\ SameGame /\ number[q] = number[p]
      /\ mine[p] = seen[q] /\ turns[q] = << >> /\ phase[q] \notin Settled
  BY <1>1, PlaysTogether, MyTurnIsMine
<1>6. \A r \in Peer : InStep(r) /\ Counted(r) /\ OneTurn(r) /\ SettledAlike(r)
  BY DEF Clean
<1>7. verdict[p] = "none"
  BY <1>1, <1>6 DEF SettledAlike, Settled
<1>8. mine[p] \in Nat /\ seen[p] \in Nat /\ number[p] \in Nat
  BY DEF SeriesInv, TypeOK
<1>9. Counted(p)'
  <2>1. mine[p] = IF Role(p) = "thief" THEN seen[p] ELSE seen[p] - 1
    BY <1>1, <1>6 DEF Counted
  <2>2. Role(p)' = Role(p) /\ Role(p) \in {"police", "thief"}
    BY <1>1, RoleTyped DEF Role
  <2>3. QED
    BY <1>1, <1>3, <1>4, <1>8, <2>1, <2>2 DEF Counted, Settled
<1>10. Counted(q)'
  BY <1>0, <1>1, <1>3, <1>6 DEF Counted, Role
<1>11. InStep(p)' /\ InStep(q)'
  BY <1>0, <1>1, <1>3, <1>5, <1>6, <1>8 DEF InStep
<1>12. turns'[q] = <<LatestTurn(p)'>> /\ turns'[p] = turns[p]
  <2> DEFINE m == [game |-> number[p], sender |-> Role(p), step |-> mine[p] + 1, says |-> says]
  <2>1. turns'[q] = Append(turns[q], m) /\ turns'[p] = turns[p]
    BY <1>0, <1>2 DEF Deliver, SeriesInv, TypeOK
  <2>2. says = Word[verdict'[p]]
    BY <1>3, <1>7 DEF Word
  <2>3. m = LatestTurn(p)'
    BY <1>1, <2>2 DEF LatestTurn, Role
  <2> HIDE DEF m
  <2>4. turns'[q] = <<m>>
    BY <1>5, <2>1
  <2>5. QED
    BY <2>1, <2>3, <2>4
<1>13. OneTurn(q)'
  BY <1>0, <1>1, <1>5, <1>12 DEF OneTurn, SameGame
<1>14. OneTurn(p)'
  BY <1>0, <1>1, <1>3, <1>6, <1>12 DEF OneTurn, SameGame, LatestTurn, Role
<1>15. SettledAlike(p)'
  BY <1>0, <1>1, <1>3, <1>4, <1>5, <1>7 DEF SettledAlike, SameGame, Settled, Role
<1>16. SettledAlike(q)'
  BY <1>0, <1>1, <1>3, <1>5, <1>6 DEF SettledAlike
<1>17. phase[p] \in BeforeAudit /\ phase'[p] \in BeforeAudit
  BY <1>1, <1>3 DEF BeforeAudit
<1>18. (\A r \in Peer : OneReveal(r)') /\ (\A r \in Peer : RowsAgree(r)')
  BY <1>0, <1>1, <1>3, <1>5, <1>17, RevealsKept, RowsKept
<1>19. QED
  BY <1>0, <1>9, <1>10, <1>11, <1>13, <1>14, <1>15, <1>16, <1>18 DEF Clean

\* In step, what is in the inbox is the other's latest turn.
LEMMA InboxIsLatest ==
  ASSUME SeriesInv, Clean, NEW p \in Peer, turns[p] # << >>
  PROVE  LET q == Other(p) IN
         /\ SameGame /\ mine[q] = seen[p] + 1
         /\ turns[p] = <<LatestTurn(q)>>
         /\ Head(turns[p]) = LatestTurn(q) /\ Tail(turns[p]) = << >>
<1> DEFINE q == Other(p)
<1>1. OneTurn(p)
  BY DEF Clean
<1>2. SameGame /\ mine[q] = seen[p] + 1 /\ turns[p] = <<LatestTurn(q)>>
  BY <1>1 DEF OneTurn
<1>3. QED
  BY <1>2

LEMMA LatestIsInSequence ==
  ASSUME SeriesInv, Clean, NEW p \in Peer, Listening(p)
  PROVE  InSequence(p, Head(turns[p]))
<1>1. SameGame /\ mine[Other(p)] = seen[p] + 1 /\ Head(turns[p]) = LatestTurn(Other(p))
  BY InboxIsLatest DEF Listening
<1>2. Role(Other(p)) # Role(p)
  BY <1>1, RolesDiffer DEF SeriesInv
<1>3. QED
  BY <1>1, <1>2 DEF InSequence, LatestTurn

LEMMA CleanAccept ==
  ASSUME SeriesInv, Clean, NEW p \in Peer, AcceptTurn(p)
  PROVE  Clean'
<1> DEFINE q == Other(p)
<1>0. q \in Peer /\ q # p /\ Other(q) = p /\ \A r \in Peer : r = p \/ r = q
  BY Peers
<1> DEFINE m == Head(turns[p])
<1>1. /\ phase[p] = "opp_turn" /\ turns[p] # << >>
      /\ turns'[p] = Tail(turns[p]) /\ turns'[q] = turns[q]
      /\ seen'[p] = m.step /\ seen'[q] = seen[q]
      /\ UNCHANGED <<number, audits, mine, audit, outcomes>>
  BY <1>0 DEF AcceptTurn, Listening, SeriesInv, TypeOK
<1>2. \/ m.says = "caught" /\ Settle(p, "capture")
      \/ m.says = "win" /\ Settle(p, "survival")
      \/ m.says = "turn" /\ Goto(p, "my_turn") /\ UNCHANGED verdict
  BY DEF AcceptTurn
<1>3. /\ phase'[q] = phase[q] /\ verdict'[q] = verdict[q]
      /\ \/ m.says = "caught" /\ phase'[p] = "settle" /\ verdict'[p] = "capture"
         \/ m.says = "win" /\ phase'[p] = "settle" /\ verdict'[p] = "survival"
         \/ m.says = "turn" /\ phase'[p] = "my_turn" /\ verdict'[p] = verdict[p]
  BY <1>0, <1>2 DEF Settle, Goto, SeriesInv, TypeOK
<1>4. /\ SameGame /\ number[q] = number[p] /\ mine[q] = seen[p] + 1
      /\ m = LatestTurn(q) /\ Tail(turns[p]) = << >>
  BY <1>1, PlaysTogether, InboxIsLatest
<1>5. mine[p] = seen[q] /\ turns[q] = << >>
  BY <1>1, <1>4, HeardWhenAnswered
<1>6. \A r \in Peer : InStep(r) /\ Counted(r) /\ OneTurn(r) /\ SettledAlike(r)
  BY DEF Clean
<1>7. m.step = mine[q] /\ m.says = Word[verdict[q]]
  BY <1>4 DEF LatestTurn
<1> HIDE DEF m
<1>8. /\ mine[p] \in Nat /\ seen[p] \in Nat /\ number[p] \in Nat
      /\ seen[q] \in Nat /\ mine[q] \in Nat
  BY <1>0 DEF SeriesInv, TypeOK
<1>9. verdict[q] \in {"capture", "survival", "none"}
  BY <1>0, <1>6 DEF SettledAlike
<1>10. /\ m.says = "caught" <=> verdict[q] = "capture"
       /\ m.says = "win" <=> verdict[q] = "survival"
  BY <1>7, <1>9 DEF Word
<1>11. phase[q] \in Settled <=> verdict[q] # "none"
  BY <1>0, <1>6 DEF SettledAlike
<1>12. phase[q] \in Settled => Role(q) = "thief"
  <2>1. phase[p] \notin Settled
    BY <1>1 DEF Settled
  <2>2. QED
    BY <1>0, <1>4, <1>6, <2>1 DEF SettledAlike
<1>13. m.says # "turn" => phase[q] \in Settled /\ Role(p) = "police"
  <2>1. Role(p) # Role(q) /\ Role(p) \in {"police", "thief"}
    BY <1>4, RolesDiffer, RoleTyped DEF Role, SeriesInv
  <2>2. QED
    BY <1>3, <1>10, <1>11, <1>12, <2>1
<1>14. Counted(p)'
  <2>1. mine[p] = IF Role(p) = "thief" THEN seen[p] + 1 ELSE seen[p]
    BY <1>1, <1>6 DEF Counted
  <2>2. Role(p)' = Role(p) /\ Role(p) \in {"police", "thief"} /\ seen'[p] = seen[p] + 1
        /\ mine'[p] = mine[p]
    BY <1>1, <1>4, <1>7, RoleTyped DEF Role
  <2>3. QED
    BY <1>3, <1>8, <1>13, <2>1, <2>2 DEF Counted, Settled
<1>15. Counted(q)'
  BY <1>0, <1>1, <1>3, <1>6 DEF Counted, Role
<1>16. InStep(p)' /\ InStep(q)'
  BY <1>0, <1>1, <1>3, <1>4, <1>6, <1>8 DEF InStep
<1>17. OneTurn(p)'
  <2>1. mine'[q] = seen'[p] /\ mine'[q] # seen'[p] + 1 /\ turns'[p] = << >>
    BY <1>1, <1>4, <1>7, <1>8
  <2>2. QED
    BY <2>1 DEF OneTurn
<1>18. OneTurn(q)'
  BY <1>0, <1>1, <1>4, <1>5, <1>8 DEF OneTurn, SameGame
<1>19. SettledAlike(p)'
  <2>1. phase'[p] \in Settled <=> m.says # "turn"
    BY <1>3 DEF Settled
  <2>2. verdict[p] = "none"
    BY <1>1, <1>6 DEF SettledAlike, Settled
  <2>3. QED
    BY <1>3, <1>10, <1>11, <1>13, <2>1, <2>2 DEF SettledAlike
<1>20. SettledAlike(q)'
  <2>1. phase'[p] \in Settled <=> m.says # "turn"
    BY <1>3 DEF Settled
  <2>2. CASE m.says = "turn"
    <3>1. phase[q] \notin Settled
      BY <1>9, <1>10, <1>11, <2>2, <1>7 DEF Word
    <3>2. QED
      BY <1>0, <1>3, <1>6, <3>1 DEF SettledAlike
  <2>3. CASE m.says # "turn"
    BY <1>0, <1>3, <1>9, <1>10, <1>11, <1>13, <2>1, <2>3 DEF SettledAlike
  <2>4. QED
    BY <2>2, <2>3
<1>21. phase[p] \in BeforeAudit /\ phase'[p] \in BeforeAudit
  BY <1>1, <1>3 DEF BeforeAudit
<1>22. (\A r \in Peer : OneReveal(r)') /\ (\A r \in Peer : RowsAgree(r)')
  BY <1>0, <1>1, <1>3, <1>4, <1>21, RevealsKept, RowsKept
<1>23. QED
  BY <1>0, <1>14, <1>15, <1>16, <1>17, <1>18, <1>19, <1>20, <1>22 DEF Clean

\* No deadline runs out: a peer that waits for nothing is not the only one.
LEMMA NobodyWaitsInVain ==
  ASSUME SeriesInv, Clean, NEW p \in Peer, phase[p] = "opp_turn", turns[p] = << >>
  PROVE  ~NothingComes(p)
<1> DEFINE q == Other(p)
<1>0. q \in Peer /\ Other(q) = p
  BY Peers
<1>1. SameGame /\ number[q] = number[p] /\ number[p] \in Nat
  BY PlaysTogether DEF SeriesInv, TypeOK
<1>2. ~Gone(q)
  BY NotGone
<1>3. phase[p] \notin Settled
  BY DEF Settled
<1>4. /\ mine[p] \in Nat /\ seen[p] \in Nat
      /\ mine[p] = IF Role(p) = "thief" THEN seen[p] + 1 ELSE seen[p]
      /\ mine[q] \in {seen[p], seen[p] + 1}
  BY <1>1, CountsAt
<1>5. /\ phase[q] \in Settled => mine[q] = seen[p] + 1
      /\ phase[q] = "opp_turn" => mine[q] = IF Role(q) = "thief" THEN seen[q] + 1 ELSE seen[q]
      /\ mine[p] \in {seen[q], seen[q] + 1} /\ seen[q] \in Nat
  BY <1>0, <1>1, <1>3, CountsAt
<1>6. OneTurn(p) /\ OneTurn(q)
  BY <1>0 DEF Clean
<1>7. mine[q] = seen[p]
  <2>1. <<LatestTurn(q)>> # << >>
    OBVIOUS
  <2>2. mine[q] # seen[p] + 1
    BY <1>1, <1>6, <2>1 DEF OneTurn
  <2>3. QED
    BY <1>4, <2>2
<1>8. phase[q] \notin Settled
  BY <1>4, <1>5, <1>7
<1>9. ~(phase[q] = "opp_turn" /\ turns[q] = << >>)
  <2> SUFFICES ASSUME phase[q] = "opp_turn", turns[q] = << >> PROVE FALSE
    OBVIOUS
  <2>1. mine[p] = seen[q]
    <3>1. <<LatestTurn(p)>> # << >>
      OBVIOUS
    <3>2. mine[p] # seen[q] + 1
      BY <1>0, <1>1, <1>6, <3>1 DEF OneTurn
    <3>3. QED
      BY <1>5, <3>2
  <2>2. mine[q] = IF Role(q) = "thief" THEN seen[q] + 1 ELSE seen[q]
    BY <1>5
  <2>3. Role(p) # Role(q) /\ {Role(p), Role(q)} = {"police", "thief"}
    BY <1>1, RolesDiffer DEF SeriesInv
  <2> HIDE DEF q
  <2>4. CASE Role(p) = "thief"
    BY <1>4, <1>5, <1>7, <2>1, <2>2, <2>3, <2>4
  <2>5. CASE Role(p) = "police"
    BY <1>4, <1>5, <1>7, <2>1, <2>2, <2>3, <2>5
  <2>6. QED
    BY <2>3, <2>4, <2>5
<1>10. QED
  BY <1>1, <1>2, <1>8, <1>9 DEF NothingComes, Settled

\* The steps that only a fault explains.
LEMMA NoFaultNoFailure ==
  ASSUME SeriesInv, Clean, NEW p \in Peer, faults' = faults
  PROVE  ~HandshakeFails(p) /\ ~SendFails(p) /\ ~RefuseTurn(p) /\ ~Expire(p) /\ ~MissAudit(p)
<1> DEFINE q == Other(p)
<1>0. q \in Peer /\ Other(q) = p
  BY Peers
<1>1. ~Fault
  BY DEF Fault, SeriesInv, TypeOK
<1>2. ~HandshakeFails(p)
  BY <1>1, NotGone DEF HandshakeFails, NoAnswer
<1>3. ~SendFails(p)
  BY <1>1, NotGone DEF SendFails
<1>4. ~RefuseTurn(p)
  BY LatestIsInSequence DEF RefuseTurn
<1>5. ~Expire(p)
  BY <1>1, NobodyWaitsInVain DEF Expire
<1>6. ~MissAudit(p)
  <2> SUFFICES ASSUME MissAudit(p) PROVE FALSE
    OBVIOUS
  <2>1. phase[p] = "audit" /\ audits[p] = << >> /\ NoReveal(p)
    BY <1>1 DEF MissAudit
  <2>2. number[q] \in {number[p], number[p] + 1} /\ phase[q] # "down"
    BY <1>0, <2>1, PlaysWhenOffered DEF Handshaken, Clean, InStep
  <2>3. number[q] = number[p] => SameGame
    BY SameGameBothWays
  <2>4. number[p] \in Nat
    BY DEF SeriesInv, TypeOK
  <2>5. Revealed(q)
    BY <1>0, <2>1, <2>2, <2>3, <2>4 DEF NoReveal, Revealed
  <2>6. Len(audits[p]) = 1
    BY <2>1, <2>5 DEF Clean, OneReveal
  <2>7. QED
    BY <2>1, <2>6
<1>7. QED
  BY <1>2, <1>3, <1>4, <1>5, <1>6

LEMMA CleanSubmit ==
  ASSUME SeriesInv, Clean, NEW p \in Peer, SubmitAudit(p), faults' = faults
  PROVE  Clean'
<1> DEFINE q == Other(p)
<1>0. q \in Peer /\ q # p /\ Other(q) = p /\ \A r \in Peer : r = p \/ r = q
  BY Peers
<1>1. ~Fault
  BY DEF Fault, SeriesInv, TypeOK
<1>2. phase[p] = "settle" /\ ~Gone(q)
  BY NotGone DEF SubmitAudit
<1>3. audits' = [audits EXCEPT ![q] = Append(@, [game |-> number[p], steps |-> mine[p]])]
  BY <1>1, <1>2 DEF SubmitAudit
<1>4. /\ phase'[p] = "audit" /\ phase'[q] = phase[q]
      /\ UNCHANGED <<number, turns, mine, seen, verdict, audit, outcomes>>
  BY <1>0 DEF SubmitAudit, Goto, SeriesInv, TypeOK, play
<1>5. /\ SameGame /\ number[q] = number[p] /\ number[p] \in Nat
      /\ phase[q] \notin {"start", "offer", "over", "down"}
  BY <1>2, PlaysTogether DEF SeriesInv, TypeOK
<1>6. \A r \in Peer : InStep(r) /\ Counted(r) /\ OneTurn(r) /\ SettledAlike(r) /\ OneReveal(r)
  BY DEF Clean
<1>7. \A r \in Peer : phase'[r] \in Settled <=> phase[r] \in Settled
  BY <1>0, <1>2, <1>4 DEF Settled
<1>8. phase[p] \in Settled
  BY <1>2 DEF Settled
<1>9. Counted(p)' /\ Counted(q)'
  BY <1>0, <1>4, <1>6, <1>7, <1>8 DEF Counted, Role
<1>10. InStep(p)' /\ InStep(q)'
  BY <1>0, <1>4, <1>5, <1>6 DEF InStep
<1>11. \A r \in Peer : OneTurn(r)'
  BY <1>4, <1>6 DEF OneTurn, SameGame, LatestTurn, Role
<1>12. SettledAlike(p)' /\ SettledAlike(q)'
  BY <1>0, <1>4, <1>6, <1>7 DEF SettledAlike, SameGame, Role
<1>13. ~Revealed(p) /\ Revealed(p)' /\ (Revealed(q)' <=> Revealed(q))
  BY <1>0, <1>2, <1>4, <1>5 DEF Revealed, SameGame
<1>14. OneReveal(p)'
  <2>1. audits'[p] = audits[p]
    BY <1>0, <1>3 DEF SeriesInv, TypeOK
  <2>2. QED
    BY <1>2, <1>4, <1>6, <1>13, <2>1 DEF OneReveal
<1>15. OneReveal(q)'
  <2>1. audits[q] = << >> /\ phase[q] # "record" /\ audit[q] = NoAudit
    BY <1>0, <1>6, <1>13 DEF OneReveal
  <2>2. audits'[q] = <<[game |-> number[p], steps |-> mine[p]]>>
    BY <1>0, <1>3, <2>1 DEF SeriesInv, TypeOK
  <2>3. Len(audits'[q]) = 1 /\ Head(audits'[q]).game = number[p]
    BY <2>2
  <2>4. phase[q] \in {"await", "my_turn", "opp_turn", "settle", "audit"}
    BY <1>0, <1>5, <2>1 DEF SeriesInv, TypeOK, Phase
  <2>5. QED
    BY <1>0, <1>4, <1>5, <1>13, <2>1, <2>3, <2>4 DEF OneReveal
<1>16. \A r \in Peer : RowsAgree(r)'
  BY <1>4, RowsKept
<1>17. QED
  BY <1>0, <1>9, <1>10, <1>11, <1>12, <1>14, <1>15, <1>16 DEF Clean

LEMMA CleanReveal ==
  ASSUME SeriesInv, Clean, NEW p \in Peer, ReadAudit(p)
  PROVE  Clean'
<1> DEFINE q == Other(p)
<1>0. q \in Peer /\ q # p /\ Other(q) = p /\ \A r \in Peer : r = p \/ r = q
  BY Peers
<1>1. phase[p] = "audit" /\ audits[p] # << >>
  BY DEF ReadAudit
<1>2. \A r \in Peer : InStep(r) /\ Counted(r) /\ OneTurn(r) /\ SettledAlike(r) /\ OneReveal(r)
  BY DEF Clean
<1>3. Revealed(q) /\ Len(audits[p]) = 1 /\ Head(audits[p]).game = number[p]
  BY <1>1, <1>2 DEF OneReveal
<1>4. ~Differs(p, Head(audits[p]))
  <2>1. heard[p] \subseteq {number[p]}
    BY DEF SeriesInv, Progress
  <2>2. QED
    BY <1>3, <2>1 DEF Differs
<1>5. /\ phase'[p] = "record" /\ phase'[q] = phase[q]
      /\ audits'[p] = Tail(audits[p]) /\ audits'[q] = audits[q]
      /\ audit'[p] = Passed /\ audit'[q] = audit[q]
      /\ UNCHANGED <<number, turns, mine, seen, outcomes>>
  <2>1. phase'[p] = "record" /\ phase'[q] = phase[q] /\ UNCHANGED <<number, turns, mine, seen, outcomes>>
    BY <1>0 DEF ReadAudit, Goto, SeriesInv, TypeOK, play
  <2>2. audits'[p] = Tail(audits[p]) /\ audits'[q] = audits[q]
    BY <1>0 DEF ReadAudit, SeriesInv, TypeOK
  <2>3. Differs(p, Head(audits[p])) = FALSE
    BY <1>4 DEF Differs
  <2>4. audit' = [audit EXCEPT ![p] = [received |-> TRUE, passed |-> ~FALSE, forgery |-> FALSE]]
    BY <2>3 DEF ReadAudit
  <2>5. audit'[p] = Passed /\ audit'[q] = audit[q]
    BY <1>0, <2>4 DEF Passed, SeriesInv, TypeOK
  <2>6. QED
    BY <2>1, <2>2, <2>5
<1>6. UNCHANGED verdict
  BY <1>4 DEF ReadAudit, SeriesInv, TypeOK
<1>7. audits'[p] = << >>
  BY <1>1, <1>3, <1>5, TakenTyped, EmptySeq DEF SeriesInv, TypeOK
<1>8. \A r \in Peer : phase'[r] \in Settled <=> phase[r] \in Settled
  BY <1>0, <1>1, <1>5 DEF Settled
<1>9. phase[p] \in Settled
  BY <1>1 DEF Settled
<1>10. Counted(p)' /\ Counted(q)'
  BY <1>0, <1>2, <1>5, <1>8, <1>9 DEF Counted, Role
<1>11. InStep(p)' /\ InStep(q)'
  BY <1>0, <1>1, <1>2, <1>5 DEF InStep
<1>12. \A r \in Peer : OneTurn(r)'
  BY <1>2, <1>5, <1>6 DEF OneTurn, SameGame, LatestTurn, Role
<1>13. SettledAlike(p)' /\ SettledAlike(q)'
  BY <1>0, <1>2, <1>5, <1>6, <1>8 DEF SettledAlike, SameGame, Role
<1>14. (Revealed(p)' <=> Revealed(p)) /\ (Revealed(q)' <=> Revealed(q))
  BY <1>0, <1>1, <1>5 DEF Revealed, SameGame
<1>15. OneReveal(p)'
  BY <1>3, <1>5, <1>7, <1>14 DEF OneReveal
<1>16. OneReveal(q)'
  BY <1>0, <1>2, <1>5, <1>14 DEF OneReveal
<1>17. \A r \in Peer : RowsAgree(r)'
  BY <1>5, <1>6, RowsKept
<1>18. QED
  BY <1>0, <1>10, <1>11, <1>12, <1>13, <1>15, <1>16, <1>17 DEF Clean
\* A sub-game that both have revealed leaves nothing in flight.
LEMMA NothingLeft ==
  ASSUME SeriesInv, Clean, NEW p \in Peer, phase[p] \in Settled, phase[Other(p)] \in Settled,
         SameGame
  PROVE  turns[p] = << >>
<1> DEFINE q == Other(p)
<1>0. q \in Peer /\ Other(q) = p
  BY Peers
<1>1. {Role(p), Role(q)} = {"police", "thief"} /\ Role(p) # Role(q)
  BY RolesDiffer DEF SeriesInv
<1>2. /\ mine[p] \in Nat /\ seen[p] \in Nat
      /\ mine[p] = IF Role(p) = "thief" THEN seen[p] + 1 ELSE seen[p] - 1
      /\ mine[q] \in {seen[p], seen[p] + 1}
  BY CountsAt
<1>3. /\ mine[q] \in Nat /\ seen[q] \in Nat
      /\ mine[q] = IF Role(q) = "thief" THEN seen[q] + 1 ELSE seen[q] - 1
      /\ mine[p] \in {seen[q], seen[q] + 1}
  BY <1>0, CountsAt
<1> HIDE DEF q
<1>4. CASE Role(p) = "thief"
  <2>1. Role(q) = "police"
    BY <1>1, <1>4
  <2>2. mine[q] # seen[p] + 1
    BY <1>2, <1>3, <1>4, <2>1
  <2>3. QED
    BY <2>2 DEF Clean, OneTurn, q
<1>5. CASE Role(p) = "police"
  <2>1. Role(q) = "thief"
    BY <1>1, <1>5
  <2>2. mine[q] # seen[p] + 1
    BY <1>2, <1>3, <1>5, <2>1
  <2>3. QED
    BY <2>2 DEF Clean, OneTurn, q
<1>6. QED
  BY <1>1, <1>4, <1>5

\* Writing down a sub-game, what changes.
LEMMA RecordChanges ==
  ASSUME SeriesInv, Clean, NEW p \in Peer, Record(p)
  PROVE  LET q == Other(p) IN
         /\ phase[p] = "record" /\ phase'[q] = phase[q] /\ phase'[p] \in {"over", "start"}
         /\ number'[p] = number[p] + 1 /\ number'[q] = number[q]
         /\ number[p] \in Nat \ {0} /\ number[q] \in Nat \ {0}
         /\ UNCHANGED <<turns, audits>>
         /\ mine'[p] = 0 /\ mine'[q] = mine[q] /\ seen'[p] = 0 /\ seen'[q] = seen[q]
         /\ verdict'[p] = "none" /\ verdict'[q] = verdict[q]
         /\ audit'[p] = NoAudit /\ audit'[q] = audit[q]
         /\ audits[p] = << >> /\ Revealed(q) /\ audit[p] = Passed
<1> DEFINE q == Other(p)
<1>0. q \in Peer /\ q # p /\ Other(q) = p
  BY Peers
<1>1. /\ phase[p] = "record" /\ phase'[q] = phase[q] /\ phase'[p] \in {"over", "start"}
      /\ number'[p] = number[p] + 1 /\ number'[q] = number[q]
      /\ number[p] \in Nat \ {0} /\ number[q] \in Nat \ {0}
      /\ UNCHANGED <<turns, audits>>
  BY <1>0 DEF Record, Goto, SeriesInv, TypeOK
<1>2. /\ mine'[p] = 0 /\ mine'[q] = mine[q] /\ seen'[p] = 0 /\ seen'[q] = seen[q]
      /\ verdict'[p] = "none" /\ verdict'[q] = verdict[q]
  BY <1>0 DEF Record, FreshRuntime, SeriesInv, TypeOK
<1>3. audit'[p] = NoAudit /\ audit'[q] = audit[q]
  BY <1>0 DEF Record, FreshRuntime, SeriesInv, TypeOK
<1>4. OneReveal(p)
  BY DEF Clean
<1>5. audits[p] = << >> /\ Revealed(q) /\ audit[p] = Passed
  BY <1>1, <1>4 DEF OneReveal
<1>6. QED
  BY <1>1, <1>2, <1>3, <1>5

\* The row written: it comes after the others, which stay.
LEMMA RowWritten ==
  ASSUME SeriesInv, Clean, NEW p \in Peer, Record(p)
  PROVE  LET q == Other(p) IN
         /\ outcomes'[q] = outcomes[q]
         /\ \A r \in Peer : DOMAIN outcomes[r] = 1 .. number[r] - 1
         /\ DOMAIN outcomes'[p] = 1 .. number[p]
         /\ \A k \in DOMAIN outcomes'[p] :
              \/ k \in DOMAIN outcomes[p] /\ outcomes'[p][k] = outcomes[p][k]
              \/ /\ k = number[p] /\ outcomes'[p][k].result = verdict[p]
                 /\ outcomes'[p][k].audit = Passed
<1> DEFINE q == Other(p)
           S == [result : Verdict \cup {"none"}, audit : AuditDict]
           row == [result |-> verdict[p], audit |-> audit[p]]
<1>0. q \in Peer /\ q # p
  BY Peers
<1>1. outcomes'[q] = outcomes[q] /\ outcomes'[p] = Append(outcomes[p], row)
  BY <1>0 DEF Record, SubgameOutcome, SeriesInv, TypeOK
<1>2. \A r \in Peer : outcomes[r] \in Seq(S) /\ number[r] \in Nat /\ Len(outcomes[r]) = number[r] - 1
  BY DEF SeriesInv, TypeOK, Progress
<1>3. row.result = verdict[p] /\ row.audit = Passed
  BY RecordChanges
<1>4. row \in S
  BY DEF SeriesInv, TypeOK
<1> HIDE DEF S, row
<1>5. \A r \in Peer : DOMAIN outcomes[r] = 1 .. number[r] - 1
  BY <1>2, LenProperties
<1>6. /\ outcomes'[p] \in Seq(S) /\ Len(outcomes'[p]) = Len(outcomes[p]) + 1
      /\ \A i \in DOMAIN outcomes'[p] :
           \/ i \in DOMAIN outcomes[p] /\ outcomes'[p][i] = outcomes[p][i]
           \/ i = Len(outcomes[p]) + 1 /\ outcomes'[p][i] = row
  BY <1>1, <1>2, <1>4, AddedTyped
<1>7. Len(outcomes[p]) + 1 = number[p]
  BY <1>2
<1>8. DOMAIN outcomes'[p] = 1 .. number[p]
  BY <1>6, <1>7, LenProperties
<1>9. QED
  BY <1>1, <1>3, <1>5, <1>6, <1>7, <1>8

\* Who is behind catches up.
LEMMA CleanCatchUp ==
  ASSUME SeriesInv, Clean, NEW p \in Peer, Record(p), number[Other(p)] > number[p]
  PROVE  Clean'
<1> DEFINE q == Other(p)
<1>0. q \in Peer /\ q # p /\ Other(q) = p /\ \A r \in Peer : r = p \/ r = q
  BY Peers
<1>1. /\ phase[p] = "record" /\ phase'[q] = phase[q] /\ phase'[p] \in {"over", "start"}
      /\ number'[p] = number[p] + 1 /\ number'[q] = number[q]
      /\ number[p] \in Nat \ {0} /\ number[q] \in Nat \ {0}
      /\ UNCHANGED <<turns, audits>>
      /\ mine'[p] = 0 /\ mine'[q] = mine[q] /\ seen'[p] = 0 /\ seen'[q] = seen[q]
      /\ verdict'[p] = "none" /\ verdict'[q] = verdict[q]
      /\ audit'[p] = NoAudit /\ audit'[q] = audit[q]
      /\ audits[p] = << >>
  BY RecordChanges
<1>2. number[q] = number[p] + 1
  BY <1>1, PlaysWhenOffered DEF Handshaken
<1>3. ~SameGame
  BY <1>1, <1>2, SameGameBothWays
<1>4. SameGame'
  BY <1>1, <1>2 DEF SameGame, Peer, Other
<1>5. phase[q] \notin Handshaken
  <2> SUFFICES ASSUME phase[q] \in Handshaken PROVE FALSE
    OBVIOUS
  <2>1. number[p] \in {number[q], number[q] + 1}
    BY <1>0, PlaysWhenOffered
  <2>2. QED
    BY <1>1, <1>2, <2>1
<1>6. mine[q] = 0 /\ seen[q] = 0
  BY <1>0, <1>5 DEF SeriesInv, Progress
<1>7. \A r \in Peer : InStep(r) /\ OneTurn(r) /\ SettledAlike(r) /\ OneReveal(r) /\ RowsAgree(r)
  BY DEF Clean
<1>8. turns[p] = << >> /\ turns[q] = << >>
  BY <1>0, <1>3, <1>7 DEF OneTurn
<1>9. phase'[p] \notin Handshaken /\ phase'[q] \notin Handshaken /\ phase[q] # "down"
  BY <1>0, <1>1, <1>5, <1>7 DEF Handshaken, InStep
<1>10. \A r \in Peer : phase'[r] \notin {"my_turn", "opp_turn", "audit", "record"} \cup Settled
  BY <1>0, <1>9 DEF Handshaken, Settled
<1>11. \A r \in Peer : InStep(r)'
  BY <1>0, <1>1, <1>2, <1>9 DEF InStep
<1>12. \A r \in Peer : Counted(r)'
  BY <1>10 DEF Counted
<1>13. \A r \in Peer : OneTurn(r)'
  BY <1>0, <1>1, <1>6, <1>8 DEF OneTurn
<1>14. verdict[q] = "none" /\ phase[q] \notin Settled
  <2>1. phase[q] \notin Settled
    BY <1>5 DEF Handshaken, Settled
  <2>2. QED
    BY <1>0, <1>7, <2>1 DEF SettledAlike
<1>15. \A r \in Peer : SettledAlike(r)'
  BY <1>0, <1>1, <1>10, <1>14 DEF SettledAlike
<1>16. \A r \in Peer : ~Revealed(r)'
  BY <1>0, <1>1, <1>2, <1>10 DEF Revealed
<1>17. audits[q] = << >> /\ audit[q] = NoAudit
  <2>1. ~Revealed(p)
    BY <1>1, <1>2, <1>3 DEF Revealed
  <2>2. phase[q] # "record"
    BY <1>5 DEF Handshaken
  <2>3. QED
    BY <1>0, <1>7, <2>1, <2>2 DEF OneReveal
<1>18. \A r \in Peer : OneReveal(r)'
  BY <1>0, <1>1, <1>10, <1>16, <1>17 DEF OneReveal
<1>19. /\ outcomes'[q] = outcomes[q]
       /\ \A r \in Peer : DOMAIN outcomes[r] = 1 .. number[r] - 1
       /\ DOMAIN outcomes'[p] = 1 .. number[p]
       /\ \A k \in DOMAIN outcomes'[p] :
            \/ k \in DOMAIN outcomes[p] /\ outcomes'[p][k] = outcomes[p][k]
            \/ /\ k = number[p] /\ outcomes'[p][k].result = verdict[p]
               /\ outcomes'[p][k].audit = Passed
  BY RowWritten
<1>20. outcomes[q][number[p]].result = verdict[p]
  BY <1>0, <1>1, <1>2, <1>7 DEF RowsAgree
<1>21. \A k \in DOMAIN outcomes'[p] : k \in DOMAIN outcomes[q] =>
         outcomes'[p][k].result = outcomes[q][k].result
  BY <1>7, <1>19, <1>20 DEF RowsAgree
<1>22. \A k \in DOMAIN outcomes'[p] : outcomes'[p][k].audit = Passed
  BY <1>7, <1>19 DEF RowsAgree
<1>23. RowsAgree(p)'
  <2>1. ~(number'[p] > number'[q])
    BY <1>1, <1>2
  <2>2. QED
    BY <1>19, <1>21, <1>22, <2>1 DEF RowsAgree
<1>24. RowsAgree(q)'
  <2>1. ~(number'[q] > number'[p])
    BY <1>1, <1>2
  <2>2. \A k \in DOMAIN outcomes[q] : outcomes[q][k].audit = Passed
    BY <1>0, <1>7 DEF RowsAgree
  <2>3. QED
    BY <1>0, <1>19, <1>21, <2>1, <2>2 DEF RowsAgree
<1>25. QED
  BY <1>0, <1>11, <1>12, <1>13, <1>15, <1>18, <1>23, <1>24 DEF Clean

\* Who is first goes ahead.
LEMMA CleanGoAhead ==
  ASSUME SeriesInv, Clean, NEW p \in Peer, Record(p), SameGame
  PROVE  Clean'
<1> DEFINE q == Other(p)
<1>0. q \in Peer /\ q # p /\ Other(q) = p /\ \A r \in Peer : r = p \/ r = q
  BY Peers
<1>1. /\ phase[p] = "record" /\ phase'[q] = phase[q] /\ phase'[p] \in {"over", "start"}
      /\ number'[p] = number[p] + 1 /\ number'[q] = number[q]
      /\ number[p] \in Nat \ {0} /\ number[q] \in Nat \ {0}
      /\ UNCHANGED <<turns, audits>>
      /\ mine'[p] = 0 /\ mine'[q] = mine[q] /\ seen'[p] = 0 /\ seen'[q] = seen[q]
      /\ verdict'[p] = "none" /\ verdict'[q] = verdict[q]
      /\ audit'[p] = NoAudit /\ audit'[q] = audit[q]
      /\ audits[p] = << >> /\ Revealed(q)
  BY RecordChanges
<1>2. number[q] = number[p] /\ phase[q] \in {"audit", "record"}
  <2>1. number[q] = number[p]
    BY SameGameBothWays
  <2>2. QED
    BY <1>0, <1>1, <2>1 DEF Revealed
<1>3. ~SameGame'
  BY <1>1, <1>2 DEF SameGame, Peer, Other
<1>4. \A r \in Peer : InStep(r) /\ Counted(r) /\ OneTurn(r) /\ SettledAlike(r) /\ OneReveal(r) /\ RowsAgree(r)
  BY DEF Clean
<1>5. phase[p] \in Settled /\ phase[q] \in Settled /\ phase'[p] \notin Settled
  BY <1>1, <1>2 DEF Settled
<1>6. turns[p] = << >> /\ turns[q] = << >>
  BY <1>0, <1>5, NothingLeft
<1>7. verdict[p] = verdict[q]
  BY <1>4, <1>5 DEF SettledAlike
<1>8. InStep(p)' /\ InStep(q)'
  BY <1>0, <1>1, <1>2 DEF InStep
<1>9. Counted(p)'
  BY <1>1, <1>5 DEF Counted
<1>10. Counted(q)'
  BY <1>0, <1>1, <1>4 DEF Counted, Role
<1>11. OneTurn(p)' /\ OneTurn(q)'
  BY <1>0, <1>1, <1>3, <1>6 DEF OneTurn
<1>12. SettledAlike(p)'
  BY <1>1, <1>3, <1>5 DEF SettledAlike
<1>13. SettledAlike(q)'
  BY <1>0, <1>1, <1>3, <1>4, <1>5 DEF SettledAlike
<1>14. OneReveal(p)'
  BY <1>1 DEF OneReveal
<1>15. OneReveal(q)'
  <2>1. Revealed(p) /\ Revealed(p)'
    BY <1>0, <1>1, <1>2 DEF Revealed
  <2>2. Revealed(q)
    BY <1>1
  <2>3. QED
    BY <1>0, <1>1, <1>4, <2>1 DEF OneReveal
<1>16. /\ outcomes'[q] = outcomes[q]
       /\ \A r \in Peer : DOMAIN outcomes[r] = 1 .. number[r] - 1
       /\ DOMAIN outcomes'[p] = 1 .. number[p]
       /\ \A k \in DOMAIN outcomes'[p] :
            \/ k \in DOMAIN outcomes[p] /\ outcomes'[p][k] = outcomes[p][k]
            \/ /\ k = number[p] /\ outcomes'[p][k].result = verdict[p]
               /\ outcomes'[p][k].audit = Passed
  BY RowWritten
<1>17. number[p] \notin DOMAIN outcomes[q] /\ DOMAIN outcomes[p] = DOMAIN outcomes[q]
       /\ number[p] \in DOMAIN outcomes'[p] /\ number[p] \notin DOMAIN outcomes[p]
  BY <1>0, <1>1, <1>2, <1>16
<1>18. \A k \in DOMAIN outcomes'[p] : k \in DOMAIN outcomes[q] =>
         outcomes'[p][k].result = outcomes[q][k].result
  BY <1>4, <1>16, <1>17 DEF RowsAgree
<1>19. \A k \in DOMAIN outcomes'[p] : outcomes'[p][k].audit = Passed
  BY <1>4, <1>16 DEF RowsAgree
<1>20. RowsAgree(p)'
  <2>1. outcomes'[p][number[q]].result = verdict[p]
    BY <1>2, <1>16, <1>17
  <2>2. QED
    BY <1>1, <1>7, <1>16, <1>18, <1>19, <2>1 DEF RowsAgree
<1>21. RowsAgree(q)'
  <2>1. ~(number'[q] > number'[p])
    BY <1>1, <1>2
  <2>2. \A k \in DOMAIN outcomes[q] : outcomes[q][k].audit = Passed
    BY <1>0, <1>4 DEF RowsAgree
  <2>3. QED
    BY <1>0, <1>16, <1>18, <2>1, <2>2 DEF RowsAgree
<1>22. QED
  BY <1>0, <1>8, <1>9, <1>10, <1>11, <1>12, <1>13, <1>14, <1>15, <1>20, <1>21 DEF Clean

LEMMA CleanInit == Init => Clean
<1> SUFFICES ASSUME Init, NEW r \in Peer
             PROVE  InStep(r) /\ Counted(r) /\ OneTurn(r) /\ SettledAlike(r) /\ OneReveal(r) /\ RowsAgree(r)
  BY DEF Clean
<1>1. Other(r) \in Peer
  BY Peers
<1>2. /\ phase[r] = "start" /\ phase[Other(r)] = "start" /\ number[r] = 1 /\ number[Other(r)] = 1
      /\ mine[Other(r)] = 0 /\ seen[r] = 0 /\ turns[r] = << >> /\ audits[r] = << >>
      /\ verdict[r] = "none" /\ audit[r] = NoAudit /\ outcomes[r] = << >>
  BY <1>1 DEF Init
<1>3. InStep(r) /\ Counted(r) /\ OneTurn(r) /\ SettledAlike(r)
  BY <1>2 DEF InStep, Counted, OneTurn, SettledAlike, Settled
<1>4. OneReveal(r)
  BY <1>1, <1>2 DEF OneReveal
<1>5. RowsAgree(r)
  BY <1>2 DEF RowsAgree
<1>6. QED
  BY <1>3, <1>4, <1>5

\* What happened cannot be undone: a state without a fault comes from one.
LEMMA CleanStep ==
  ASSUME SeriesInv, CleanInv, [Next]_vars
  PROVE  CleanInv'
<1> SUFFICES ASSUME faults' = 0 PROVE Clean'
  BY DEF CleanInv
<1>1. CASE UNCHANGED vars
  <2>1. faults = 0
    BY <1>1 DEF vars
  <2>2. Clean
    BY <2>1 DEF CleanInv
  <2>3. \A r \in Peer : Revealed(r)' <=> Revealed(r)
    BY <1>1 DEF vars, Revealed, SameGame
  <2>4. \A r \in Peer : OneReveal(r)'
    BY <1>1, <2>2, <2>3, Peers DEF vars, Clean, OneReveal
  <2>5. \A r \in Peer : InStep(r)' /\ Counted(r)' /\ SettledAlike(r)' /\ RowsAgree(r)'
    BY <1>1, <2>2 DEF vars, play, Clean, InStep, Counted, SettledAlike, RowsAgree, SameGame, Role
  <2>6. \A r \in Peer : OneTurn(r)'
    BY <1>1, <2>2 DEF vars, play, Clean, OneTurn, SameGame, LatestTurn, Role
  <2>7. QED
    BY <2>4, <2>5, <2>6 DEF Clean
<1>2. ASSUME NEW p \in Peer, Process(p) PROVE Clean'
  <2>1. Fault \/ UNCHANGED faults
    BY <1>2 DEF Process, StartSubGame, Offer, Agree, HandshakeFails, TakeTurn, SendFails,
       AcceptTurn, RefuseTurn, Expire, SubmitAudit, ReadAudit, MissAudit, Record
  <2>2. faults = 0 /\ faults' = faults
    BY <2>1 DEF Fault, SeriesInv, TypeOK
  <2>3. Clean
    BY <2>2 DEF CleanInv
  <2>4. /\ ~HandshakeFails(p) /\ ~SendFails(p) /\ ~RefuseTurn(p) /\ ~Expire(p) /\ ~MissAudit(p)
    BY <2>2, <2>3, NoFaultNoFailure
  <2>5. CASE Record(p)
    <3>1. Revealed(Other(p))
      BY <2>3, <2>5, RecordChanges
    <3>2. QED
      BY <2>3, <2>5, <3>1, CleanCatchUp, CleanGoAhead, Peers DEF Revealed
  <2>6. QED
    BY <1>2, <2>2, <2>3, <2>4, <2>5, CleanStart, CleanHandshake, CleanTurn, CleanAccept,
       CleanSubmit, CleanReveal DEF Process
<1>3. QED
  BY <1>1, <1>2 DEF Next

LEMMA CleanInvariant == ASSUME NoCopies PROVE Spec => [](SeriesInv /\ CleanInv)
<1>1. Init => SeriesInv /\ CleanInv
  BY SeriesInit, CleanInit DEF CleanInv
<1>2. SeriesInv /\ CleanInv /\ [Next]_vars => (SeriesInv /\ CleanInv)'
  BY SeriesStep, CleanStep
<1>3. QED
  BY <1>1, <1>2, PTL DEF Spec

-----------------------------------------------------------------------------
(* The two reports of a clean series are one.                               *)

\* A group id names one peer.
GroupsDiffer == GroupId["left"] # GroupId["right"]

\* A table of the two groups does not say who wrote it.
LEMMA KeyedBothWays ==
  ASSUME NEW a, NEW b, NEW x, NEW y, a # b
  PROVE  Keyed(a, x, b, y) = Keyed(b, y, a, x)
BY DEF Keyed

LEMMA RowBothWays ==
  ASSUME NEW k, NEW role \in {"police", "thief"}, NEW a, NEW b, a # b, NEW result, NEW dict
  PROVE  SubRow(k, role, a, b, result, dict) = SubRow(k, OpponentRole(role), b, a, result, dict)
<1>1. OpponentRole(OpponentRole(role)) = role
  BY DEF OpponentRole
<1>2. /\ Keyed(a, role, b, OpponentRole(role)) = Keyed(b, OpponentRole(role), a, role)
      /\ Keyed(a, ScoreSubgame(result, role), b, ScoreSubgame(result, OpponentRole(role)))
           = Keyed(b, ScoreSubgame(result, OpponentRole(role)), a, ScoreSubgame(result, role))
  BY KeyedBothWays
<1>3. QED
  BY <1>1, <1>2 DEF SubRow

LEMMA ArtifactBothWays ==
  ASSUME NEW rows, NEW a, NEW b
  PROVE  ResultArtifact(rows, a, b) = ResultArtifact(rows, b, a)
<1>1. {a, b} = {b, a}
  OBVIOUS
<1>2. QED
  BY <1>1 DEF ResultArtifact

LEMMA RowsAlike ==
  ASSUME Clean, SeriesInv, GroupsDiffer,
         NEW k \in DOMAIN outcomes["left"] \cap DOMAIN outcomes["right"]
  PROVE  Rows("left")[k] = Rows("right")[k]
<1> DEFINE l == outcomes["left"][k]
           r == outcomes["right"][k]
<1>1. "left" \in Peer /\ "right" \in Peer /\ Other("left") = "right" /\ Other("right") = "left"
  BY DEF Peer, Other
<1>2. RowsAgree("left") /\ RowsAgree("right")
  BY <1>1 DEF Clean
<1>3. l.result = r.result /\ l.audit = r.audit
  BY <1>1, <1>2 DEF RowsAgree
<1>4. RoleIn("right", k) = OpponentRole(RoleIn("left", k)) /\ RoleIn("left", k) \in {"police", "thief"}
  BY DEF RoleIn, OpponentRole
<1>5. /\ Rows("left")[k] = SubRow(k, RoleIn("left", k), GroupId["left"], GroupId["right"], l.result, l.audit)
      /\ Rows("right")[k] = SubRow(k, RoleIn("right", k), GroupId["right"], GroupId["left"], r.result, r.audit)
  BY <1>1 DEF Rows
<1> HIDE DEF l, r
<1>6. QED
  BY <1>3, <1>4, <1>5, RowBothWays DEF GroupsDiffer

\* While no call fails, two processes with group ids of their own write down the
\* same rows, convict nobody and end with one and the same confirmed artifact,
\* however long the series and its sub-games.
THEOREM SeriesAgrees ==
  ASSUME NoCopies, GroupsDiffer
  PROVE  Spec => []CleanSeriesAgrees
<1>1. ASSUME SeriesInv, CleanInv PROVE CleanSeriesAgrees
  <2> SUFFICES ASSUME faults = 0
               PROVE  /\ NoFalseForgery
                      /\ \A k \in DOMAIN outcomes["left"] \cap DOMAIN outcomes["right"] :
                           Rows("left")[k] = Rows("right")[k]
                      /\ (\A p \in Peer : phase[p] = "over") =>
                           Artifact("left") = Artifact("right") /\ Artifact("left").confirmed
    BY DEF CleanSeriesAgrees
  <2>1. Clean
    BY <1>1 DEF CleanInv
  <2>2. NoFalseForgery
    BY <2>1 DEF Clean, OneReveal, Passed, NoAudit, NoFalseForgery
  <2>3. \A k \in DOMAIN outcomes["left"] \cap DOMAIN outcomes["right"] :
          Rows("left")[k] = Rows("right")[k]
    BY <1>1, <2>1, RowsAlike
  <2>4. ASSUME \A p \in Peer : phase[p] = "over"
        PROVE  Artifact("left") = Artifact("right") /\ Artifact("left").confirmed
    <3>1. "left" \in Peer /\ "right" \in Peer /\ Other("left") = "right" /\ Other("right") = "left"
      BY DEF Peer, Other
    <3>2. \A p \in Peer : number[p] = NumGames + 1 /\ Len(outcomes[p]) = number[p] - 1
      BY <1>1, <2>4 DEF SeriesInv, Progress
    <3>3. \A p \in Peer : DOMAIN outcomes[p] = 1 .. NumGames
      <4>1. NumGames \in Nat
        BY SeriesAssumption
      <4>2. \A p \in Peer : DOMAIN outcomes[p] = 1 .. Len(outcomes[p])
        BY <1>1, LenProperties DEF SeriesInv, TypeOK
      <4>3. QED
        BY <3>2, <4>1, <4>2
    <3>4. Rows("left") = Rows("right")
      <4>1. /\ Rows("left") = [k \in 1 .. NumGames |-> Rows("left")[k]]
            /\ Rows("right") = [k \in 1 .. NumGames |-> Rows("right")[k]]
        BY <3>1, <3>3 DEF Rows
      <4>2. \A k \in 1 .. NumGames : Rows("left")[k] = Rows("right")[k]
        BY <2>3, <3>1, <3>3
      <4>3. QED
        BY <4>1, <4>2
    <3>5. Artifact("left") = Artifact("right")
      BY <3>1, <3>4, ArtifactBothWays DEF Artifact
    <3>6. \A k \in DOMAIN Rows("left") : Rows("left")[k].audit = Passed
      BY <2>1, <3>1 DEF Rows, SubRow, Clean, RowsAgree
    <3>7. Artifact("left").confirmed
      BY <3>6 DEF Artifact, ResultArtifact, SubResultRow, Passed
    <3>8. QED
      BY <3>5, <3>7
  <2>5. QED
    BY <2>2, <2>3, <2>4
<1>2. QED
  BY <1>1, CleanInvariant, PTL

-----------------------------------------------------------------------------
(* What one report says, whatever was lost on the way.                      *)

\* An audit that passed has come, and convicted nobody.
Trustworthy(dict) == dict.passed => dict.received /\ ~dict.forgery

\* A row to a finished sub-game, with an audit that means what it says.
Filed(p) ==
  /\ number[p] <= NumGames + 1
  /\ number[p] = NumGames + 1 <=> phase[p] = "over"
  /\ Len(outcomes[p]) = number[p] - 1
  /\ Trustworthy(audit[p])
  /\ \A i \in DOMAIN outcomes[p] : Trustworthy(outcomes[p][i].audit)

FiledInv == TypeOK /\ \A p \in Peer : Filed(p)

LEMMA FiledInit == Init => FiledInv
<1> SUFFICES ASSUME Init, NEW p \in Peer PROVE Filed(p)
  BY TypeInit DEF FiledInv
<1>1. /\ number[p] = 1 /\ phase[p] = "start" /\ outcomes[p] = << >> /\ audit[p] = NoAudit
  BY DEF Init
<1>2. NumGames + 1 # 1 /\ NumGames + 1 >= 1
  BY SeriesAssumption
<1> QED BY <1>1, <1>2 DEF Filed, Trustworthy, NoAudit

\* A step that writes no row and ends no series.
LEMMA FiledElsewhere ==
  ASSUME FiledInv, NEW p \in Peer,
         UNCHANGED <<number, outcomes>>, Trustworthy(audit'[p]),
         \A q \in Peer \ {p} : phase'[q] = phase[q] /\ audit'[q] = audit[q],
         phase[p] # "over", phase'[p] # "over"
  PROVE  \A q \in Peer : Filed(q)'
<1> SUFFICES ASSUME NEW q \in Peer PROVE Filed(q)'
  OBVIOUS
<1>1. Filed(q)
  BY DEF FiledInv
<1>2. CASE q = p
  BY <1>1, <1>2 DEF Filed
<1>3. CASE q # p
  BY <1>1, <1>3 DEF Filed
<1> QED BY <1>2, <1>3

LEMMA FiledByRecord ==
  ASSUME FiledInv, NEW p \in Peer, Record(p)
  PROVE  \A q \in Peer : Filed(q)'
<1> SUFFICES ASSUME NEW q \in Peer PROVE Filed(q)'
  OBVIOUS
<1>1. Filed(q) /\ Filed(p) /\ TypeOK
  BY DEF FiledInv
<1>2. CASE q # p
  <2>1. number'[q] = number[q] /\ phase'[q] = phase[q] /\ audit'[q] = audit[q]
        /\ outcomes'[q] = outcomes[q]
    BY <1>1, <1>2 DEF Record, Goto, FreshRuntime, TypeOK
  <2> QED BY <1>1, <2>1 DEF Filed
<1>3. CASE q = p
  <2>1. /\ number'[p] = number[p] + 1 /\ audit'[p] = NoAudit
        /\ phase'[p] = IF number[p] = NumGames THEN "over" ELSE "start"
        /\ outcomes'[p] = Append(outcomes[p], SubgameOutcome(p))
        /\ phase[p] = "record"
    BY <1>1 DEF Record, Goto, FreshRuntime, TypeOK
  <2>2. number[p] \in Nat /\ NumGames \in Nat /\ number[p] # NumGames + 1
        /\ number[p] <= NumGames + 1 /\ Len(outcomes[p]) = number[p] - 1
    BY <1>1, <2>1, SeriesAssumption DEF Filed, TypeOK
  <2> DEFINE Outcome == [result : Verdict \cup {"none"}, audit : AuditDict]
  <2>3. outcomes[p] \in Seq(Outcome) /\ SubgameOutcome(p) \in Outcome
    BY <1>1 DEF TypeOK, SubgameOutcome
  <2>4. SubgameOutcome(p).audit = audit[p]
    BY DEF SubgameOutcome
  <2> HIDE DEF Outcome
  <2>5. /\ Len(Append(outcomes[p], SubgameOutcome(p))) = Len(outcomes[p]) + 1
        /\ DOMAIN Append(outcomes[p], SubgameOutcome(p)) = 1 .. Len(outcomes[p]) + 1
        /\ \A i \in 1 .. Len(outcomes[p]) :
             Append(outcomes[p], SubgameOutcome(p))[i] = outcomes[p][i]
        /\ Append(outcomes[p], SubgameOutcome(p))[Len(outcomes[p]) + 1] = SubgameOutcome(p)
    BY <2>3, AppendProperties
  <2>6. Len(outcomes'[p]) = number'[p] - 1
    BY <2>1, <2>2, <2>5
  <2>7. \A i \in DOMAIN outcomes'[p] : Trustworthy(outcomes'[p][i].audit)
    <3> SUFFICES ASSUME NEW i \in DOMAIN outcomes'[p]
                 PROVE  Trustworthy(outcomes'[p][i].audit)
      OBVIOUS
    <3>1. DOMAIN outcomes[p] = 1 .. Len(outcomes[p]) /\ Len(outcomes[p]) \in Nat
      BY <2>3, LenProperties
    <3>2. CASE i = Len(outcomes[p]) + 1
      BY <1>1, <2>1, <2>4, <2>5, <3>2 DEF Filed
    <3>3. CASE i \in 1 .. Len(outcomes[p])
      BY <1>1, <2>1, <2>5, <3>1, <3>3 DEF Filed
    <3> QED BY <2>1, <2>5, <3>1, <3>2, <3>3
  <2>8. Trustworthy(audit'[p])
    BY <2>1 DEF Trustworthy, NoAudit
  <2>9. number'[p] <= NumGames + 1 /\ (number'[p] = NumGames + 1 <=> phase'[p] = "over")
    BY <2>1, <2>2
  <2> QED BY <1>3, <2>6, <2>7, <2>8, <2>9 DEF Filed
<1> QED BY <1>2, <1>3

LEMMA FiledStep == FiledInv /\ [Next]_vars => FiledInv'
<1> SUFFICES ASSUME FiledInv, [Next]_vars PROVE \A q \in Peer : Filed(q)'
  BY TypeStep DEF FiledInv
<1>1. CASE UNCHANGED vars
  BY <1>1 DEF FiledInv, Filed, vars, play
<1>2. CASE \E p \in Peer : Process(p)
  <2>1. PICK p \in Peer : Process(p)
    BY <1>2
  <2>2. TypeOK /\ Filed(p)
    BY DEF FiledInv
  <2>3. CASE Record(p)
    BY <2>3, FiledByRecord
  <2>4. CASE ReadAudit(p)
    <3>1. /\ UNCHANGED <<number, outcomes>> /\ phase[p] = "audit" /\ phase'[p] = "record"
          /\ \A q \in Peer \ {p} : phase'[q] = phase[q] /\ audit'[q] = audit[q]
          /\ audit'[p].received /\ audit'[p].passed = ~audit'[p].forgery
      BY <2>2, <2>4 DEF ReadAudit, Goto, TypeOK
    <3>2. Trustworthy(audit'[p])
      BY <3>1 DEF Trustworthy
    <3> QED BY <3>1, <3>2, FiledElsewhere
  <2>5. CASE ~Record(p) /\ ~ReadAudit(p)
    <3>1. /\ UNCHANGED <<number, outcomes, audit>> /\ phase[p] # "over" /\ phase'[p] # "over"
          /\ \A q \in Peer \ {p} : phase'[q] = phase[q]
      <4>1. CASE StartSubGame(p) \/ Offer(p) \/ Agree(p) \/ HandshakeFails(p)
        BY <2>2, <4>1 DEF StartSubGame, Offer, Agree, HandshakeFails, Goto, TypeOK
      <4>2. CASE TakeTurn(p) \/ SendFails(p)
        BY <2>2, <4>2 DEF TakeTurn, SendFails, Settle, Goto, TypeOK
      <4>3. CASE AcceptTurn(p) \/ RefuseTurn(p) \/ Expire(p)
        BY <2>2, <4>3 DEF AcceptTurn, RefuseTurn, Expire, Listening, Settle, Goto, TypeOK, play
      <4>4. CASE SubmitAudit(p) \/ MissAudit(p)
        BY <2>2, <4>4 DEF SubmitAudit, MissAudit, Goto, TypeOK
      <4> QED BY <2>1, <2>5, <4>1, <4>2, <4>3, <4>4 DEF Process
    <3>2. Trustworthy(audit'[p])
      BY <2>2, <3>1 DEF Filed
    <3> QED BY <3>1, <3>2, FiledElsewhere
  <2> QED BY <2>3, <2>4, <2>5
<1> QED BY <1>1, <1>2 DEF Next

LEMMA FiledInvariant == Spec => []FiledInv
<1>1. Init => FiledInv
  BY FiledInit
<1> QED BY <1>1, FiledStep, PTL DEF Spec

-----------------------------------------------------------------------------
(* Adding a report up.                                                      *)

\* series_totals' loop over the rows is the sum of what each row gives.
LEMMA SumIsSumOf ==
  ASSUME NEW n \in Nat, NEW rows, Len(rows) = n, NEW g, NEW value \in [1 .. n -> Int],
         \A i \in 1 .. n :
           value[i] = IF g \in DOMAIN rows[i].score THEN rows[i].score[g] ELSE 0
  PROVE  Sum(rows, g) = SumOf(value) /\ SumOf(value) \in Int
<1> DEFINE sum == CHOOSE f : AddsUp(f, 1 .. n, value)
           UpTo(f) == f = [i \in 0 .. n |->
             IF i = 0 THEN 0
             ELSE f[i - 1] + (IF g \in DOMAIN rows[i].score THEN rows[i].score[g] ELSE 0)]
           upTo == CHOOSE f : UpTo(f)
           first == [i \in 0 .. n |-> sum[1 .. i]]
<1>1. IsFiniteSet(1 .. n) /\ Additive(Int)
  BY FS_Interval DEF Additive
<1>2. AddsUp(sum, 1 .. n, value)
  <2>1. \E f : AddsUp(f, 1 .. n, value)
    BY <1>1, SumExists
  <2> QED BY <2>1
<1>3. SumOf(value) = sum[1 .. n]
  BY DEF SumOf, MapThenFoldSet, AddsUp, One
<1> HIDE DEF sum
<1>4. sum \in [SUBSET (1 .. n) -> Int]
  BY <1>1, <1>2, SumTyped
<1>5. first[0] = 0
  <2>1. 1 .. 0 = {}
    OBVIOUS
  <2> QED BY <1>2, <2>1 DEF AddsUp
<1>6. ASSUME NEW i \in 1 .. n PROVE first[i] = first[i - 1] + value[i]
  <2>0. first[i] = sum[1 .. i] /\ first[i - 1] = sum[1 .. i - 1]
    OBVIOUS
  <2>1. 1 .. i \in SUBSET (1 .. n) /\ i \in 1 .. i
    OBVIOUS
  <2>2. sum[1 .. i] = value[i] + sum[(1 .. i) \ {i}]
    <3>1. \A T \in SUBSET (1 .. n) : \A x \in T : sum[T] = value[x] + sum[T \ {x}]
      <4> DEFINE D == 1 .. n
      <4>1. IsFiniteSet(D)
        BY <1>1
      <4>a. value \in [D -> Int]
        OBVIOUS
      <4>b. AddsUp(sum, D, value)
        BY <1>2
      <4> HIDE DEF D
      <4>2. AnyFirst(sum, D, value)
        BY <4>1, <4>a, <4>b, SumByAny
      <4> QED BY <4>2 DEF D, AnyFirst
    <3> QED BY <2>1, <3>1
  <2>3. (1 .. i) \ {i} = 1 .. i - 1
    OBVIOUS
  <2>4. sum[1 .. i - 1] \in Int /\ value[i] \in Int
    BY <1>4
  <2>5. sum[1 .. i] = value[i] + sum[1 .. i - 1]
    BY <2>2, <2>3
  <2> DEFINE s == sum[1 .. i - 1]
             v == value[i]
  <2>6. first[i] = v + s /\ first[i - 1] = s /\ v \in Int /\ s \in Int
    BY <2>0, <2>4, <2>5
  <2> HIDE DEF first, s, v
  <2>7. first[i] = first[i - 1] + v
    BY <2>6
  <2> QED BY <2>7 DEF v
<1>7. UpTo(first)
  <2>1. \A i \in 0 .. n : first[i] = IF i = 0 THEN 0
             ELSE first[i - 1] + (IF g \in DOMAIN rows[i].score THEN rows[i].score[g] ELSE 0)
    <3> HIDE DEF first
    <3> QED BY <1>5, <1>6
  <2>2. first = [i \in 0 .. n |-> first[i]]
    OBVIOUS
  <2> HIDE DEF first
  <2> QED BY <2>1, <2>2
<1>8. UpTo(upTo)
  <2> HIDE DEF UpTo, first
  <2> QED BY <1>7
<1>9. Sum(rows, g) = upTo[n]
  BY Zenon DEF Sum
<1> DEFINE next == [i \in 0 .. n |-> IF i = 0 THEN 0 ELSE i - 1]
           rank == [i \in 0 .. n |-> i]
<1>10. Descends(0 .. n, {0}, next, rank)
  BY DEF Descends
<1>11. Follows(first, upTo, 0 .. n, {0}, next)
  <2> SUFFICES ASSUME NEW i \in 0 .. n, i = 0 \/ first[next[i]] = upTo[next[i]]
               PROVE  first[i] = upTo[i]
    BY DEF Follows
  <2>1. CASE i = 0
    <3> HIDE DEF first, upTo
    <3> QED BY <1>5, <1>8, <2>1
  <2>2. CASE i # 0
    <3>1. next[i] = i - 1 /\ i \in 1 .. n
      BY <2>2
    <3> HIDE DEF first, upTo, next
    <3> QED BY <1>6, <1>8, <2>2, <3>1
  <2> QED BY <2>1, <2>2
<1> HIDE DEF next, rank, first, upTo
<1>12. first[n] = upTo[n]
  BY <1>10, <1>11, RecursionUnique
<1> QED BY <1>3, <1>4, <1>9, <1>12 DEF first

\* The tie rule over two groups.
\* The set top holds who leads of two groups with x and y points.
Led(top, a, b, x, y) ==
  /\ Cardinality(top) > 1 <=> x = y
  /\ x = y => top = {a, b}
  /\ Cardinality(top) = 1 <=> x # y
  /\ x > y => top = {a}
  /\ y > x => top = {b}

LEMMA TwoGroups ==
  ASSUME NEW a, NEW b, a # b, NEW sums, DOMAIN sums = {a, b},
         sums[a] \in Int, sums[b] \in Int
  PROVE  Led(Leaders(sums), a, b, sums[a], sums[b])
<1>1. Cardinality({a}) = 1 /\ Cardinality({b}) = 1 /\ IsFiniteSet({a})
  BY FS_Singleton
<1>2. Cardinality({a, b}) = 2
  <2>1. {a, b} = {a} \cup {b}
    OBVIOUS
  <2>2. Cardinality({a} \cup {b}) = 1 + 1
    BY <1>1, FS_AddElement
  <2> QED BY <2>1, <2>2
<1>3. sums[a] = sums[b] => Leaders(sums) = {a, b}
  BY DEF Leaders
<1>4. sums[a] > sums[b] => Leaders(sums) = {a}
  BY DEF Leaders
<1>5. sums[b] > sums[a] => Leaders(sums) = {b}
  BY DEF Leaders
<1>6. sums[a] = sums[b] \/ sums[a] > sums[b] \/ sums[b] > sums[a]
  OBVIOUS
<1> QED BY <1>1, <1>2, <1>3, <1>4, <1>5, <1>6 DEF Led

\* Three groups of rows that leave none out count them all.
LEMMA ThreeParts ==
  ASSUME NEW n \in Nat, NEW A, NEW B, NEW C, A \cup B \cup C = 1 .. n,
         A \cap B = {}, A \cap C = {}, B \cap C = {}
  PROVE  Cardinality(A) + Cardinality(B) + Cardinality(C) = n
<1>1. IsFiniteSet(1 .. n) /\ Cardinality(1 .. n) = n
  BY FS_Interval
<1>2. IsFiniteSet(A) /\ IsFiniteSet(B) /\ IsFiniteSet(C)
  BY <1>1, FS_Subset
<1>3. /\ Cardinality(A \cap B) = 0 /\ Cardinality(A) \in Nat
      /\ Cardinality(B) \in Nat /\ Cardinality(C) \in Nat
  BY <1>2, FS_EmptySet, FS_CardinalityType
<1>4. IsFiniteSet(A \cup B) /\ Cardinality(A \cup B) = Cardinality(A) + Cardinality(B)
  <2>1. /\ IsFiniteSet(A \cup B)
        /\ Cardinality(A \cup B) = Cardinality(A) + Cardinality(B) - Cardinality(A \cap B)
    BY <1>2, FS_Union
  <2> QED BY <1>3, <2>1
<1>5. Cardinality((A \cup B) \cap C) = 0
  <2>1. (A \cup B) \cap C = {}
    OBVIOUS
  <2> QED BY <2>1, FS_EmptySet
<1>6. Cardinality((A \cup B) \cup C) = Cardinality(A \cup B) + Cardinality(C)
  <2>1. Cardinality((A \cup B) \cup C)
          = Cardinality(A \cup B) + Cardinality(C) - Cardinality((A \cup B) \cap C)
    BY <1>2, <1>4, FS_Union
  <2> QED BY <1>3, <1>4, <1>5, <2>1
<1>7. (A \cup B) \cup C = 1 .. n
  OBVIOUS
<1> QED BY <1>1, <1>4, <1>6, <1>7

\* The winner of a row's sub-game, as the report names it.
Won(row, a, b) ==
  /\ row.result \in {"capture", "survival", "technical_loss"}
  /\ row.result = "technical_loss" => row.winner_group = NoGroup
  /\ row.result # "technical_loss" => row.winner_group \in {a, b}

LEMMA WinnerNamed ==
  ASSUME NEW a, NEW b, a # b, a # NoGroup, b # NoGroup,
         NEW k, NEW role \in {"police", "thief"}, NEW result, NEW dict
  PROVE  Won(SubResultRow(SubRow(k, role, a, b, result, dict)), a, b)
<1> DEFINE row == SubRow(k, role, a, b, result, dict)
           holders == {g \in DOMAIN row.roles : row.roles[g] = row.winner_role}
<1>1. /\ DOMAIN row.roles = {a, b} /\ row.roles[a] = role
      /\ row.roles[b] = OpponentRole(role)
      /\ row.winner_role = WinnerRole(result) /\ row.result = result
  BY DEF SubRow, Keyed
<1>2. /\ SubResultRow(row).result = ResultString(row)
      /\ SubResultRow(row).winner_group = WinnerGroup(row)
  BY DEF SubResultRow
<1>3. OpponentRole(role) \in {"police", "thief"} /\ OpponentRole(role) # role
  BY DEF OpponentRole
<1>4. WinnerGroup(row) = IF holders = {} THEN NoGroup ELSE CHOOSE g \in holders : TRUE
  BY DEF WinnerGroup
<1> HIDE DEF row
<1>5. CASE result \in {"capture", "survival"}
  <2>1. WinnerRole(result) \in {"police", "thief"} /\ ResultString(row) = result
    BY <1>1, <1>5 DEF WinnerRole, ResultString
  <2>2. holders # {} /\ holders \subseteq {a, b}
    BY <1>1, <1>3, <2>1
  <2> HIDE DEF holders
  <2>3. WinnerGroup(row) \in {a, b}
    BY <1>4, <2>2
  <2> QED BY <1>2, <1>5, <2>1, <2>3 DEF row, Won
<1>6. CASE result \notin {"capture", "survival"}
  <2>1. WinnerRole(result) = "none" /\ ResultString(row) = "technical_loss"
    BY <1>1, <1>6 DEF WinnerRole, ResultString
  <2>2. holders = {}
    BY <1>1, <1>3, <2>1
  <2> HIDE DEF holders
  <2> QED BY <1>2, <1>4, <2>1, <2>2 DEF row, Won
<1> QED BY <1>5, <1>6

\* What a group holding a role earns by a result, as the points table says.
Earns(result, role) ==
  CASE result = "technical_loss" -> Scoring["technical_loss"]
    [] result = "capture" ->
         Scoring[IF role = "police" THEN "capture_cop" ELSE "capture_thief"]
    [] result = "survival" ->
         Scoring[IF role = "police" THEN "survival_cop" ELSE "survival_thief"]

Gives(row, a, b, role) ==
  /\ DOMAIN row.score = {a, b}
  /\ row.score[a] = Earns(ResultString(row), role)
  /\ row.score[b] = Earns(ResultString(row), OpponentRole(role))
  /\ row.score[a] \in Int /\ row.score[b] \in Int

LEMMA RowEarns ==
  ASSUME NEW a, NEW b, a # b, NEW k, NEW role \in {"police", "thief"}, NEW result, NEW dict
  PROVE  Gives(SubRow(k, role, a, b, result, dict), a, b, role)
<1> DEFINE row == SubRow(k, role, a, b, result, dict)
<1>1. /\ DOMAIN row.score = {a, b}
      /\ row.score[a] = ScoreSubgame(result, role)
      /\ row.score[b] = ScoreSubgame(result, OpponentRole(role))
      /\ ResultString(row) = IF result \in {"capture", "survival"} THEN result
                                                                  ELSE "technical_loss"
  BY DEF SubRow, Keyed, ResultString
<1> HIDE DEF row
<1>2. ASSUME NEW r
      PROVE  /\ ScoreSubgame(result, r) = Earns(ResultString(row), r)
             /\ ScoreSubgame(result, r) \in Int
  <2>1. CASE result = "capture"
    BY <1>1, <2>1, ReportAssumption DEF ScoreSubgame, Earns, TableAccepted, ScoreKey
  <2>2. CASE result = "survival"
    BY <1>1, <2>2, ReportAssumption DEF ScoreSubgame, Earns, TableAccepted, ScoreKey
  <2>3. CASE result \notin {"capture", "survival"}
    BY <1>1, <2>3, ReportAssumption DEF ScoreSubgame, Earns, TableAccepted, ScoreKey
  <2> QED BY <2>1, <2>2, <2>3
<1> QED BY <1>1, <1>2 DEF row, Gives

\* The totals of rows in which each of two groups has points.
LEMMA TotalsOfTwo ==
  ASSUME NEW a, NEW b, a # b, NEW n \in Nat \ {0}, NEW rows,
         DOMAIN rows = 1 .. n, \A i \in 1 .. n : DOMAIN rows[i].score = {a, b},
         NEW x \in Int, NEW y \in Int, Sum(rows, a) = x, Sum(rows, b) = y
  PROVE  LET t == SeriesTotals(rows)
             bonus == IF t.tie THEN Scoring["tie_score"] ELSE 0
         IN  /\ t.tie <=> x = y
             /\ t.winner = IF x > y THEN a ELSE IF y > x THEN b ELSE NoGroup
             /\ t.totals[a] = x + bonus /\ t.totals[b] = y + bonus
<1> DEFINE sums == [g \in UNION {DOMAIN rows[i].score : i \in DOMAIN rows} |-> Sum(rows, g)]
           top == Leaders(sums)
           t == SeriesTotals(rows)
<1>1. UNION {DOMAIN rows[i].score : i \in DOMAIN rows} = {a, b}
  <2>1. 1 \in 1 .. n
    OBVIOUS
  <2> QED BY <2>1
<1>2. DOMAIN sums = {a, b} /\ sums[a] = x /\ sums[b] = y
  BY <1>1
<1> HIDE DEF sums
<1>3. Led(top, a, b, x, y)
  <2>1. sums[a] \in Int /\ sums[b] \in Int
    BY <1>2
  <2>2. Led(Leaders(sums), a, b, sums[a], sums[b])
    BY <1>2, <2>1, TwoGroups
  <2> QED BY <1>2, <2>2
<1> HIDE DEF top
<1>4. /\ t.tie = (Cardinality(top) > 1)
      /\ t.winner = IF Cardinality(top) = 1 THEN CHOOSE g \in top : TRUE ELSE NoGroup
      /\ t.totals = [g \in DOMAIN sums |->
           IF Cardinality(top) > 1 /\ g \in top THEN sums[g] + Scoring["tie_score"] ELSE sums[g]]
  BY DEF SeriesTotals, sums, top
<1> HIDE DEF t
<1>5. t.tie <=> x = y
  BY <1>3, <1>4 DEF Led
<1>6. t.winner = IF x > y THEN a ELSE IF y > x THEN b ELSE NoGroup
  <2>1. x > y \/ y > x \/ x = y
    OBVIOUS
  <2> QED BY <1>3, <1>4, <2>1 DEF Led
<1>7. /\ t.totals[a] = IF x = y THEN x + Scoring["tie_score"] ELSE x
      /\ t.totals[b] = IF x = y THEN y + Scoring["tie_score"] ELSE y
  BY <1>2, <1>3, <1>4 DEF Led
<1> QED BY <1>5, <1>6, <1>7 DEF t

\* What the rows of a finished series are, and what its groups earn by them.
RowsOf(p, rows) ==
  /\ DOMAIN rows = 1 .. NumGames /\ Len(rows) = NumGames
  /\ \A i \in 1 .. NumGames :
       rows[i] = SubRow(i, RoleIn(p, i), GroupId[p], GroupId[Other(p)],
                        outcomes[p][i].result, outcomes[p][i].audit)

LEMMA FinishedRows ==
  ASSUME FiledInv, NEW p \in Peer, phase[p] = "over"
  PROVE  RowsOf(p, Rows(p))
<1>1. Filed(p) /\ TypeOK
  BY DEF FiledInv
<1>2. Len(outcomes[p]) = NumGames /\ NumGames \in Nat
  BY <1>1, SeriesAssumption DEF Filed, TypeOK
<1>3. DOMAIN outcomes[p] = 1 .. NumGames
  BY <1>1, <1>2, LenProperties DEF TypeOK
<1>4. Rows(p) = [i \in 1 .. NumGames |->
         SubRow(i, RoleIn(p, i), GroupId[p], GroupId[Other(p)],
                outcomes[p][i].result, outcomes[p][i].audit)]
  BY <1>3 DEF Rows
<1>5. Len(Rows(p)) = NumGames
  BY <1>2, <1>4
<1> QED BY <1>4, <1>5 DEF RowsOf

\* The roles of the two peers in one sub-game.
LEMMA RolesOpposed ==
  ASSUME NEW p \in Peer, NEW i
  PROVE  /\ RoleIn(p, i) \in {"police", "thief"}
         /\ RoleIn(Other(p), i) = OpponentRole(RoleIn(p, i))
BY DEF RoleIn, Other, Peer, OpponentRole

\* One row of the artifact: who won it, and what it gave either group.
RowAddsUp(p, i, row) ==
  LET us == GroupId[p]
      them == GroupId[Other(p)]
      won == SubResultRow(row)
  IN  /\ won.result = ResultString(row)
      /\ won.result \in {"capture", "survival", "technical_loss"}
      /\ won.result = "technical_loss" => won.winner_group = NoGroup
      /\ won.result # "technical_loss" => won.winner_group \in {us, them}
      /\ DOMAIN row.score = {us, them}
      /\ row.score[us] = Earns(won.result, RoleIn(p, i))
      /\ row.score[them] = Earns(won.result, RoleIn(Other(p), i))
      /\ row.score[us] \in Int /\ row.score[them] \in Int
      /\ won.log_verified = outcomes[p][i].audit.passed
      /\ won.tampered = outcomes[p][i].audit.forgery

LEMMA EachRowAddsUp ==
  ASSUME GroupsDiffer, NEW p \in Peer, NEW rows, RowsOf(p, rows)
  PROVE  \A i \in 1 .. NumGames : RowAddsUp(p, i, rows[i])
<1> SUFFICES ASSUME NEW i \in 1 .. NumGames PROVE RowAddsUp(p, i, rows[i])
  OBVIOUS
<1> DEFINE us == GroupId[p]
           them == GroupId[Other(p)]
           role == RoleIn(p, i)
           result == outcomes[p][i].result
           dict == outcomes[p][i].audit
<1>1. us # them /\ us # NoGroup /\ them # NoGroup
  BY SeriesAssumption, Peers DEF GroupsDiffer, Peer
<1>2. role \in {"police", "thief"} /\ RoleIn(Other(p), i) = OpponentRole(role)
  BY RolesOpposed
<1>3. rows[i] = SubRow(i, role, us, them, result, dict)
  BY DEF RowsOf
<1>4. rows[i].audit = dict
  BY <1>3 DEF SubRow
<1>5. /\ SubResultRow(rows[i]).result = ResultString(rows[i])
      /\ SubResultRow(rows[i]).log_verified = dict.passed
      /\ SubResultRow(rows[i]).tampered = dict.forgery
  BY <1>4 DEF SubResultRow
<1> HIDE DEF us, them, role, result, dict
<1>6. Won(SubResultRow(rows[i]), us, them)
  BY <1>1, <1>2, <1>3, WinnerNamed
<1>7. Gives(rows[i], us, them, role)
  BY <1>1, <1>2, <1>3, RowEarns
<1> QED BY <1>2, <1>5, <1>6, <1>7 DEF RowAddsUp, Won, Gives, us, them, role, dict

\* What a group earns by the results in the artifact.
PointsOf(p, g, rows) ==
  [i \in 1 .. NumGames |->
     Earns(SubResultRow(rows[i]).result, RoleIn(IF g = GroupId[p] THEN p ELSE Other(p), i))]

LEMMA EarnedIsSum ==
  ASSUME GroupsDiffer, NEW p \in Peer, NEW rows, RowsOf(p, rows),
         NEW g \in {GroupId[p], GroupId[Other(p)]}
  PROVE  Sum(rows, g) = SumOf(PointsOf(p, g, rows)) /\ SumOf(PointsOf(p, g, rows)) \in Int
<1> DEFINE value == PointsOf(p, g, rows)
<1>1. GroupId[p] # GroupId[Other(p)]
  BY Peers DEF GroupsDiffer, Peer
<1>2. \A i \in 1 .. NumGames :
        /\ g \in DOMAIN rows[i].score
        /\ value[i] = rows[i].score[g] /\ value[i] \in Int
  <2> SUFFICES ASSUME NEW i \in 1 .. NumGames
               PROVE  /\ g \in DOMAIN rows[i].score
                      /\ value[i] = rows[i].score[g] /\ value[i] \in Int
    OBVIOUS
  <2>1. RowAddsUp(p, i, rows[i])
    BY EachRowAddsUp
  <2>2. value[i] = Earns(SubResultRow(rows[i]).result,
                         RoleIn(IF g = GroupId[p] THEN p ELSE Other(p), i))
    BY DEF PointsOf
  <2> HIDE DEF value
  <2>3. CASE g = GroupId[p]
    BY <1>1, <2>1, <2>2, <2>3 DEF RowAddsUp
  <2>4. CASE g = GroupId[Other(p)]
    BY <1>1, <2>1, <2>2, <2>4 DEF RowAddsUp
  <2> QED BY <2>3, <2>4
<1>3. value \in [1 .. NumGames -> Int]
  <2>1. value = [i \in 1 .. NumGames |-> value[i]]
    BY DEF PointsOf
  <2> HIDE DEF value
  <2> QED BY <1>2, <2>1
<1>4. NumGames \in Nat /\ Len(rows) = NumGames
  BY SeriesAssumption DEF RowsOf
<1> HIDE DEF value
<1>5. \A i \in 1 .. NumGames :
        value[i] = IF g \in DOMAIN rows[i].score THEN rows[i].score[g] ELSE 0
  BY <1>2
<1>6. Sum(rows, g) = SumOf(value) /\ SumOf(value) \in Int
  BY <1>3, <1>4, <1>5, SumIsSumOf
<1> QED BY <1>6 DEF value

\* Every sub-game is won by one of the two groups, or technical.
LEMMA RowsAreCounted ==
  ASSUME GroupsDiffer, NEW p \in Peer, NEW rows, RowsOf(p, rows)
  PROVE  LET WonBy(g) == {i \in 1 .. NumGames : SubResultRow(rows[i]).winner_group = g}
             technical == {i \in 1 .. NumGames : SubResultRow(rows[i]).result = "technical_loss"}
         IN  Cardinality(WonBy(GroupId[p])) + Cardinality(WonBy(GroupId[Other(p)]))
               + Cardinality(technical) = NumGames
<1> DEFINE WonBy(g) == {i \in 1 .. NumGames : SubResultRow(rows[i]).winner_group = g}
           technical == {i \in 1 .. NumGames : SubResultRow(rows[i]).result = "technical_loss"}
           A == WonBy(GroupId[p])
           B == WonBy(GroupId[Other(p)])
<1>1. /\ GroupId[p] # GroupId[Other(p)]
      /\ GroupId[p] # NoGroup /\ GroupId[Other(p)] # NoGroup
  BY SeriesAssumption, Peers DEF GroupsDiffer, Peer
<1>2. \A i \in 1 .. NumGames :
        LET row == SubResultRow(rows[i])
        IN  IF row.result = "technical_loss" THEN row.winner_group = NoGroup
            ELSE row.winner_group \in {GroupId[p], GroupId[Other(p)]}
  BY EachRowAddsUp DEF RowAddsUp
<1>3. A \cup B \cup technical = 1 .. NumGames
  BY <1>2
<1>4. A \cap B = {} /\ A \cap technical = {} /\ B \cap technical = {}
  BY <1>1, <1>2
<1>5. NumGames \in Nat
  BY SeriesAssumption
<1> HIDE DEF A, B, technical
<1>6. Cardinality(A) + Cardinality(B) + Cardinality(technical) = NumGames
  BY <1>3, <1>4, <1>5, ThreeParts
<1> QED BY <1>6 DEF A, B, technical

\* The artifact of p is what the groups' earnings say.
FollowsFrom(earned, p) ==
  LET a == Artifact(p)
      us == GroupId[p]
      them == GroupId[Other(p)]
      bonus == IF a.series_tie THEN Scoring["tie_score"] ELSE 0
      technical == {i \in 1 .. NumGames : a.sub_games[i].result = "technical_loss"}
  IN  /\ a.sub_games_won[us] + a.sub_games_won[them] + Cardinality(technical) = NumGames
      /\ a.series_tie <=> earned[us] = earned[them]
      /\ a.winner_group = IF earned[us] > earned[them] THEN us
                          ELSE IF earned[them] > earned[us] THEN them ELSE NoGroup
      /\ \A g \in {us, them} : a.total_score[g] = earned[g] + bonus
      /\ a.confirmed => \A i \in 1 .. NumGames :
           outcomes[p][i].audit.received /\ ~a.sub_games[i].tampered

EarnedBy(p) ==
  [g \in {GroupId[p], GroupId[Other(p)]} |->
     SumOf([i \in 1 .. NumGames |->
              Earns(Artifact(p).sub_games[i].result,
                    RoleIn(IF g = GroupId[p] THEN p ELSE Other(p), i))])]

LEMMA ReportFollows ==
  ASSUME \A p \in Peer : phase[p] = "over" => FollowsFrom(EarnedBy(p), p)
  PROVE  ReportAddsUp
BY DEF ReportAddsUp, FollowsFrom, EarnedBy, Earns

LEMMA FinishedReportAddsUp ==
  ASSUME GroupsDiffer, FiledInv, NEW p \in Peer, phase[p] = "over"
  PROVE  FollowsFrom(EarnedBy(p), p)
<1> DEFINE rows == Rows(p)
           a == Artifact(p)
           us == GroupId[p]
           them == GroupId[Other(p)]
           x == SumOf(PointsOf(p, us, rows))
           y == SumOf(PointsOf(p, them, rows))
           totals == SeriesTotals(rows)
           technical == {i \in 1 .. NumGames : a.sub_games[i].result = "technical_loss"}
           bonus == IF a.series_tie THEN Scoring["tie_score"] ELSE 0
<1>1. RowsOf(p, rows) /\ us # them
  BY FinishedRows, Peers DEF GroupsDiffer, Peer
<1>2. /\ \A i \in 1 .. NumGames : a.sub_games[i] = SubResultRow(rows[i])
      /\ a.total_score = totals.totals /\ a.winner_group = totals.winner
      /\ a.series_tie = totals.tie
      /\ a.sub_games_won[us] = Cardinality({i \in 1 .. NumGames :
                                              SubResultRow(rows[i]).winner_group = us})
      /\ a.sub_games_won[them] = Cardinality({i \in 1 .. NumGames :
                                                SubResultRow(rows[i]).winner_group = them})
      /\ a.confirmed <=> \A i \in 1 .. NumGames : SubResultRow(rows[i]).log_verified
  <2>1. DOMAIN rows = 1 .. NumGames
    BY <1>1 DEF RowsOf
  <2> DEFINE condensed == [i \in DOMAIN rows |-> SubResultRow(rows[i])]
  <2>2. /\ a.sub_games = condensed
        /\ a.total_score = totals.totals /\ a.winner_group = totals.winner
        /\ a.series_tie = totals.tie
        /\ a.sub_games_won = [g \in {us, them} |->
             Cardinality({i \in DOMAIN rows : condensed[i].winner_group = g})]
        /\ a.confirmed = \A i \in DOMAIN rows : condensed[i].log_verified
    BY DEF Artifact, ResultArtifact
  <2> HIDE DEF a, rows, totals, us, them
  <2>3. /\ {i \in DOMAIN rows : condensed[i].winner_group = us}
             = {i \in 1 .. NumGames : SubResultRow(rows[i]).winner_group = us}
        /\ {i \in DOMAIN rows : condensed[i].winner_group = them}
             = {i \in 1 .. NumGames : SubResultRow(rows[i]).winner_group = them}
    BY <2>1
  <2>4. /\ a.sub_games_won[us]
             = Cardinality({i \in DOMAIN rows : condensed[i].winner_group = us})
        /\ a.sub_games_won[them]
             = Cardinality({i \in DOMAIN rows : condensed[i].winner_group = them})
    BY <2>2
  <2>5. \A i \in 1 .. NumGames : a.sub_games[i] = SubResultRow(rows[i])
    BY <2>1, <2>2
  <2>6. a.confirmed <=> \A i \in 1 .. NumGames : SubResultRow(rows[i]).log_verified
    BY <2>1, <2>2
  <2> QED BY <2>2, <2>3, <2>4, <2>5, <2>6
<1>3. x = Sum(rows, us) /\ y = Sum(rows, them) /\ x \in Int /\ y \in Int
  BY <1>1, EarnedIsSum
<1>4. \A i \in 1 .. NumGames : RowAddsUp(p, i, rows[i])
  BY <1>1, EachRowAddsUp
<1>5. a.sub_games_won[us] + a.sub_games_won[them] + Cardinality(technical) = NumGames
  <2>1. technical = {i \in 1 .. NumGames : SubResultRow(rows[i]).result = "technical_loss"}
    BY <1>2
  <2> QED BY <1>1, <1>2, <2>1, RowsAreCounted
<1>6. /\ totals.tie <=> x = y
      /\ totals.winner = IF x > y THEN us ELSE IF y > x THEN them ELSE NoGroup
      /\ totals.totals[us] = x + (IF totals.tie THEN Scoring["tie_score"] ELSE 0)
      /\ totals.totals[them] = y + (IF totals.tie THEN Scoring["tie_score"] ELSE 0)
  <2>1. NumGames \in Nat \ {0} /\ DOMAIN rows = 1 .. NumGames
    BY <1>1, SeriesAssumption DEF RowsOf
  <2>2. \A i \in 1 .. NumGames : DOMAIN rows[i].score = {us, them}
    BY <1>4 DEF RowAddsUp
  <2> HIDE DEF rows, us, them, x, y
  <2>3. Sum(rows, us) = x /\ Sum(rows, them) = y
    BY <1>3
  <2> QED BY <1>1, <1>3, <2>1, <2>2, <2>3, TotalsOfTwo DEF totals
<1>7. a.confirmed => \A i \in 1 .. NumGames :
        outcomes[p][i].audit.received /\ ~a.sub_games[i].tampered
  <2> SUFFICES ASSUME a.confirmed, NEW i \in 1 .. NumGames
               PROVE  outcomes[p][i].audit.received /\ ~a.sub_games[i].tampered
    OBVIOUS
  <2>1. SubResultRow(rows[i]).log_verified /\ a.sub_games[i] = SubResultRow(rows[i])
    BY <1>2
  <2>2. /\ SubResultRow(rows[i]).log_verified = outcomes[p][i].audit.passed
        /\ SubResultRow(rows[i]).tampered = outcomes[p][i].audit.forgery
    BY <1>4 DEF RowAddsUp
  <2>3. i \in DOMAIN outcomes[p]
    BY <1>1 DEF RowsOf, Rows
  <2>4. Trustworthy(outcomes[p][i].audit)
    BY <2>3 DEF FiledInv, Filed
  <2> HIDE DEF a, rows
  <2> QED BY <2>1, <2>2, <2>4 DEF Trustworthy
<1> DEFINE earned == EarnedBy(p)
<1>8. earned[us] = x /\ earned[them] = y
  <2>1. \A g : PointsOf(p, g, rows) =
          [i \in 1 .. NumGames |->
             Earns(a.sub_games[i].result, RoleIn(IF g = us THEN p ELSE Other(p), i))]
    BY <1>2 DEF PointsOf
  <2> QED BY <2>1 DEF EarnedBy
<1> HIDE DEF a, rows, us, them, x, y, totals, technical, earned
<1>9. /\ a.series_tie <=> earned[us] = earned[them]
      /\ a.winner_group = IF earned[us] > earned[them] THEN us
                          ELSE IF earned[them] > earned[us] THEN them ELSE NoGroup
      /\ \A g \in {us, them} : a.total_score[g] = earned[g] + bonus
  BY <1>2, <1>6, <1>8
<1> QED BY <1>5, <1>7, <1>9 DEF FollowsFrom, a, us, them, earned, technical, bonus

\* However a series went, the artifact of a process that finished it follows
\* from the results in it: every sub-game counted once, the totals the points of
\* those results and the tie bonus, the winner the one group with more of them;
\* and what it confirms it has audited, whatever the number of sub-games, the
\* points table, the faults and the copies of an agreement.
THEOREM ReportsAddUp == ASSUME GroupsDiffer PROVE Spec => []ReportAddsUp
<1>1. FiledInv => ReportAddsUp
  BY FinishedReportAddsUp, ReportFollows
<1> QED BY <1>1, FiledInvariant, PTL
=============================================================================
