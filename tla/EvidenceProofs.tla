--------------------------- MODULE EvidenceProofs ---------------------------
(***************************************************************************)
(* Theorems about Evidence for every set of pairs of game.json copies, any  *)
(* number of sub-games, turns, restarts and waiting agreements.             *)
(***************************************************************************)
EXTENDS Evidence, SequenceTheorems, FiniteSetTheorems, TLAPS

-----------------------------------------------------------------------------
(* The inductive invariant.  What a process leaves in a chain, an inbox or  *)
(* on disk names the process and the sub-game that made it.                 *)

\* The agreement that p's k-th process offers in its n-th sub-game.
OfferAt(p, k, n) ==
  LET terms == BuildTerms(game[p]) IN
  [terms |-> terms, nonce |-> <<p, k, n, 0>>,
   signature |-> AgreementSignature(terms, <<p, k, n, 0>>),
   identity |-> [group_id |-> GroupId[p], public_key |-> <<p, k>>]]

\* What p's k-th process seals for step s of a sub-game: the declaration,
\* signed with its key, or the step played.
PayloadAt(p, k, s) ==
  IF s = 0 THEN With(Declaration(<<p, k>>), "signature",
                     Sign(<<p, k>>, Declaration(<<p, k>>)))
  ELSE StepPayload(s, StateString(BoardSize, <<s>>, {}))

\* The record of it in the n-th sub-game.
RecordAt(p, k, n, s) == SealStep(CryptoDialect(p), PayloadAt(p, k, s), <<p, k, n, s>>)

Offered == {OfferAt(p, k, n) : p \in Peer, k \in Nat, n \in Nat}

Records == {RecordAt(p, k, n, s) : p \in Peer, k \in Nat, n \in Nat, s \in Nat}

Commits == {r.commit : r \in Records}

\* Past the handshake, and before the log is written.
Playing == {"play", "submit", "audit", "record"}

\* The chain of p's k-th process and n-th sub-game.
OfSession(c, p, k, n) == \A i \in DOMAIN c : c[i] = RecordAt(p, k, n, i - 1)

\* All of one session's chain so far, of a peer that could be built.
RevealOf(p, c) ==
  /\ c \in Seq(Records) /\ c # << >>
  /\ CryptoDialect(p) \in Dialect
  /\ \E k \in Nat, n \in Nat : OfSession(c, p, k, n)

Shape ==
  /\ DOMAIN stage = Peer /\ DOMAIN shaken = Peer /\ DOMAIN audit = Peer
  /\ process \in [Peer -> Nat \ {0}] /\ number \in [Peer -> Nat \ {0}]
  /\ offers \in [Peer -> Seq(Offered)]
  /\ chain \in [Peer -> Seq(Records)]
  /\ live \in [Peer -> Seq(Commits)]
  /\ reveals \in [Peer -> Seq(Seq(Records))]

\* An agreement in an inbox was made by the other peer, in this process or one
\* before it.
OffersAreTheirs ==
  \A p \in Peer : \A i \in DOMAIN offers[p] :
    \E k \in 1 .. process[Opponent(p)], n \in Nat : offers[p][i] = OfferAt(Opponent(p), k, n)

\* A handshake there is exactly while its sub-game is played, and a runtime for
\* it could be built.
OneHandshake ==
  \A p \in Peer :
    /\ stage[p] \in {"offer", "await"} \cup Playing => CryptoDialect(p) \in Dialect
    /\ stage[p] \in Playing => \E h \in shaken[p] : shaken[p] = {h}
    /\ stage[p] \notin Playing => shaken[p] = {}

\* The chain is this session's, from its declaration on.
ChainIsMine ==
  \A p \in Peer :
    /\ chain[p] # << >> <=> stage[p] \in Playing
    /\ OfSession(chain[p], p, process[p], number[p])

\* Each live commit seals that step of some session of the other peer: after a
\* restart of it, not all of them need be of one.
LiveIsTheirs ==
  \A p \in Peer : \A i \in DOMAIN live[p] :
    \E k \in Nat, n \in Nat : live[p][i] = RecordAt(Opponent(p), k, n, i).commit

RevealsAreTheirs ==
  \A p \in Peer : \A i \in DOMAIN reveals[p] : RevealOf(Opponent(p), reveals[p][i])

\* What the verdict was made from is still there.
AuditStands ==
  \A p \in Peer : audit[p].received =>
    /\ stage[p] = "record"
    /\ RevealOf(Opponent(p), audit[p].reveal)
    /\ audit[p] = Judged(p, audit[p].reveal)

DiskIsHonest ==
  /\ \A name \in DOMAIN disk : \E p \in Peer :
       /\ name[1] = GroupId[p]
       /\ "records" \in DOMAIN disk[name]
       /\ RevealOf(p, disk[name].records)
  /\ \A p \in Peer : \A i \in 1 .. number[p] - 1 :
       \E name \in DOMAIN disk : name[1] = GroupId[p] /\ name[3] = i

EvidenceInv ==
  /\ Shape /\ OffersAreTheirs /\ OneHandshake /\ AgreedAlike
  /\ ChainIsMine /\ LiveIsTheirs /\ RevealsAreTheirs /\ AuditStands /\ DiskIsHonest

-----------------------------------------------------------------------------
(* What is sealed, and what a verification makes of it.                     *)

\* The two forms of a commit are never equal.
LEMMA FormsDiffer ==
  ASSUME NEW payload, NEW nonce, NEW other, NEW another
  PROVE  BookCommit(payload, nonce) # ReferenceCommit(other, another)
<1>1. \A a, b, c : <<a>> # <<b, c>>
  OBVIOUS
<1>2. QED
  BY <1>1 DEF BookCommit, ReferenceCommit

\* The declaration that opens a chain carries its step, its key and the
\* signature over both.
LEMMA DeclarationIs ==
  ASSUME NEW p \in Peer, NEW k \in Nat
  PROVE  /\ DOMAIN PayloadAt(p, k, 0) = {"step", "public_key", "signature"}
         /\ PayloadAt(p, k, 0).step = 0
         /\ PayloadAt(p, k, 0).public_key = <<p, k>>
         /\ PayloadAt(p, k, 0).signature = Sign(<<p, k>>, Declaration(<<p, k>>))
<1> DEFINE d == Declaration(<<p, k>>)
           sg == Sign(<<p, k>>, d)
<1>1. DOMAIN d = {"step", "public_key"} /\ d.step = 0 /\ d.public_key = <<p, k>>
  BY DEF Declaration
<1>2. PayloadAt(p, k, 0) = With(d, "signature", sg)
  BY DEF PayloadAt
<1> HIDE DEF d, sg
<1>3. /\ DOMAIN With(d, "signature", sg) = {"step", "public_key", "signature"}
      /\ With(d, "signature", sg)["signature"] = sg
      /\ With(d, "signature", sg)["step"] = 0
      /\ With(d, "signature", sg)["public_key"] = <<p, k>>
  BY <1>1 DEF With
<1>4. QED
  BY <1>2, <1>3 DEF d, sg

\* A played step carries its number, its state and the position in that state.
LEMMA StepIs ==
  ASSUME NEW p \in Peer, NEW k \in Nat, NEW s \in Nat \ {0}
  PROVE  /\ DOMAIN PayloadAt(p, k, s) = {"step", "state", "position"}
         /\ PayloadAt(p, k, s).step = s
         /\ PayloadAt(p, k, s).state.grid = BoardSize
         /\ PayloadAt(p, k, s).state.barriers = {}
         /\ PayloadAt(p, k, s).position = PayloadAt(p, k, s).state.self
<1>1. PayloadAt(p, k, s) = [step |-> s, state |-> [grid |-> BoardSize, self |-> <<s>>,
                                                    barriers |-> {}],
                             position |-> <<s>>]
  BY DEF PayloadAt, StepPayload, StateString
<1>2. QED
  BY <1>1

\* Either names its step and holds no nonce.
LEMMA PayloadIs ==
  ASSUME NEW p \in Peer, NEW k \in Nat, NEW s \in Nat
  PROVE  PayloadAt(p, k, s).step = s /\ "nonce" \notin DOMAIN PayloadAt(p, k, s)
<1>1. CASE s = 0
  <2>1. PayloadAt(p, k, s) = PayloadAt(p, k, 0)
    BY <1>1
  <2>2. PayloadAt(p, k, s).step = s
    BY <1>1, <2>1, DeclarationIs
  <2>3. DOMAIN PayloadAt(p, k, s) = {"step", "public_key", "signature"}
    BY <2>1, DeclarationIs
  <2>4. QED
    BY <2>2, <2>3
<1>2. CASE s # 0
  BY <1>2, StepIs
<1>3. QED
  BY <1>1, <1>2

\* A record holds its payload, the nonce of its step, and the commit to both.
LEMMA RecordIs ==
  ASSUME NEW p \in Peer, NEW k \in Nat, NEW n \in Nat, NEW s \in Nat
  PROVE  /\ RecordAt(p, k, n, s).payload = PayloadAt(p, k, s)
         /\ RecordAt(p, k, n, s).nonce = <<p, k, n, s>>
         /\ RecordAt(p, k, n, s).commit = Commit(CryptoDialect(p), PayloadAt(p, k, s), <<p, k, n, s>>)
BY DEF RecordAt, SealStep, AuditRecord

\* It verifies under the dialect it was sealed in, and under no other.
LEMMA VerifiesInItsDialect ==
  ASSUME NEW p \in Peer, NEW k \in Nat, NEW n \in Nat, NEW s \in Nat,
         CryptoDialect(p) \in Dialect, NEW d \in Dialect
  PROVE  Verify(d, RecordAt(p, k, n, s)) <=> d = CryptoDialect(p)
<1> DEFINE payload == PayloadAt(p, k, s)
           nonce == <<p, k, n, s>>
           r == RecordAt(p, k, n, s)
<1>1. r.payload = payload /\ r.nonce = nonce /\ r.commit = Commit(CryptoDialect(p), payload, nonce)
  BY RecordIs
<1>2. "nonce" \notin DOMAIN payload
  BY PayloadIs
<1> HIDE DEF payload, nonce, r
<1>3. Verify(d, r) <=> Commit(CryptoDialect(p), payload, nonce) = Commit(d, payload, nonce)
  BY <1>1, <1>2 DEF Verify
<1>4. QED
  BY <1>3, FormsDiffer DEF Commit, Dialect, r

\* The nonce can be read back out of a commit.
LEMMA SealedWithItsNonce ==
  ASSUME NEW p \in Peer, NEW k \in Nat, NEW n \in Nat, NEW s \in Nat
  PROVE  SealedWith(RecordAt(p, k, n, s).commit) = <<p, k, n, s>>
<1> DEFINE payload == PayloadAt(p, k, s)
           nonce == <<p, k, n, s>>
<1>1. RecordAt(p, k, n, s).commit = Commit(CryptoDialect(p), payload, nonce)
  BY RecordIs
<1> HIDE DEF payload, nonce
<1>2. CASE CryptoDialect(p) = "book"
  <2>1. RecordAt(p, k, n, s).commit = <<With(payload, "nonce", nonce)>>
    BY <1>1, <1>2 DEF Commit, BookCommit
  <2>2. With(payload, "nonce", nonce).nonce = nonce
    BY DEF With
  <2>3. Len(<<With(payload, "nonce", nonce)>>) # 2
    OBVIOUS
  <2>4. QED
    BY <2>1, <2>2, <2>3 DEF SealedWith, nonce
<1>3. CASE CryptoDialect(p) # "book"
  <2>1. RecordAt(p, k, n, s).commit = <<payload, nonce>>
    BY <1>1, <1>3 DEF Commit, ReferenceCommit
  <2>2. Len(<<payload, nonce>>) = 2
    OBVIOUS
  <2>3. QED
    BY <2>1, <2>2 DEF SealedWith, nonce
<1>4. QED
  BY <1>2, <1>3

\* A declaration's signature verifies under the key it declares, and under no
\* other.
LEMMA SignedByItsKey ==
  ASSUME NEW p \in Peer, NEW k \in Nat, NEW key
  PROVE  VerifyStep0Signature(PayloadAt(p, k, 0), key) <=> key = <<p, k>>
<1> DEFINE payload == PayloadAt(p, k, 0)
           d == Declaration(<<p, k>>)
<1>1. /\ DOMAIN payload = {"step", "public_key", "signature"}
      /\ payload.step = 0 /\ payload.public_key = <<p, k>>
      /\ payload.signature = Sign(<<p, k>>, d)
  BY DeclarationIs
<1>2. d = [x \in {"step", "public_key"} |-> payload[x]]
  BY <1>1 DEF Declaration
<1>3. DOMAIN payload \ {"signature"} = {"step", "public_key"}
  BY <1>1
<1> HIDE DEF payload, d
<1>4. QED
  BY <1>1, <1>2, <1>3 DEF VerifyStep0Signature, VerifySignature, Sign, payload

-----------------------------------------------------------------------------
(* The verdict on a reveal, and on a log.                                   *)

\* What a reveal is made of.
LEMMA RevealIs ==
  ASSUME NEW p \in Peer, NEW c, RevealOf(p, c)
  PROVE  /\ CryptoDialect(p) \in Dialect
         /\ c \in Seq(Records) /\ c # << >>
         /\ Len(c) \in Nat \ {0} /\ DOMAIN c = 1 .. Len(c) /\ 1 \in DOMAIN c
<1>1. c \in Seq(Records) /\ c # << >> /\ CryptoDialect(p) \in Dialect
  BY DEF RevealOf
<1>2. QED
  BY <1>1, EmptySeq, LenProperties

\* What a record of it is made of.
LEMMA RevealedIs ==
  ASSUME NEW p \in Peer, NEW c, NEW k \in Nat, NEW n \in Nat, RevealOf(p, c),
         OfSession(c, p, k, n), NEW i \in DOMAIN c
  PROVE  /\ i - 1 \in Nat
         /\ c[i] = RecordAt(p, k, n, i - 1)
         /\ c[i].payload = PayloadAt(p, k, i - 1)
         /\ c[i].payload.step = i - 1
         /\ c[i].nonce = <<p, k, n, i - 1>>
         /\ c[i].commit = RecordAt(p, k, n, i - 1).commit
<1> DEFINE s == i - 1
<1>1. s \in Nat /\ c[i] = RecordAt(p, k, n, s)
  BY RevealIs DEF OfSession
<1> HIDE DEF s
<1>2. RecordAt(p, k, n, s).payload = PayloadAt(p, k, s) /\ RecordAt(p, k, n, s).nonce = <<p, k, n, s>>
  BY <1>1, RecordIs
<1>3. PayloadAt(p, k, s).step = s
  BY <1>1, PayloadIs
<1>4. QED
  BY <1>1, <1>2, <1>3 DEF s

\* The records of an honest chain verify under the dialect of its peer, all of
\* them, and none under the other.
LEMMA AllOrNoneVerify ==
  ASSUME NEW p \in Peer, NEW c, RevealOf(p, c), NEW d \in Dialect
  PROVE  \A i \in DOMAIN c : Verify(d, c[i]) <=> d = CryptoDialect(p)
<1>1. PICK k \in Nat, n \in Nat : OfSession(c, p, k, n)
  BY DEF RevealOf
<1>2. \A i \in DOMAIN c : i - 1 \in Nat /\ c[i] = RecordAt(p, k, n, i - 1)
  BY <1>1, RevealedIs
<1>3. QED
  BY <1>2, RevealIs, VerifiesInItsDialect

\* Commits revealed under one dialect differ from the live ones exactly where
\* they are of another session.
LEMMA MismatchIsAnotherSession ==
  ASSUME EvidenceInv, NEW p \in Peer, audit[p].received
  PROVE  RevealMismatches(audit[p].reveal, live[p]) # {} <=> OfAnotherSession(p)
<1> DEFINE q == Opponent(p)
           c == audit[p].reveal
           l == live[p]
<1>1. q \in Peer /\ RevealOf(q, c) /\ l \in Seq(Commits)
  BY DEF EvidenceInv, AuditStands, Shape, Opponent, Peer
<1>2. DOMAIN c = 1 .. Len(c) /\ Len(c) \in Nat
  BY <1>1, RevealIs
<1>3. PICK k \in Nat, n \in Nat : OfSession(c, q, k, n)
  BY <1>1 DEF RevealOf
<1>4. DOMAIN l = 1 .. Len(l) /\ Len(l) \in Nat
  BY <1>1, LenProperties
<1>5. ASSUME NEW s \in DOMAIN l, s + 1 \in DOMAIN c
      PROVE  c[s + 1].commit # l[s] <=> c[s + 1].nonce # SealedWith(l[s])
  <2>1. PICK a \in Nat, b \in Nat : l[s] = RecordAt(q, a, b, s).commit
    BY DEF EvidenceInv, LiveIsTheirs
  <2>2. s \in Nat /\ s # 0 /\ (s + 1) - 1 = s
    BY <1>4
  <2>3. c[s + 1].commit = RecordAt(q, k, n, s).commit /\ c[s + 1].nonce = <<q, k, n, s>>
    BY <1>1, <1>3, <1>5, <2>2, RevealedIs
  <2> HIDE DEF q, c, l
  <2>4. SealedWith(RecordAt(q, a, b, s).commit) = <<q, a, b, s>>
    BY <1>1, <2>2, SealedWithItsNonce
  <2>5. SealedWith(RecordAt(q, k, n, s).commit) = <<q, k, n, s>>
    BY <1>1, <2>2, SealedWithItsNonce
  <2>6. RecordAt(q, k, n, s).commit = RecordAt(q, a, b, s).commit
          <=> <<q, k, n, s>> = <<q, a, b, s>>
    BY <2>4, <2>5
  <2>7. QED
    BY <2>1, <2>3, <2>4, <2>6
<1>6. RevealMismatches(c, l) # {} <=> \E s \in DOMAIN l : s + 1 \in DOMAIN c /\ c[s + 1].commit # l[s]
  <2> HIDE DEF q, c, l
  <2>0. \A i \in DOMAIN c : c[i].payload.step = i - 1
    BY <1>1, <1>3, RevealedIs
  <2>1. \A s \in DOMAIN l : \A i \in DOMAIN c : c[i].payload.step = s <=> i = s + 1
    BY <1>2, <1>4, <2>0
  <2>2. QED
    BY <2>1 DEF RevealMismatches
<1>7. \A s \in DOMAIN l : s + 1 \in DOMAIN c => s \in DOMAIN c
  BY <1>2, <1>4
<1>8. OfAnotherSession(p) <=> \E s \in DOMAIN l : s + 1 \in DOMAIN c /\ c[s + 1].nonce # SealedWith(l[s])
  BY <1>7 DEF OfAnotherSession, c, l
<1>9. QED
  BY <1>5, <1>6, <1>8 DEF c, l

\* The verdict on one reveal.
LEMMA VerdictHasCause ==
  ASSUME EvidenceInv, NEW p \in Peer, audit[p].received
  PROVE  audit[p].forgery <=>
           \/ CryptoDialect(p) # CryptoDialect(Opponent(p))
           \/ \E h \in shaken[p] : h.opponent_pubkey # audit[p].reveal[1].payload.public_key
           \/ OfAnotherSession(p)
<1> DEFINE q == Opponent(p)
           c == audit[p].reveal
           d == CryptoDialect(p)
<1>1. /\ q \in Peer /\ RevealOf(q, c) /\ audit[p] = Judged(p, c)
      /\ stage[p] = "record"
  BY DEF EvidenceInv, AuditStands, Opponent, Peer
<1>2. d \in Dialect /\ \E h \in shaken[p] : shaken[p] = {h}
  BY <1>1 DEF EvidenceInv, OneHandshake, Playing
<1>3. PICK h : shaken[p] = {h} /\ (CHOOSE x \in shaken[p] : TRUE) = h
  BY <1>2
<1> DEFINE key == h.opponent_pubkey
           found == AuditVerify(c, d) \cup RevealMismatches(c, live[p])
<1>4. audit[p].forgery = (FailedSteps(c, d, live[p], key) # {})
  <2>1. Judged(p, c).forgery = (FailedSteps(c, d, live[p], key) # {})
    BY <1>3 DEF Judged
  <2>2. QED
    BY <1>1, <2>1
<1>5. PICK k \in Nat, n \in Nat : OfSession(c, q, k, n)
  BY <1>1 DEF RevealOf
<1>6. /\ c \in Seq(Records) /\ c # << >> /\ 1 \in DOMAIN c
      /\ c[1].payload = PayloadAt(q, k, 0)
  <2>1. c \in Seq(Records) /\ c # << >> /\ 1 \in DOMAIN c
    BY <1>1, RevealIs
  <2>2. c[1].payload = PayloadAt(q, k, 1 - 1)
    BY <1>1, <1>5, <2>1, RevealedIs
  <2>3. QED
    BY <2>1, <2>2
<1>7. AuditVerify(c, d) = {} <=> d = CryptoDialect(q)
  <2>1. \A i \in DOMAIN c : Verify(d, c[i]) <=> d = CryptoDialect(q)
    BY <1>1, <1>2, AllOrNoneVerify
  <2> HIDE DEF c, d, q
  <2>2. QED
    BY <1>6, <2>1 DEF AuditVerify
<1>8. c[1].payload.public_key = <<q, k>> /\ (VerifyStep0Signature(c[1].payload, key) <=> key = <<q, k>>)
  <2>1. 0 \in Nat
    OBVIOUS
  <2>2. PayloadAt(q, k, 0).public_key = <<q, k>>
    BY <1>1, <2>1, DeclarationIs
  <2>3. VerifyStep0Signature(PayloadAt(q, k, 0), key) <=> key = <<q, k>>
    BY <1>1, SignedByItsKey
  <2>4. QED
    BY <1>6, <2>2, <2>3
<1>9. RevealMismatches(c, live[p]) # {} <=> OfAnotherSession(p)
  BY MismatchIsAnotherSession
<1> HIDE DEF c, d, q, key, found
<1>10. FailedSteps(c, d, live[p], key) # {} <=>
         found # {} \/ ~VerifyStep0Signature(c[1].payload, key)
  BY <1>6 DEF FailedSteps, found
<1>11. found # {} <=> d # CryptoDialect(q) \/ OfAnotherSession(p)
  BY <1>7, <1>9 DEF found
<1>12. (\E x \in shaken[p] : x.opponent_pubkey # c[1].payload.public_key) <=> key # <<q, k>>
  BY <1>3, <1>8 DEF key
<1>13. QED
  BY <1>4, <1>8, <1>10, <1>11, <1>12 DEF c, d, q

\* An honest chain, written to disk.
LEMMA LogOfAChain ==
  ASSUME NEW p \in Peer, NEW c, RevealOf(p, c)
  PROVE  /\ LogPasses(c) /\ LogDialect(c) = CryptoDialect(p)
         /\ ViewerRaises(c) <=> Len(c) = 1
         /\ \A i \in DOMAIN Frames(c) :
              ParseState(Frames(c)[i].payload) = <<Frames(c)[i].payload.position, {}>>
<1>1. /\ Len(c) \in Nat \ {0} /\ DOMAIN c = 1 .. Len(c) /\ 1 \in DOMAIN c
      /\ c # << >> /\ CryptoDialect(p) \in Dialect
  BY RevealIs
<1>2. PICK k \in Nat, n \in Nat : OfSession(c, p, k, n)
  BY DEF RevealOf
<1>3. \A d \in Dialect : Verified(c, d) = IF d = CryptoDialect(p) THEN DOMAIN c ELSE {}
  BY AllOrNoneVerify DEF Verified
<1>4. LogPasses(c) /\ LogDialect(c) = CryptoDialect(p)
  <2> DEFINE ref == Verified(c, "reference")
             book == Verified(c, "book")
  <2>1. CASE CryptoDialect(p) = "reference"
    <3>1. ref = DOMAIN c /\ book = {} /\ ref # {}
      BY <1>1, <1>3, <2>1 DEF Dialect
    <3>2. QED
      BY <1>1, <2>1, <3>1 DEF LogPasses, LogDialect
  <2>2. CASE CryptoDialect(p) = "book"
    <3>1. book = DOMAIN c /\ ref = {} /\ book # {}
      BY <1>1, <1>3, <2>2 DEF Dialect
    <3>2. QED
      BY <1>1, <2>2, <3>1 DEF LogPasses, LogDialect
  <2>3. QED
    BY <1>1, <2>1, <2>2 DEF Dialect
<1>5. ASSUME NEW i \in DOMAIN c
      PROVE  /\ i = 1 => GridSize(c[i].payload) = 0 /\ "position" \notin DOMAIN c[i].payload
             /\ i # 1 => /\ GridSize(c[i].payload) # 0
                         /\ ParseState(c[i].payload) = <<c[i].payload.position, {}>>
  <2> DEFINE s == i - 1
             payload == c[i].payload
  <2>1. payload = PayloadAt(p, k, s) /\ s \in Nat /\ (s = 0 <=> i = 1)
    BY <1>1, <1>2, RevealedIs
  <2> HIDE DEF s, payload
  <2>2. CASE s = 0
    <3>1. payload = PayloadAt(p, k, 0)
      BY <2>1, <2>2
    <3>2. DOMAIN payload = {"step", "public_key", "signature"}
      BY <3>1, DeclarationIs
    <3>3. GridSize(payload) = 0 /\ "position" \notin DOMAIN payload
      BY <3>2 DEF GridSize, HasState
    <3>4. QED
      BY <2>1, <2>2, <3>3 DEF payload
  <2>3. CASE s # 0
    <3>1. /\ DOMAIN payload = {"step", "state", "position"}
          /\ payload.state.grid = BoardSize
          /\ payload.state.barriers = {}
          /\ payload.position = payload.state.self
      BY <2>1, <2>3, StepIs
    <3>2. GridSize(payload) # 0 /\ ParseState(payload) = <<payload.position, {}>>
      BY <3>1, EvidenceAssumption DEF GridSize, HasState, ParseState
    <3>3. QED
      BY <2>1, <2>3, <3>2 DEF payload
  <2>4. QED
    BY <2>2, <2>3
<1>6. ViewerRaises(c) <=> Len(c) = 1
  <2>1. Len(c) # 1 => 2 \in DOMAIN c
    BY <1>1
  <2>2. Len(c) = 1 => \A i \in DOMAIN c : i = 1
    BY <1>1
  <2>3. QED
    BY <1>1, <1>5, <2>1, <2>2 DEF ViewerRaises
<1>7. ASSUME NEW i \in DOMAIN Frames(c)
      PROVE  ParseState(Frames(c)[i].payload) = <<Frames(c)[i].payload.position, {}>>
  <2>1. i \in DOMAIN c /\ "position" \in DOMAIN c[i].payload /\ Frames(c)[i] = c[i]
    BY DEF Frames
  <2>2. QED
    BY <1>5, <2>1
<1>8. QED
  BY <1>4, <1>6, <1>7

-----------------------------------------------------------------------------
(* The steps.  A copy of game.json is read once, so what names one is not   *)
(* changed by any step.                                                     *)

\* What a sealed record, a reveal or an offer is does not change.
LEMMA GameStands ==
  ASSUME game' = game
  PROVE  /\ Records' = Records /\ Offered' = Offered /\ Commits' = Commits
         /\ \A p : CryptoDialect(p)' = CryptoDialect(p)
         /\ \A p, k, n : OfferAt(p, k, n)' = OfferAt(p, k, n)
         /\ \A p, k, n, s : RecordAt(p, k, n, s)' = RecordAt(p, k, n, s)
         /\ \A c, p, k, n : OfSession(c, p, k, n)' = OfSession(c, p, k, n)
         /\ \A p, c : RevealOf(p, c)' = RevealOf(p, c)
BY DEF Records, Offered, Commits, OfferAt, RecordAt, OfSession, RevealOf, CryptoDialect,
       AgreementSignature, PayloadAt

\* The two peers.
LEMMA Peers ==
  ASSUME NEW p \in Peer
  PROVE  /\ Opponent(p) \in Peer /\ Opponent(p) # p /\ Opponent(Opponent(p)) = p
         /\ \A o \in Peer : o # p => o = Opponent(p)
BY DEF Peer, Opponent

\* Where a peer goes, and that the other stays.
LEMMA GoesThere ==
  ASSUME Shape, NEW p \in Peer, NEW there, Goto(p, there)
  PROVE  DOMAIN stage' = Peer /\ stage'[p] = there /\ \A o \in Peer : o # p => stage'[o] = stage[o]
BY DEF Shape, Goto

\* Unread agreements and reveals are what they were.
LEMMA InboxesStand ==
  ASSUME EvidenceInv, game' = game
  PROVE  /\ UNCHANGED <<offers, process>> => OffersAreTheirs'
         /\ UNCHANGED reveals => RevealsAreTheirs'
         /\ UNCHANGED live => LiveIsTheirs'
         /\ UNCHANGED <<disk, number>> => DiskIsHonest'
<1>1. UNCHANGED <<offers, process>> => OffersAreTheirs'
  BY GameStands DEF EvidenceInv, OffersAreTheirs
<1>2. UNCHANGED reveals => RevealsAreTheirs'
  BY GameStands DEF EvidenceInv, RevealsAreTheirs
<1>3. UNCHANGED live => LiveIsTheirs'
  BY GameStands DEF EvidenceInv, LiveIsTheirs
<1>4. UNCHANGED <<disk, number>> => DiskIsHonest'
  BY GameStands DEF EvidenceInv, DiskIsHonest
<1>5. QED
  BY <1>1, <1>2, <1>3, <1>4

\* A peer that goes on with its session, if it has one, keeps all that the
\* session tells.
LEMMA SessionStands ==
  ASSUME EvidenceInv, NEW p \in Peer, UNCHANGED <<game, process, number, session>>,
         DOMAIN stage' = Peer, \A o \in Peer : o # p => stage'[o] = stage[o],
         stage'[p] \in Playing <=> stage[p] \in Playing,
         stage'[p] \in {"offer", "await"} => CryptoDialect(p) \in Dialect,
         stage[p] = "record" => stage'[p] = "record"
  PROVE  OneHandshake' /\ AgreedAlike' /\ ChainIsMine' /\ LiveIsTheirs' /\ AuditStands'
<1> USE DEF session
<1>1. OneHandshake'
  <2> SUFFICES ASSUME NEW o \in Peer
      PROVE  /\ stage'[o] \in {"offer", "await"} \cup Playing => CryptoDialect(o) \in Dialect
             /\ stage'[o] \in Playing => \E h \in shaken[o] : shaken[o] = {h}
             /\ stage'[o] \notin Playing => shaken[o] = {}
    BY GameStands DEF OneHandshake
  <2>1. /\ stage[o] \in {"offer", "await"} \cup Playing => CryptoDialect(o) \in Dialect
        /\ stage[o] \in Playing => \E h \in shaken[o] : shaken[o] = {h}
        /\ stage[o] \notin Playing => shaken[o] = {}
    BY DEF EvidenceInv, OneHandshake
  <2>2. CASE o = p
    BY <2>1, <2>2
  <2>3. CASE o # p
    BY <2>1, <2>3
  <2>4. QED
    BY <2>2, <2>3
<1>2. AgreedAlike'
  BY DEF EvidenceInv, AgreedAlike
<1>3. ChainIsMine'
  <2> SUFFICES ASSUME NEW o \in Peer
      PROVE  /\ chain[o] # << >> <=> stage'[o] \in Playing
             /\ OfSession(chain[o], o, process[o], number[o])
    BY GameStands DEF ChainIsMine
  <2>1. /\ chain[o] # << >> <=> stage[o] \in Playing
        /\ OfSession(chain[o], o, process[o], number[o])
    BY DEF EvidenceInv, ChainIsMine
  <2>2. CASE o = p
    BY <2>1, <2>2
  <2>3. CASE o # p
    BY <2>1, <2>3
  <2>4. QED
    BY <2>2, <2>3
<1>4. LiveIsTheirs'
  BY InboxesStand
<1>5. AuditStands'
  <2> SUFFICES ASSUME NEW o \in Peer, audit[o].received
      PROVE  /\ stage'[o] = "record"
             /\ RevealOf(Opponent(o), audit[o].reveal)
             /\ audit[o] = Judged(o, audit[o].reveal)'
    BY GameStands DEF AuditStands
  <2>1. /\ stage[o] = "record"
        /\ RevealOf(Opponent(o), audit[o].reveal)
        /\ audit[o] = Judged(o, audit[o].reveal)
    BY DEF EvidenceInv, AuditStands
  <2>2. Judged(o, audit[o].reveal)' = Judged(o, audit[o].reveal)
    BY GameStands DEF Judged
  <2>3. stage'[o] = "record"
    <3>1. CASE o = p
      BY <2>1, <3>1
    <3>2. CASE o # p
      BY <2>1, <3>2
    <3>3. QED
      BY <3>1, <3>2
  <2>4. QED
    BY <2>1, <2>2, <2>3
<1>6. QED
  BY <1>1, <1>2, <1>3, <1>4, <1>5

\* A process of which no session is left.
LEMMA SessionEnds ==
  ASSUME EvidenceInv, NEW p \in Peer, game' = game, FreshSession(p),
         DOMAIN stage' = Peer, \A o \in Peer : o # p => stage'[o] = stage[o],
         stage'[p] \notin {"offer", "await"} \cup Playing,
         process' \in [Peer -> Nat \ {0}], \A o \in Peer : process'[o] >= process[o],
         \A o \in Peer : o # p => process'[o] = process[o] /\ number'[o] = number[o]
  PROVE  OneHandshake' /\ AgreedAlike' /\ ChainIsMine' /\ LiveIsTheirs' /\ AuditStands'
<1>1. /\ shaken' = [shaken EXCEPT ![p] = {}] /\ chain' = [chain EXCEPT ![p] = << >>]
      /\ live' = [live EXCEPT ![p] = << >>] /\ audit' = [audit EXCEPT ![p] = NoAudit]
  BY DEF FreshSession
<1>2. /\ DOMAIN shaken = Peer /\ DOMAIN chain = Peer /\ DOMAIN live = Peer /\ DOMAIN audit = Peer
      /\ process \in [Peer -> Nat \ {0}]
  BY DEF EvidenceInv, Shape
<1>3. /\ shaken'[p] = {} /\ chain'[p] = << >> /\ live'[p] = << >> /\ audit'[p] = NoAudit
      /\ \A o \in Peer : o # p => /\ shaken'[o] = shaken[o] /\ chain'[o] = chain[o]
                                  /\ live'[o] = live[o] /\ audit'[o] = audit[o]
  BY <1>1, <1>2
<1>4. OneHandshake'
  <2> SUFFICES ASSUME NEW o \in Peer
      PROVE  /\ stage'[o] \in {"offer", "await"} \cup Playing => CryptoDialect(o) \in Dialect
             /\ stage'[o] \in Playing => \E h \in shaken'[o] : shaken'[o] = {h}
             /\ stage'[o] \notin Playing => shaken'[o] = {}
    BY GameStands DEF OneHandshake
  <2>1. CASE o = p
    BY <1>3, <2>1
  <2>2. CASE o # p
    BY <1>3, <2>2 DEF EvidenceInv, OneHandshake
  <2>3. QED
    BY <2>1, <2>2
<1>5. AgreedAlike'
  <2> SUFFICES ASSUME NEW o \in Peer, NEW h \in shaken'[o]
      PROVE  /\ h.terms = BuildTerms(game[o]) /\ h.terms = BuildTerms(game[Opponent(o)])
             /\ h.ids = DeriveGameIds(BuildTerms(game[Opponent(o)]), GroupId[Opponent(o)], GroupId[o])
             /\ h.opponent_group = GroupId[Opponent(o)]
             /\ \E n \in 1 .. process'[Opponent(o)] : h.opponent_pubkey = <<Opponent(o), n>>
    BY DEF AgreedAlike
  <2>1. h \in shaken[o]
    BY <1>3
  <2>2. /\ h.terms = BuildTerms(game[o]) /\ h.terms = BuildTerms(game[Opponent(o)])
        /\ h.ids = DeriveGameIds(BuildTerms(game[Opponent(o)]), GroupId[Opponent(o)], GroupId[o])
        /\ h.opponent_group = GroupId[Opponent(o)]
        /\ \E n \in 1 .. process[Opponent(o)] : h.opponent_pubkey = <<Opponent(o), n>>
    BY <2>1 DEF EvidenceInv, AgreedAlike
  <2>3. /\ process[Opponent(o)] \in Nat /\ process'[Opponent(o)] \in Nat
        /\ process'[Opponent(o)] >= process[Opponent(o)]
    BY <1>2, Peers
  <2>4. 1 .. process[Opponent(o)] \subseteq 1 .. process'[Opponent(o)]
    BY <2>3
  <2>5. QED
    BY <2>2, <2>4
<1>6. ChainIsMine'
  <2> SUFFICES ASSUME NEW o \in Peer
      PROVE  /\ chain'[o] # << >> <=> stage'[o] \in Playing
             /\ OfSession(chain'[o], o, process'[o], number'[o])
    BY GameStands DEF ChainIsMine
  <2>1. CASE o = p
    BY <1>3, <2>1 DEF OfSession
  <2>2. CASE o # p
    BY <1>3, <2>2 DEF EvidenceInv, ChainIsMine
  <2>3. QED
    BY <2>1, <2>2
<1>7. LiveIsTheirs'
  <2> SUFFICES ASSUME NEW o \in Peer, NEW i \in DOMAIN live'[o]
      PROVE  \E k \in Nat, n \in Nat : live'[o][i] = RecordAt(Opponent(o), k, n, i).commit
    BY GameStands DEF LiveIsTheirs
  <2>1. live'[o] = live[o]
    BY <1>3
  <2>2. i \in DOMAIN live[o]
    BY <2>1
  <2>3. \E k \in Nat, n \in Nat : live[o][i] = RecordAt(Opponent(o), k, n, i).commit
    BY <2>2 DEF EvidenceInv, LiveIsTheirs
  <2>4. QED
    BY <2>1, <2>3
<1>8. AuditStands'
  <2> SUFFICES ASSUME NEW o \in Peer, audit'[o].received
      PROVE  /\ stage'[o] = "record"
             /\ RevealOf(Opponent(o), audit'[o].reveal)
             /\ audit'[o] = Judged(o, audit[o].reveal)'
    BY GameStands DEF AuditStands
  <2>1. o # p
    BY <1>3 DEF NoAudit
  <2>2. /\ audit'[o] = audit[o] /\ live'[o] = live[o] /\ shaken'[o] = shaken[o]
        /\ stage'[o] = stage[o]
    BY <1>3, <2>1
  <2>3. /\ stage[o] = "record"
        /\ RevealOf(Opponent(o), audit[o].reveal)
        /\ audit[o] = Judged(o, audit[o].reveal)
    BY <2>2 DEF EvidenceInv, AuditStands
  <2>4. Judged(o, audit[o].reveal)' = Judged(o, audit[o].reveal)
    BY <2>2, GameStands DEF Judged
  <2>5. QED
    BY <2>2, <2>3, <2>4
<1>9. QED
  BY <1>4, <1>5, <1>6, <1>7, <1>8

\* The parts of the shape that are functions on the peers.
LEMMA ShapeIs ==
  ASSUME EvidenceInv
  PROVE  /\ DOMAIN stage = Peer /\ DOMAIN shaken = Peer /\ DOMAIN audit = Peer
         /\ process \in [Peer -> Nat \ {0}] /\ number \in [Peer -> Nat \ {0}]
         /\ offers \in [Peer -> Seq(Offered)]
         /\ chain \in [Peer -> Seq(Records)]
         /\ live \in [Peer -> Seq(Commits)]
         /\ reveals \in [Peer -> Seq(Seq(Records))]
BY DEF EvidenceInv, Shape

\* A step of which nothing is kept but where it went.
LEMMA OnlyMoves ==
  ASSUME EvidenceInv, NEW p \in Peer, NEW there, Goto(p, there), stage[p] # "record",
         UNCHANGED <<game, process, number, offers, session, reveals, disk>>,
         there \in Playing <=> stage[p] \in Playing, there \notin {"offer", "await"}
  PROVE  EvidenceInv'
<1>1. /\ DOMAIN stage' = Peer /\ stage'[p] = there
      /\ \A o \in Peer : o # p => stage'[o] = stage[o]
  BY GoesThere DEF EvidenceInv
<1>2. OneHandshake' /\ AgreedAlike' /\ ChainIsMine' /\ LiveIsTheirs' /\ AuditStands'
  BY <1>1, SessionStands
<1>3. OffersAreTheirs' /\ RevealsAreTheirs' /\ DiskIsHonest'
  BY InboxesStand
<1>4. Shape'
  BY <1>1, ShapeIs, GameStands DEF Shape, session
<1>5. QED
  BY <1>2, <1>3, <1>4 DEF EvidenceInv

\* A handshake given up on leaves none.
LEMMA HandshakeFailsKeeps ==
  ASSUME EvidenceInv, NEW p \in Peer, HandshakeFails(p)
  PROVE  EvidenceInv'
BY OnlyMoves DEF HandshakeFails, Playing

\* The chain is there to be revealed, however the loop ended.
LEMMA LeaveLoopKeeps ==
  ASSUME EvidenceInv, NEW p \in Peer, LeaveLoop(p)
  PROVE  EvidenceInv'
BY OnlyMoves DEF LeaveLoop, Playing

\* Without a reveal there is no verdict.
LEMMA MissAuditKeeps ==
  ASSUME EvidenceInv, NEW p \in Peer, MissAudit(p)
  PROVE  EvidenceInv'
BY OnlyMoves DEF MissAudit, Playing

\* Where the inbox is emptied, no reveal is left that could be read; and a
\* dialect that is none goes no further.
LEMMA StartSubGameKeeps ==
  ASSUME EvidenceInv, NEW p \in Peer, StartSubGame(p)
  PROVE  EvidenceInv'
<1> DEFINE there == IF RuntimeRaises(p) \/ TermsRaise(game[p]) THEN "down" ELSE "offer"
<1>1. /\ stage[p] = "start" /\ Goto(p, there) /\ reveals' = [reveals EXCEPT ![p] = << >>]
      /\ UNCHANGED <<game, process, number, offers, session, disk>>
  BY DEF StartSubGame
<1>2. /\ there \in {"down", "offer"}
      /\ there = "offer" => CryptoDialect(p) \in Dialect
  BY DEF RuntimeRaises
<1> HIDE DEF there
<1>3. /\ DOMAIN stage' = Peer /\ stage'[p] = there
      /\ \A o \in Peer : o # p => stage'[o] = stage[o]
  BY <1>1, GoesThere DEF EvidenceInv
<1>4. OneHandshake' /\ AgreedAlike' /\ ChainIsMine' /\ LiveIsTheirs' /\ AuditStands'
  BY <1>1, <1>2, <1>3, SessionStands DEF Playing
<1>5. OffersAreTheirs' /\ DiskIsHonest'
  BY <1>1, InboxesStand
<1>6. RevealsAreTheirs'
  <2> SUFFICES ASSUME NEW o \in Peer, NEW i \in DOMAIN reveals'[o]
      PROVE  RevealOf(Opponent(o), reveals'[o][i])
    BY <1>1, GameStands DEF RevealsAreTheirs
  <2>1. o # p /\ reveals'[o] = reveals[o]
    BY <1>1, ShapeIs
  <2>2. i \in DOMAIN reveals[o]
    BY <2>1
  <2>3. RevealOf(Opponent(o), reveals[o][i])
    BY <2>2 DEF EvidenceInv, RevealsAreTheirs
  <2>4. QED
    BY <2>1, <2>3
<1>7. Shape'
  <2>1. reveals' \in [Peer -> Seq(Seq(Records))]
    BY <1>1, ShapeIs
  <2>2. QED
    BY <1>1, <1>3, <2>1, ShapeIs, GameStands DEF Shape, session
<1>8. QED
  BY <1>4, <1>5, <1>6, <1>7 DEF EvidenceInv

\* What is put in the other inbox is this process's agreement.
LEMMA OfferKeeps ==
  ASSUME EvidenceInv, NEW p \in Peer, Offer(p)
  PROVE  EvidenceInv'
<1> DEFINE q == Opponent(p)
           a == Agreement(p)
<1>1. /\ stage[p] = "offer"
      /\ Goto(p, "await") \/ UNCHANGED stage
      /\ offers' = [offers EXCEPT ![q] = Append(@, a)]
      /\ UNCHANGED <<game, process, number, session, reveals, disk>>
  BY DEF Offer
<1>2. a = OfferAt(p, process[p], number[p])
  BY DEF Agreement, OfferAt, Nonce, Identity, Key
<1>3. /\ process[p] \in Nat /\ process[p] \in 1 .. process[p] /\ number[p] \in Nat
      /\ q \in Peer /\ q # p /\ Opponent(q) = p
  BY ShapeIs, Peers
<1>4. a \in Offered
  BY <1>2, <1>3 DEF Offered
<1> HIDE DEF a, q
<1>5. CryptoDialect(p) \in Dialect
  BY <1>1 DEF EvidenceInv, OneHandshake
<1>6. /\ DOMAIN stage' = Peer /\ stage'[p] \in {"offer", "await"}
      /\ \A o \in Peer : o # p => stage'[o] = stage[o]
  BY <1>1, ShapeIs, GoesThere DEF EvidenceInv
<1>7. OneHandshake' /\ AgreedAlike' /\ ChainIsMine' /\ LiveIsTheirs' /\ AuditStands'
  BY <1>1, <1>5, <1>6, SessionStands DEF Playing
<1>8. RevealsAreTheirs' /\ DiskIsHonest'
  BY <1>1, InboxesStand
<1>9. /\ offers[q] \in Seq(Offered) /\ offers'[q] = Append(offers[q], a)
      /\ \A o \in Peer : o # q => offers'[o] = offers[o]
  BY <1>1, <1>3, ShapeIs
<1>10. /\ DOMAIN offers'[q] = 1 .. Len(offers[q]) + 1 /\ Len(offers[q]) \in Nat
       /\ DOMAIN offers[q] = 1 .. Len(offers[q])
       /\ offers'[q][Len(offers[q]) + 1] = a
       /\ \A i \in 1 .. Len(offers[q]) : offers'[q][i] = offers[q][i]
  BY <1>4, <1>9, AppendProperties, LenProperties
<1>11. OffersAreTheirs'
  <2> SUFFICES ASSUME NEW o \in Peer, NEW i \in DOMAIN offers'[o]
      PROVE  \E k \in 1 .. process[Opponent(o)], n \in Nat :
               offers'[o][i] = OfferAt(Opponent(o), k, n)
    BY <1>1, GameStands DEF OffersAreTheirs
  <2>1. ASSUME i \in DOMAIN offers[o], offers'[o][i] = offers[o][i]
        PROVE  \E k \in 1 .. process[Opponent(o)], n \in Nat :
                 offers'[o][i] = OfferAt(Opponent(o), k, n)
    BY <2>1 DEF EvidenceInv, OffersAreTheirs
  <2>2. CASE o # q
    BY <1>9, <2>1, <2>2
  <2>3. CASE o = q /\ i \in 1 .. Len(offers[q])
    BY <1>10, <2>1, <2>3
  <2>4. CASE o = q /\ i = Len(offers[q]) + 1
    BY <1>2, <1>3, <1>10, <2>4
  <2>5. QED
    BY <1>10, <2>2, <2>3, <2>4
<1>12. Shape'
  <2>1. offers' \in [Peer -> Seq(Offered)]
    BY <1>1, <1>3, <1>4, <1>9, AppendProperties, ShapeIs
  <2>2. QED
    BY <1>1, <1>6, <2>1, ShapeIs, GameStands DEF Shape, session
<1>13. QED
  BY <1>7, <1>8, <1>11, <1>12 DEF EvidenceInv

\* Taking the first agreement out of the inbox leaves the others.
LEMMA OfferTaken ==
  ASSUME EvidenceInv, NEW p \in Peer, offers[p] # << >>, game' = game, process' = process,
         offers' = [offers EXCEPT ![p] = Tail(@)]
  PROVE  OffersAreTheirs' /\ offers' \in [Peer -> Seq(Offered)]
<1>1. offers[p] \in Seq(Offered) /\ offers'[p] = Tail(offers[p])
      /\ \A o \in Peer : o # p => offers'[o] = offers[o]
  BY ShapeIs
<1>2. /\ Tail(offers[p]) \in Seq(Offered) /\ Len(offers[p]) \in Nat
      /\ DOMAIN offers[p] = 1 .. Len(offers[p])
      /\ DOMAIN Tail(offers[p]) = 1 .. Len(offers[p]) - 1
      /\ \A i \in 1 .. Len(offers[p]) - 1 : Tail(offers[p])[i] = offers[p][i + 1]
  BY <1>1, HeadTailProperties, LenProperties
<1>3. OffersAreTheirs'
  <2> SUFFICES ASSUME NEW o \in Peer, NEW i \in DOMAIN offers'[o]
      PROVE  \E k \in 1 .. process[Opponent(o)], n \in Nat :
               offers'[o][i] = OfferAt(Opponent(o), k, n)
    BY GameStands DEF OffersAreTheirs
  <2>1. \E j \in DOMAIN offers[o] : offers'[o][i] = offers[o][j]
    <3>1. CASE o # p
      BY <1>1, <3>1
    <3>2. CASE o = p
      <4>1. i \in DOMAIN Tail(offers[p])
        BY <1>1, <3>2
      <4>2. i \in 1 .. Len(offers[p]) - 1 /\ i + 1 \in DOMAIN offers[p]
        BY <1>2, <4>1
      <4>3. offers'[p][i] = offers[p][i + 1]
        BY <1>1, <1>2, <4>2
      <4>4. QED
        BY <3>2, <4>2, <4>3
    <3>3. QED
      BY <3>1, <3>2
  <2>2. QED
    BY <2>1 DEF EvidenceInv, OffersAreTheirs
<1>4. QED
  BY <1>1, <1>2, <1>3, ShapeIs

\* A refusal takes the agreement, and no handshake comes of it.
LEMMA RefuseKeeps ==
  ASSUME EvidenceInv, NEW p \in Peer, Refuse(p)
  PROVE  EvidenceInv'
<1>1. /\ stage[p] = "await" /\ offers[p] # << >> /\ Goto(p, "down")
      /\ offers' = [offers EXCEPT ![p] = Tail(@)]
      /\ UNCHANGED <<game, process, number, session, reveals, disk>>
  BY DEF Refuse
<1>2. /\ DOMAIN stage' = Peer /\ stage'[p] = "down"
      /\ \A o \in Peer : o # p => stage'[o] = stage[o]
  BY <1>1, GoesThere DEF EvidenceInv
<1>3. OneHandshake' /\ AgreedAlike' /\ ChainIsMine' /\ LiveIsTheirs' /\ AuditStands'
  BY <1>1, <1>2, SessionStands DEF Playing
<1>4. RevealsAreTheirs' /\ DiskIsHonest'
  BY <1>1, InboxesStand
<1>5. OffersAreTheirs' /\ offers' \in [Peer -> Seq(Offered)]
  BY <1>1, OfferTaken
<1>6. Shape'
  BY <1>1, <1>2, <1>5, ShapeIs, GameStands DEF Shape, session
<1>7. QED
  BY <1>3, <1>4, <1>5, <1>6 DEF EvidenceInv

\* The handshake is made of the other's agreement, which is to the letter one's
\* own; the chain starts with the declaration of this session.
LEMMA AgreeKeeps ==
  ASSUME EvidenceInv, NEW p \in Peer, Agree(p)
  PROVE  EvidenceInv'
<1> DEFINE q == Opponent(p)
           m == FirstOffer(p)
           h == HandshakeOf(p, m)
           r == RecordAt(p, process[p], number[p], 0)
<1>1. /\ stage[p] = "await" /\ offers[p] # << >> /\ ~Refused(p, m) /\ Goto(p, "play")
      /\ shaken' = [shaken EXCEPT ![p] = {h}]
      /\ chain' = [chain EXCEPT ![p] = <<Step0Record(CryptoDialect(p), Key(p), Nonce(p, 0))>>]
      /\ offers' = [offers EXCEPT ![p] = Tail(@)]
      /\ UNCHANGED <<game, process, number, live, audit, reveals, disk>>
  BY DEF Agree
<1>2. /\ q \in Peer /\ q # p /\ Opponent(q) = p
      /\ process[p] \in Nat /\ number[p] \in Nat /\ process[q] \in Nat
  BY Peers, ShapeIs
<1>3. Step0Record(CryptoDialect(p), Key(p), Nonce(p, 0)) = r
  BY DEF Step0Record, RecordAt, PayloadAt, Key, Nonce
<1>4. r \in Records
  BY <1>2 DEF Records
<1>5. PICK k \in 1 .. process[q], n \in Nat : m = OfferAt(q, k, n)
  <2>1. 1 \in DOMAIN offers[p] /\ m = offers[p][1]
    BY <1>1, ShapeIs, EmptySeq, LenProperties DEF FirstOffer
  <2>2. QED
    BY <2>1 DEF EvidenceInv, OffersAreTheirs
<1>6. /\ m.terms = BuildTerms(game[q]) /\ m.identity.group_id = GroupId[q]
      /\ m.identity.public_key = <<q, k>>
  BY <1>5 DEF OfferAt
<1>7. m.terms = BuildTerms(game[p])
  BY <1>1 DEF Refused, VerifyTerms
<1> HIDE DEF m, q
<1>8. /\ h.terms = BuildTerms(game[p]) /\ h.terms = BuildTerms(game[q])
      /\ h.ids = DeriveGameIds(BuildTerms(game[q]), GroupId[q], GroupId[p])
      /\ h.opponent_group = GroupId[q] /\ h.opponent_pubkey = <<q, k>>
  <2>1. /\ h.terms = m.terms /\ h.ids = DeriveGameIds(m.terms, GroupId[p], m.identity.group_id)
        /\ h.opponent_group = m.identity.group_id
        /\ h.opponent_pubkey = m.identity.public_key
    BY DEF HandshakeOf
  <2>2. h.ids = DeriveGameIds(BuildTerms(game[q]), GroupId[p], GroupId[q])
    BY <1>6, <2>1
  <2>3. {GroupId[p], GroupId[q]} = {GroupId[q], GroupId[p]}
    OBVIOUS
  <2>4. DeriveGameIds(BuildTerms(game[q]), GroupId[p], GroupId[q])
          = DeriveGameIds(BuildTerms(game[q]), GroupId[q], GroupId[p])
    BY <2>3 DEF DeriveGameIds
  <2>5. QED
    BY <1>6, <1>7, <2>1, <2>2, <2>4
<1> HIDE DEF h, r
<1>9. /\ DOMAIN stage' = Peer /\ stage'[p] = "play"
      /\ \A o \in Peer : o # p => stage'[o] = stage[o]
  BY <1>1, GoesThere DEF EvidenceInv
<1>10. /\ shaken'[p] = {h} /\ chain'[p] = <<r>>
       /\ \A o \in Peer : o # p => shaken'[o] = shaken[o] /\ chain'[o] = chain[o]
  BY <1>1, <1>3, ShapeIs
<1>11. OneHandshake'
  <2> SUFFICES ASSUME NEW o \in Peer
      PROVE  /\ stage'[o] \in {"offer", "await"} \cup Playing => CryptoDialect(o) \in Dialect
             /\ stage'[o] \in Playing => \E x \in shaken'[o] : shaken'[o] = {x}
             /\ stage'[o] \notin Playing => shaken'[o] = {}
    BY <1>1, GameStands DEF OneHandshake
  <2>1. /\ stage[o] \in {"offer", "await"} \cup Playing => CryptoDialect(o) \in Dialect
        /\ stage[o] \in Playing => \E x \in shaken[o] : shaken[o] = {x}
        /\ stage[o] \notin Playing => shaken[o] = {}
    BY DEF EvidenceInv, OneHandshake
  <2>2. CASE o = p
    BY <1>1, <1>9, <1>10, <2>1, <2>2 DEF Playing
  <2>3. CASE o # p
    BY <1>9, <1>10, <2>1, <2>3
  <2>4. QED
    BY <2>2, <2>3
<1>12. AgreedAlike'
  <2> SUFFICES ASSUME NEW o \in Peer, NEW x \in shaken'[o]
      PROVE  /\ x.terms = BuildTerms(game[o]) /\ x.terms = BuildTerms(game[Opponent(o)])
             /\ x.ids = DeriveGameIds(BuildTerms(game[Opponent(o)]), GroupId[Opponent(o)], GroupId[o])
             /\ x.opponent_group = GroupId[Opponent(o)]
             /\ \E i \in 1 .. process[Opponent(o)] : x.opponent_pubkey = <<Opponent(o), i>>
    BY <1>1 DEF AgreedAlike
  <2>1. CASE o = p
    BY <1>8, <1>10, <2>1 DEF q
  <2>2. CASE o # p
    BY <1>10, <2>2 DEF EvidenceInv, AgreedAlike
  <2>3. QED
    BY <2>1, <2>2
<1>13. ChainIsMine'
  <2> SUFFICES ASSUME NEW o \in Peer
      PROVE  /\ chain'[o] # << >> <=> stage'[o] \in Playing
             /\ OfSession(chain'[o], o, process[o], number[o])
    BY <1>1, GameStands DEF ChainIsMine
  <2>1. CASE o = p
    <3>1. <<r>> # << >> /\ DOMAIN <<r>> = {1} /\ <<r>>[1] = r /\ 1 - 1 = 0
      OBVIOUS
    <3>2. QED
      BY <1>9, <1>10, <2>1, <3>1 DEF Playing, OfSession, r
  <2>2. CASE o # p
    BY <1>9, <1>10, <2>2 DEF EvidenceInv, ChainIsMine
  <2>3. QED
    BY <2>1, <2>2
<1>14. LiveIsTheirs' /\ RevealsAreTheirs' /\ DiskIsHonest'
  BY <1>1, InboxesStand
<1>15. AuditStands'
  <2> SUFFICES ASSUME NEW o \in Peer, audit[o].received
      PROVE  /\ stage'[o] = "record"
             /\ RevealOf(Opponent(o), audit[o].reveal)
             /\ audit[o] = Judged(o, audit[o].reveal)'
    BY <1>1, GameStands DEF AuditStands
  <2>1. /\ stage[o] = "record"
        /\ RevealOf(Opponent(o), audit[o].reveal)
        /\ audit[o] = Judged(o, audit[o].reveal)
    BY DEF EvidenceInv, AuditStands
  <2>2. o # p
    BY <1>1, <2>1
  <2>3. Judged(o, audit[o].reveal)' = Judged(o, audit[o].reveal)
    BY <1>1, <1>10, <2>2, GameStands DEF Judged
  <2>4. QED
    BY <1>9, <2>1, <2>2, <2>3
<1>16. OffersAreTheirs' /\ offers' \in [Peer -> Seq(Offered)]
  BY <1>1, OfferTaken
<1>17. Shape'
  <2>1. chain' \in [Peer -> Seq(Records)]
    <3>1. <<r>> \in Seq(Records)
      BY <1>4
    <3>2. QED
      BY <1>1, <1>3, <3>1, ShapeIs
  <2>2. DOMAIN shaken' = Peer
    BY <1>1, ShapeIs
  <2>3. QED
    BY <1>1, <1>9, <1>16, <2>1, <2>2, ShapeIs, GameStands DEF Shape
<1>18. QED
  BY <1>11, <1>12, <1>13, <1>14, <1>15, <1>16, <1>17 DEF EvidenceInv

\* One more record of this session, and its commit with the other peer, at the
\* same step if it hears it.
LEMMA TurnKeeps ==
  ASSUME EvidenceInv, NEW p \in Peer, Turn(p)
  PROVE  EvidenceInv'
<1> DEFINE q == Opponent(p)
           c == chain[p]
           l == live[q]
           step == StepsOf(p) + 1
           r == RecordAt(p, process[p], number[p], step)
<1>1. /\ stage[p] = "play"
      /\ chain' = [chain EXCEPT ![p] = Append(@, SealStep(CryptoDialect(p),
                    StepPayload(step, StateString(BoardSize, <<step>>, {})), Nonce(p, step)))]
      /\ live' = IF Hears(q, p)
                 THEN [live EXCEPT ![q] = Append(@, SealStep(CryptoDialect(p),
                    StepPayload(step, StateString(BoardSize, <<step>>, {})), Nonce(p, step)).commit)]
                 ELSE live
      /\ UNCHANGED <<game, process, stage, number, offers, shaken, audit, reveals, disk>>
  BY DEF Turn, MyTurn
<1>2. /\ q \in Peer /\ q # p /\ Opponent(q) = p
      /\ process[p] \in Nat /\ number[p] \in Nat
      /\ c \in Seq(Records) /\ l \in Seq(Commits)
  BY Peers, ShapeIs
<1>3. c # << >> /\ OfSession(c, p, process[p], number[p])
  BY <1>1 DEF EvidenceInv, ChainIsMine, Playing
<1>4. /\ Len(c) \in Nat \ {0} /\ DOMAIN c = 1 .. Len(c)
      /\ Len(l) \in Nat /\ DOMAIN l = 1 .. Len(l)
  BY <1>2, <1>3, EmptySeq, LenProperties
<1>5. step = Len(c) /\ step \in Nat /\ step # 0
  BY <1>4 DEF StepsOf
<1>6. SealStep(CryptoDialect(p), StepPayload(step, StateString(BoardSize, <<step>>, {})),
               Nonce(p, step)) = r
  BY <1>5 DEF RecordAt, PayloadAt, Nonce
<1>7. r \in Records /\ r.commit \in Commits
  <2> HIDE DEF step
  <2>1. r \in Records
    BY <1>2, <1>5 DEF Records
  <2> HIDE DEF r
  <2>2. QED
    BY <2>1 DEF Commits
<1>8. /\ chain' = [chain EXCEPT ![p] = Append(c, r)]
      /\ live' = IF Hears(q, p) THEN [live EXCEPT ![q] = Append(l, r.commit)] ELSE live
  BY <1>1, <1>6
<1>9. Hears(q, p) => step = Len(l) + 1 /\ stage[q] = "play"
  BY <1>2 DEF Hears
<1> HIDE DEF q, c, l, step, r
<1>10. /\ chain'[p] = Append(c, r) /\ \A o \in Peer : o # p => chain'[o] = chain[o]
       /\ \A o \in Peer : o # q => live'[o] = live[o]
       /\ live'[q] = IF Hears(q, p) THEN Append(l, r.commit) ELSE l
  <2>1. chain'[p] = Append(c, r) /\ \A o \in Peer : o # p => chain'[o] = chain[o]
    BY <1>8, ShapeIs
  <2>2. CASE Hears(q, p)
    BY <1>2, <1>8, <2>1, <2>2, ShapeIs
  <2>3. CASE ~Hears(q, p)
    BY <1>8, <2>1, <2>3 DEF l
  <2>4. QED
    BY <2>2, <2>3
<1>11. /\ Append(c, r) \in Seq(Records) /\ Append(c, r) # << >>
       /\ DOMAIN Append(c, r) = 1 .. Len(c) + 1
       /\ Append(c, r)[Len(c) + 1] = r
       /\ \A i \in 1 .. Len(c) : Append(c, r)[i] = c[i]
  BY <1>2, <1>4, <1>7, AppendProperties, LenProperties
<1>12. OfSession(Append(c, r), p, process[p], number[p])
  <2> SUFFICES ASSUME NEW i \in DOMAIN Append(c, r)
      PROVE  Append(c, r)[i] = RecordAt(p, process[p], number[p], i - 1)
    BY DEF OfSession
  <2>1. CASE i \in 1 .. Len(c)
    BY <1>3, <1>4, <1>11, <2>1 DEF OfSession
  <2>2. CASE i = Len(c) + 1
    <3>1. i - 1 = step
      BY <1>4, <1>5, <2>2
    <3>2. QED
      BY <1>11, <2>2, <3>1 DEF r
  <2>3. QED
    BY <1>4, <1>11, <2>1, <2>2
<1>13. ChainIsMine'
  <2> SUFFICES ASSUME NEW o \in Peer
      PROVE  /\ chain'[o] # << >> <=> stage[o] \in Playing
             /\ OfSession(chain'[o], o, process[o], number[o])
    BY <1>1, GameStands DEF ChainIsMine
  <2>1. CASE o = p
    BY <1>1, <1>10, <1>11, <1>12, <2>1 DEF Playing
  <2>2. CASE o # p
    BY <1>10, <2>2 DEF EvidenceInv, ChainIsMine
  <2>3. QED
    BY <2>1, <2>2
<1>14. /\ Append(l, r.commit) \in Seq(Commits)
       /\ DOMAIN Append(l, r.commit) = 1 .. Len(l) + 1
       /\ Append(l, r.commit)[Len(l) + 1] = r.commit
       /\ \A i \in 1 .. Len(l) : Append(l, r.commit)[i] = l[i]
  BY <1>2, <1>4, <1>7, AppendProperties, LenProperties
<1>15. LiveIsTheirs'
  <2> SUFFICES ASSUME NEW o \in Peer, NEW i \in DOMAIN live'[o]
      PROVE  \E k \in Nat, n \in Nat : live'[o][i] = RecordAt(Opponent(o), k, n, i).commit
    BY <1>1, GameStands DEF LiveIsTheirs
  <2>1. ASSUME i \in DOMAIN live[o], live'[o][i] = live[o][i]
        PROVE  \E k \in Nat, n \in Nat : live'[o][i] = RecordAt(Opponent(o), k, n, i).commit
    BY <2>1 DEF EvidenceInv, LiveIsTheirs
  <2>2. CASE o # q \/ ~Hears(q, p)
    <3>1. live'[o] = live[o]
      BY <1>10, <2>2 DEF l
    <3>2. QED
      BY <2>1, <3>1
  <2>3. CASE o = q /\ Hears(q, p) /\ i \in 1 .. Len(l)
    BY <1>4, <1>10, <1>14, <2>1, <2>3 DEF l
  <2>4. CASE o = q /\ Hears(q, p) /\ i = Len(l) + 1
    <3>1. i = step /\ live'[o][i] = r.commit
      BY <1>9, <1>10, <1>14, <2>4
    <3>2. live'[o][i] = RecordAt(Opponent(o), process[p], number[p], i).commit
      BY <1>2, <2>4, <3>1 DEF r
    <3>3. QED
      BY <1>2, <3>2
  <2>5. ASSUME o = q, Hears(q, p)
        PROVE  i \in 1 .. Len(l) \/ i = Len(l) + 1
    <3>1. i \in 1 .. Len(l) + 1
      BY <1>10, <1>14, <2>5
    <3>2. QED
      BY <1>4, <3>1
  <2>6. QED
    BY <2>2, <2>3, <2>4, <2>5
<1>16. OneHandshake' /\ AgreedAlike'
  BY <1>1, GameStands DEF EvidenceInv, OneHandshake, AgreedAlike
<1>17. OffersAreTheirs' /\ RevealsAreTheirs' /\ DiskIsHonest'
  BY <1>1, InboxesStand
<1>18. AuditStands'
  <2> SUFFICES ASSUME NEW o \in Peer, audit[o].received
      PROVE  /\ stage[o] = "record"
             /\ RevealOf(Opponent(o), audit[o].reveal)
             /\ audit[o] = Judged(o, audit[o].reveal)'
    BY <1>1, GameStands DEF AuditStands
  <2>1. /\ stage[o] = "record"
        /\ RevealOf(Opponent(o), audit[o].reveal)
        /\ audit[o] = Judged(o, audit[o].reveal)
    BY DEF EvidenceInv, AuditStands
  <2>2. live'[o] = live[o]
    <3>1. CASE o # q
      BY <1>10, <3>1
    <3>2. CASE o = q
      <4>1. ~Hears(q, p)
        BY <1>9, <2>1, <3>2
      <4>2. QED
        BY <1>10, <3>2, <4>1 DEF l
    <3>3. QED
      BY <3>1, <3>2
  <2>3. Judged(o, audit[o].reveal)' = Judged(o, audit[o].reveal)
    BY <1>1, <2>2, GameStands DEF Judged
  <2>4. QED
    BY <2>1, <2>3
<1>19. Shape'
  <2>1. chain' \in [Peer -> Seq(Records)]
    BY <1>8, <1>11, ShapeIs
  <2>2. live' \in [Peer -> Seq(Commits)]
    <3>1. CASE Hears(q, p)
      BY <1>2, <1>8, <1>14, <3>1, ShapeIs
    <3>2. CASE ~Hears(q, p)
      BY <1>8, <3>2, ShapeIs
    <3>3. QED
      BY <3>1, <3>2
  <2>3. QED
    BY <1>1, <2>1, <2>2, ShapeIs, GameStands DEF Shape
<1>20. QED
  BY <1>13, <1>15, <1>16, <1>17, <1>18, <1>19 DEF EvidenceInv

\* A peer's own chain, while its session lasts, is one it could reveal.
LEMMA ChainIsAReveal ==
  ASSUME EvidenceInv, NEW p \in Peer, stage[p] \in Playing
  PROVE  RevealOf(p, chain[p])
<1>1. chain[p] # << >> /\ OfSession(chain[p], p, process[p], number[p])
  BY DEF EvidenceInv, ChainIsMine
<1>2. chain[p] \in Seq(Records) /\ process[p] \in Nat /\ number[p] \in Nat
  BY ShapeIs
<1>3. CryptoDialect(p) \in Dialect
  BY DEF EvidenceInv, OneHandshake
<1>4. QED
  BY <1>1, <1>2, <1>3 DEF RevealOf

\* What is put in the other inbox is all of this session's chain.
LEMMA SubmitAuditKeeps ==
  ASSUME EvidenceInv, NEW p \in Peer, SubmitAudit(p)
  PROVE  EvidenceInv'
<1> DEFINE q == Opponent(p)
           c == chain[p]
<1>1. /\ stage[p] = "submit" /\ Goto(p, "audit")
      /\ reveals' = reveals \/ reveals' = [reveals EXCEPT ![q] = Append(@, c)]
      /\ UNCHANGED <<game, process, number, offers, session, disk>>
  BY DEF SubmitAudit, AuditReveal
<1>2. q \in Peer /\ q # p /\ Opponent(q) = p
  BY Peers
<1>3. RevealOf(p, c) /\ c \in Seq(Records)
  BY <1>1, ChainIsAReveal, ShapeIs DEF Playing
<1> HIDE DEF q, c
<1>4. /\ DOMAIN stage' = Peer /\ stage'[p] = "audit"
      /\ \A o \in Peer : o # p => stage'[o] = stage[o]
  BY <1>1, GoesThere DEF EvidenceInv
<1>5. OneHandshake' /\ AgreedAlike' /\ ChainIsMine' /\ LiveIsTheirs' /\ AuditStands'
  BY <1>1, <1>4, SessionStands DEF Playing
<1>6. OffersAreTheirs' /\ DiskIsHonest'
  BY <1>1, InboxesStand
<1>7. RevealsAreTheirs' /\ reveals' \in [Peer -> Seq(Seq(Records))]
  <2>1. CASE reveals' = reveals
    BY <1>1, <2>1, InboxesStand, ShapeIs
  <2>2. CASE reveals' = [reveals EXCEPT ![q] = Append(@, c)]
    <3>1. /\ reveals[q] \in Seq(Seq(Records)) /\ reveals'[q] = Append(reveals[q], c)
          /\ \A o \in Peer : o # q => reveals'[o] = reveals[o]
      BY <1>2, <2>2, ShapeIs
    <3>2. /\ Len(reveals[q]) \in Nat /\ DOMAIN reveals[q] = 1 .. Len(reveals[q])
          /\ Append(reveals[q], c) \in Seq(Seq(Records))
          /\ DOMAIN reveals'[q] = 1 .. Len(reveals[q]) + 1
          /\ reveals'[q][Len(reveals[q]) + 1] = c
          /\ \A i \in 1 .. Len(reveals[q]) : reveals'[q][i] = reveals[q][i]
      BY <1>3, <3>1, AppendProperties, LenProperties
    <3>3. ASSUME NEW o \in Peer, NEW i \in DOMAIN reveals'[o]
          PROVE  RevealOf(Opponent(o), reveals'[o][i])
      <4>1. ASSUME i \in DOMAIN reveals[o], reveals'[o][i] = reveals[o][i]
            PROVE  RevealOf(Opponent(o), reveals'[o][i])
        BY <4>1 DEF EvidenceInv, RevealsAreTheirs
      <4>2. CASE o # q
        BY <3>1, <4>1, <4>2
      <4>3. CASE o = q /\ i \in 1 .. Len(reveals[q])
        BY <3>2, <4>1, <4>3
      <4>4. CASE o = q /\ i = Len(reveals[q]) + 1
        BY <1>2, <1>3, <3>2, <4>4
      <4>5. QED
        BY <3>2, <4>2, <4>3, <4>4
    <3>4. RevealsAreTheirs'
      BY <1>1, <3>3, GameStands DEF RevealsAreTheirs
    <3>5. QED
      BY <1>2, <2>2, <3>2, <3>4, ShapeIs
  <2>3. QED
    BY <1>1, <2>1, <2>2
<1>8. Shape'
  BY <1>1, <1>4, <1>7, ShapeIs, GameStands DEF Shape, session
<1>9. QED
  BY <1>5, <1>6, <1>7, <1>8 DEF EvidenceInv

\* The verdict is on an honest reveal, whichever session it is of.
LEMMA ReadAuditKeeps ==
  ASSUME EvidenceInv, NEW p \in Peer, ReadAudit(p)
  PROVE  EvidenceInv'
<1> DEFINE r == Head(reveals[p])
<1>1. /\ stage[p] = "audit" /\ reveals[p] # << >> /\ Goto(p, "record")
      /\ audit' = [audit EXCEPT ![p] = Judged(p, r)]
      /\ reveals' = [reveals EXCEPT ![p] = Tail(@)]
      /\ UNCHANGED <<game, process, number, offers, shaken, chain, live, disk>>
  BY DEF ReadAudit
<1>2. /\ reveals[p] \in Seq(Seq(Records)) /\ reveals'[p] = Tail(reveals[p])
      /\ \A o \in Peer : o # p => reveals'[o] = reveals[o]
      /\ audit'[p] = Judged(p, r) /\ \A o \in Peer : o # p => audit'[o] = audit[o]
  BY <1>1, ShapeIs
<1>3. /\ Len(reveals[p]) \in Nat /\ DOMAIN reveals[p] = 1 .. Len(reveals[p])
      /\ 1 \in DOMAIN reveals[p] /\ r = reveals[p][1]
      /\ Tail(reveals[p]) \in Seq(Seq(Records))
      /\ DOMAIN Tail(reveals[p]) = 1 .. Len(reveals[p]) - 1
      /\ \A i \in 1 .. Len(reveals[p]) - 1 : Tail(reveals[p])[i] = reveals[p][i + 1]
  BY <1>1, <1>2, EmptySeq, HeadTailProperties, LenProperties
<1>4. RevealOf(Opponent(p), r)
  BY <1>3 DEF EvidenceInv, RevealsAreTheirs
<1>5. Judged(p, r).reveal = r
  BY DEF Judged
<1> HIDE DEF r
<1>6. /\ DOMAIN stage' = Peer /\ stage'[p] = "record"
      /\ \A o \in Peer : o # p => stage'[o] = stage[o]
  BY <1>1, GoesThere DEF EvidenceInv
<1>7. OneHandshake'
  <2> SUFFICES ASSUME NEW o \in Peer
      PROVE  /\ stage'[o] \in {"offer", "await"} \cup Playing => CryptoDialect(o) \in Dialect
             /\ stage'[o] \in Playing => \E h \in shaken[o] : shaken[o] = {h}
             /\ stage'[o] \notin Playing => shaken[o] = {}
    BY <1>1, GameStands DEF OneHandshake
  <2>1. /\ stage[o] \in {"offer", "await"} \cup Playing => CryptoDialect(o) \in Dialect
        /\ stage[o] \in Playing => \E h \in shaken[o] : shaken[o] = {h}
        /\ stage[o] \notin Playing => shaken[o] = {}
    BY DEF EvidenceInv, OneHandshake
  <2>2. CASE o = p
    BY <1>1, <1>6, <2>1, <2>2 DEF Playing
  <2>3. CASE o # p
    BY <1>6, <2>1, <2>3
  <2>4. QED
    BY <2>2, <2>3
<1>8. AgreedAlike'
  BY <1>1 DEF EvidenceInv, AgreedAlike
<1>9. ChainIsMine'
  <2> SUFFICES ASSUME NEW o \in Peer
      PROVE  /\ chain[o] # << >> <=> stage'[o] \in Playing
             /\ OfSession(chain[o], o, process[o], number[o])
    BY <1>1, GameStands DEF ChainIsMine
  <2>1. /\ chain[o] # << >> <=> stage[o] \in Playing
        /\ OfSession(chain[o], o, process[o], number[o])
    BY DEF EvidenceInv, ChainIsMine
  <2>2. CASE o = p
    BY <1>1, <1>6, <2>1, <2>2 DEF Playing
  <2>3. CASE o # p
    BY <1>6, <2>1, <2>3
  <2>4. QED
    BY <2>2, <2>3
<1>10. OffersAreTheirs' /\ LiveIsTheirs' /\ DiskIsHonest'
  BY <1>1, InboxesStand
<1>11. RevealsAreTheirs'
  <2> SUFFICES ASSUME NEW o \in Peer, NEW i \in DOMAIN reveals'[o]
      PROVE  RevealOf(Opponent(o), reveals'[o][i])
    BY <1>1, GameStands DEF RevealsAreTheirs
  <2>1. \E j \in DOMAIN reveals[o] : reveals'[o][i] = reveals[o][j]
    <3>1. CASE o # p
      BY <1>2, <3>1
    <3>2. CASE o = p
      <4>1. i \in DOMAIN Tail(reveals[p])
        BY <1>2, <3>2
      <4>2. i \in 1 .. Len(reveals[p]) - 1 /\ i + 1 \in DOMAIN reveals[p]
        BY <1>3, <4>1
      <4>3. reveals'[p][i] = reveals[p][i + 1]
        BY <1>2, <1>3, <4>2
      <4>4. QED
        BY <3>2, <4>2, <4>3
    <3>3. QED
      BY <3>1, <3>2
  <2>2. QED
    BY <2>1 DEF EvidenceInv, RevealsAreTheirs
<1>12. AuditStands'
  <2> SUFFICES ASSUME NEW o \in Peer, audit'[o].received
      PROVE  /\ stage'[o] = "record"
             /\ RevealOf(Opponent(o), audit'[o].reveal)
             /\ audit'[o] = Judged(o, audit[o].reveal)'
    BY <1>1, GameStands DEF AuditStands
  <2>1. CASE o = p
    <3>1. audit'[p].reveal = r
      BY <1>2, <1>5
    <3>2. Judged(p, audit[p].reveal)' = Judged(p, r)
      BY <1>1, <3>1, GameStands DEF Judged
    <3>3. QED
      BY <1>2, <1>4, <1>6, <2>1, <3>1, <3>2
  <2>2. CASE o # p
    <3>1. audit'[o] = audit[o] /\ stage'[o] = stage[o]
      BY <1>2, <1>6, <2>2
    <3>2. /\ stage[o] = "record"
          /\ RevealOf(Opponent(o), audit[o].reveal)
          /\ audit[o] = Judged(o, audit[o].reveal)
      BY <3>1 DEF EvidenceInv, AuditStands
    <3>3. Judged(o, audit[o].reveal)' = Judged(o, audit[o].reveal)
      BY <1>1, <3>1, GameStands DEF Judged
    <3>4. QED
      BY <3>1, <3>2, <3>3
  <2>3. QED
    BY <2>1, <2>2
<1>13. Shape'
  <2>1. reveals' \in [Peer -> Seq(Seq(Records))] /\ DOMAIN audit' = Peer
    BY <1>1, <1>3, ShapeIs
  <2>2. QED
    BY <1>1, <1>6, <2>1, ShapeIs, GameStands DEF Shape
<1>14. QED
  BY <1>7, <1>8, <1>9, <1>10, <1>11, <1>12, <1>13 DEF EvidenceInv

\* The log is the whole chain of the session that ends with it.
LEMMA RecordKeeps ==
  ASSUME EvidenceInv, NEW p \in Peer, Record(p)
  PROVE  EvidenceInv'
<1> DEFINE agreed == CHOOSE h \in shaken[p] : TRUE
           name == LogName(p, agreed.ids, number[p])
           document == LogDocument(p, agreed.ids)
<1>1. /\ stage[p] = "record"
      /\ disk' = [n \in DOMAIN disk \cup {name} |-> IF n = name THEN document ELSE disk[n]]
      /\ number' = [number EXCEPT ![p] = @ + 1]
      /\ FreshSession(p)
      /\ \E there \in {"over", "start"} : Goto(p, there)
      /\ UNCHANGED <<game, process, offers, reveals>>
  BY DEF Record
<1>2. /\ name[1] = GroupId[p] /\ name[3] = number[p]
      /\ "records" \in DOMAIN document /\ document.records = chain[p]
  BY DEF LogName, LogDocument
<1> HIDE DEF agreed, name, document
<1>3. RevealOf(p, chain[p])
  BY <1>1, ChainIsAReveal DEF Playing
<1>4. /\ DOMAIN stage' = Peer /\ stage'[p] \in {"over", "start"}
      /\ \A o \in Peer : o # p => stage'[o] = stage[o]
  BY <1>1, GoesThere DEF EvidenceInv
<1>5. /\ number[p] \in Nat \ {0} /\ number'[p] = number[p] + 1
      /\ number' \in [Peer -> Nat \ {0}]
      /\ \A o \in Peer : o # p => number'[o] = number[o]
  BY <1>1, ShapeIs
<1>6. OneHandshake' /\ AgreedAlike' /\ ChainIsMine' /\ LiveIsTheirs' /\ AuditStands'
  <2>1. process' \in [Peer -> Nat \ {0}] /\ \A o \in Peer : process'[o] = process[o]
    BY <1>1, ShapeIs
  <2>2. \A o \in Peer : process'[o] >= process[o]
    BY <2>1
  <2>3. stage'[p] \notin {"offer", "await"} \cup Playing
    BY <1>4 DEF Playing
  <2>4. QED
    BY <1>1, <1>4, <1>5, <2>1, <2>2, <2>3, SessionEnds
<1>7. OffersAreTheirs' /\ RevealsAreTheirs'
  BY <1>1, InboxesStand
<1>8. DiskIsHonest'
  <2>1. /\ DOMAIN disk' = DOMAIN disk \cup {name} /\ disk'[name] = document
        /\ \A n \in DOMAIN disk : n # name => disk'[n] = disk[n]
    BY <1>1
  <2>2. ASSUME NEW n \in DOMAIN disk'
        PROVE  \E o \in Peer : /\ n[1] = GroupId[o]
                               /\ "records" \in DOMAIN disk'[n]
                               /\ RevealOf(o, disk'[n].records)
    <3>1. CASE n = name
      BY <1>2, <1>3, <2>1, <3>1
    <3>2. CASE n # name
      BY <2>1, <3>2 DEF EvidenceInv, DiskIsHonest
    <3>3. QED
      BY <3>1, <3>2
  <2>3. ASSUME NEW o \in Peer, NEW i \in 1 .. number'[o] - 1
        PROVE  \E n \in DOMAIN disk' : n[1] = GroupId[o] /\ n[3] = i
    <3>1. CASE o = p /\ i = number[p]
      BY <1>2, <2>1, <3>1
    <3>2. CASE i \in 1 .. number[o] - 1
      <4>1. \E n \in DOMAIN disk : n[1] = GroupId[o] /\ n[3] = i
        BY <3>2 DEF EvidenceInv, DiskIsHonest
      <4>2. QED
        BY <2>1, <4>1
    <3>3. i \in 1 .. number[o] - 1 \/ (o = p /\ i = number[p])
      BY <1>5
    <3>4. QED
      BY <3>1, <3>2, <3>3
  <2>4. \A n \in DOMAIN disk' : \E o \in Peer : /\ n[1] = GroupId[o]
                                                /\ "records" \in DOMAIN disk'[n]
                                                /\ RevealOf(o, disk[n].records)'
    BY <1>1, <2>2, GameStands
  <2>5. QED
    BY <2>3, <2>4 DEF DiskIsHonest
<1>9. Shape'
  <2>1. chain' \in [Peer -> Seq(Records)] /\ live' \in [Peer -> Seq(Commits)]
    BY <1>1, ShapeIs DEF FreshSession
  <2>2. DOMAIN shaken' = Peer /\ DOMAIN audit' = Peer
    BY <1>1, ShapeIs DEF FreshSession
  <2>3. QED
    BY <1>1, <1>4, <1>5, <2>1, <2>2, ShapeIs, GameStands DEF Shape
<1>10. QED
  BY <1>6, <1>7, <1>8, <1>9 DEF EvidenceInv

\* A restart takes nothing back: what the old process offered and revealed is
\* that of a process before this one, and its logs stay.
LEMMA RestartKeeps ==
  ASSUME EvidenceInv, NEW p \in Peer, Restart(p)
  PROVE  EvidenceInv'
<1>1. /\ process' = [process EXCEPT ![p] = @ + 1]
      /\ number' = [number EXCEPT ![p] = 1]
      /\ offers' = [offers EXCEPT ![p] = << >>]
      /\ reveals' = [reveals EXCEPT ![p] = << >>]
      /\ FreshSession(p) /\ Goto(p, Launched(p)) /\ game' = game /\ disk' = disk
  BY DEF Restart
<1>2. Launched(p) \in {"start", "down"}
  BY DEF Launched
<1>3. /\ DOMAIN stage' = Peer /\ stage'[p] = Launched(p)
      /\ \A o \in Peer : o # p => stage'[o] = stage[o]
  BY <1>1, GoesThere DEF EvidenceInv
<1>4. /\ process[p] \in Nat \ {0} /\ process'[p] = process[p] + 1 /\ number'[p] = 1
      /\ offers'[p] = << >> /\ reveals'[p] = << >>
      /\ \A o \in Peer : o # p => /\ process'[o] = process[o] /\ number'[o] = number[o]
                                  /\ offers'[o] = offers[o] /\ reveals'[o] = reveals[o]
  BY <1>1, ShapeIs
<1>5. process' \in [Peer -> Nat \ {0}] /\ number' \in [Peer -> Nat \ {0}]
  BY <1>1, <1>4, ShapeIs
<1>6. \A o \in Peer : process[o] \in Nat /\ process'[o] \in Nat /\ process'[o] >= process[o]
  <2> TAKE o \in Peer
  <2>1. CASE o = p
    BY <1>4, <2>1
  <2>2. CASE o # p
    BY <1>4, <2>2, ShapeIs
  <2>3. QED
    BY <2>1, <2>2
<1>7. OneHandshake' /\ AgreedAlike' /\ ChainIsMine' /\ LiveIsTheirs' /\ AuditStands'
  <2>1. stage'[p] \notin {"offer", "await"} \cup Playing
    BY <1>2, <1>3 DEF Playing
  <2>2. QED
    BY <1>1, <1>3, <1>4, <1>5, <1>6, <2>1, SessionEnds
<1>8. OffersAreTheirs'
  <2> SUFFICES ASSUME NEW o \in Peer, NEW i \in DOMAIN offers'[o]
      PROVE  \E k \in 1 .. process'[Opponent(o)], n \in Nat :
               offers'[o][i] = OfferAt(Opponent(o), k, n)
    BY <1>1, GameStands DEF OffersAreTheirs
  <2>1. offers'[o] = offers[o]
    BY <1>4
  <2>2. \E k \in 1 .. process[Opponent(o)], n \in Nat : offers[o][i] = OfferAt(Opponent(o), k, n)
    BY <2>1 DEF EvidenceInv, OffersAreTheirs
  <2>3. 1 .. process[Opponent(o)] \subseteq 1 .. process'[Opponent(o)]
    BY <1>6, Peers
  <2>4. QED
    BY <2>1, <2>2, <2>3
<1>9. RevealsAreTheirs'
  <2> SUFFICES ASSUME NEW o \in Peer, NEW i \in DOMAIN reveals'[o]
      PROVE  RevealOf(Opponent(o), reveals'[o][i])
    BY <1>1, GameStands DEF RevealsAreTheirs
  <2>1. reveals'[o] = reveals[o]
    BY <1>4
  <2>2. i \in DOMAIN reveals[o]
    BY <2>1
  <2>3. RevealOf(Opponent(o), reveals[o][i])
    BY <2>2 DEF EvidenceInv, RevealsAreTheirs
  <2>4. QED
    BY <2>1, <2>3
<1>10. DiskIsHonest'
  <2>1. ASSUME NEW o \in Peer, NEW i \in 1 .. number'[o] - 1
        PROVE  \E n \in DOMAIN disk : n[1] = GroupId[o] /\ n[3] = i
    <3>1. o # p
      BY <1>4
    <3>2. i \in 1 .. number[o] - 1
      BY <1>4, <3>1
    <3>3. QED
      BY <3>2 DEF EvidenceInv, DiskIsHonest
  <2>2. QED
    BY <1>1, <2>1, GameStands DEF EvidenceInv, DiskIsHonest
<1>11. Shape'
  <2>1. chain' \in [Peer -> Seq(Records)] /\ live' \in [Peer -> Seq(Commits)]
    BY <1>1, ShapeIs DEF FreshSession
  <2>2. DOMAIN shaken' = Peer /\ DOMAIN audit' = Peer
    BY <1>1, ShapeIs DEF FreshSession
  <2>3. offers' \in [Peer -> Seq(Offered)] /\ reveals' \in [Peer -> Seq(Seq(Records))]
    BY <1>1, ShapeIs
  <2>4. QED
    BY <1>1, <1>3, <1>5, <2>1, <2>2, <2>3, GameStands DEF Shape
<1>12. QED
  BY <1>7, <1>8, <1>9, <1>10, <1>11 DEF EvidenceInv

-----------------------------------------------------------------------------
(* The theorems.                                                            *)

\* It holds when the processes start.
LEMMA EvidenceInit ==
  Init => EvidenceInv
<1> SUFFICES ASSUME Init PROVE EvidenceInv
  OBVIOUS
<1>1. /\ process = [p \in Peer |-> 1] /\ number = [p \in Peer |-> 1]
      /\ stage = [p \in Peer |-> Launched(p)]
      /\ offers = [p \in Peer |-> << >>] /\ shaken = [p \in Peer |-> {}]
      /\ chain = [p \in Peer |-> << >>] /\ live = [p \in Peer |-> << >>]
      /\ reveals = [p \in Peer |-> << >>] /\ audit = [p \in Peer |-> NoAudit]
      /\ disk = << >>
  BY DEF Init
<1>2. \A p \in Peer : stage[p] \in {"start", "down"}
  BY <1>1 DEF Launched
<1>3. Shape
  <2>1. /\ process \in [Peer -> Nat \ {0}] /\ number \in [Peer -> Nat \ {0}]
        /\ DOMAIN stage = Peer /\ DOMAIN shaken = Peer /\ DOMAIN audit = Peer
    BY <1>1
  <2>2. offers \in [Peer -> Seq(Offered)] /\ reveals \in [Peer -> Seq(Seq(Records))]
    BY <1>1
  <2>3. chain \in [Peer -> Seq(Records)] /\ live \in [Peer -> Seq(Commits)]
    BY <1>1
  <2>4. QED
    BY <2>1, <2>2, <2>3 DEF Shape
<1>4. OffersAreTheirs /\ RevealsAreTheirs /\ LiveIsTheirs
  BY <1>1 DEF OffersAreTheirs, RevealsAreTheirs, LiveIsTheirs
<1>5. OneHandshake /\ AgreedAlike
  BY <1>1, <1>2 DEF OneHandshake, AgreedAlike, Playing
<1>6. ChainIsMine
  BY <1>1, <1>2 DEF ChainIsMine, OfSession, Playing
<1>7. AuditStands
  BY <1>1 DEF AuditStands, NoAudit
<1>8. DiskIsHonest
  <2>1. DOMAIN disk = {}
    BY <1>1
  <2>2. \A p \in Peer : 1 .. number[p] - 1 = {}
    BY <1>1
  <2>3. QED
    BY <2>1, <2>2 DEF DiskIsHonest
<1>9. QED
  BY <1>3, <1>4, <1>5, <1>6, <1>7, <1>8 DEF EvidenceInv

\* And every step of either peer keeps it.
LEMMA EvidenceNext ==
  EvidenceInv /\ [Next]_vars => EvidenceInv'
<1> SUFFICES ASSUME EvidenceInv, [Next]_vars PROVE EvidenceInv'
  OBVIOUS
<1>1. CASE UNCHANGED vars
  <2>1. /\ UNCHANGED <<game, process, stage, number, offers, reveals, disk>>
        /\ UNCHANGED <<shaken, chain, live, audit>>
    BY <1>1 DEF vars, session
  <2>2. OneHandshake' /\ AgreedAlike' /\ ChainIsMine'
    BY <2>1, GameStands DEF EvidenceInv, OneHandshake, AgreedAlike, ChainIsMine
  <2>3. OffersAreTheirs' /\ RevealsAreTheirs' /\ LiveIsTheirs' /\ DiskIsHonest'
    BY <2>1, InboxesStand
  <2>4. AuditStands'
    <3> SUFFICES ASSUME NEW o \in Peer, audit[o].received
        PROVE  /\ stage[o] = "record"
               /\ RevealOf(Opponent(o), audit[o].reveal)
               /\ audit[o] = Judged(o, audit[o].reveal)'
      BY <2>1, GameStands DEF AuditStands
    <3>1. /\ stage[o] = "record"
          /\ RevealOf(Opponent(o), audit[o].reveal)
          /\ audit[o] = Judged(o, audit[o].reveal)
      BY DEF EvidenceInv, AuditStands
    <3>2. Judged(o, audit[o].reveal)' = Judged(o, audit[o].reveal)
      BY <2>1, GameStands DEF Judged
    <3>3. QED
      BY <3>1, <3>2
  <2>5. Shape'
    BY <2>1, ShapeIs, GameStands DEF Shape
  <2>6. QED
    BY <2>2, <2>3, <2>4, <2>5 DEF EvidenceInv
<1>2. ASSUME NEW p \in Peer,
             \/ Restart(p) \/ StartSubGame(p)
             \/ Offer(p) \/ HandshakeFails(p) \/ Refuse(p) \/ Agree(p)
             \/ Turn(p) \/ LeaveLoop(p)
             \/ SubmitAudit(p) \/ ReadAudit(p) \/ MissAudit(p) \/ Record(p)
      PROVE  EvidenceInv'
  BY <1>2, RestartKeeps, StartSubGameKeeps, OfferKeeps, HandshakeFailsKeeps, RefuseKeeps,
     AgreeKeeps, TurnKeeps, LeaveLoopKeeps, SubmitAuditKeeps, ReadAuditKeeps, MissAuditKeeps,
     RecordKeeps
<1>3. QED
  BY <1>1, <1>2 DEF Next

LEMMA EvidenceInvariant ==
  Spec => []EvidenceInv
<1>1. QED
  BY EvidenceInit, EvidenceNext, PTL DEF Spec

\* Whatever the two copies of game.json hold, and whichever process is
\* restarted: a peer plays on nothing but the terms of its own copy, which are
\* those of the other copy, and both derive the same ids from them.
THEOREM NeverPlayApart ==
  Spec => []AgreedAlike
<1>1. EvidenceInv => AgreedAlike
  BY DEF EvidenceInv
<1>2. QED
  BY <1>1, EvidenceInvariant, PTL

\* exchange_audits convicts of forgery for exactly three reasons, of which none
\* is a forgery: two crypto dialects, a key of a process since restarted, or the
\* reveal of another sub-game.  Nothing lost, late or given up on is one.
THEOREM ConvictionHasCause ==
  Spec => []ConvictedForCause
<1>1. EvidenceInv => ConvictedForCause
  BY VerdictHasCause DEF ConvictedForCause
<1>2. QED
  BY <1>1, EvidenceInvariant, PTL

\* What is on disk passes the replay audit in the dialect it was sealed in, for
\* each sub-game the process has behind it, if the two groups have not the same
\* id: the log file is named by it.
THEOREM LogsPassReplay ==
  ASSUME GroupId["left"] # GroupId["right"]
  PROVE  Spec => []LogsReplay
<1>1. ASSUME EvidenceInv PROVE LogsReplay
  <2>1. ASSUME NEW name \in DOMAIN disk
        PROVE  /\ ReplayExit(disk[name]) = 0
               /\ \A p \in Peer : name[1] = GroupId[p] =>
                    VerifyLog(disk[name]).dialect = CryptoDialect(p)
               /\ ViewerRaises(disk[name].records) <=> Len(disk[name].records) = 1
               /\ \A i \in DOMAIN Frames(disk[name].records) :
                    ParseState(Frames(disk[name].records)[i].payload)
                      = <<Frames(disk[name].records)[i].payload.position, {}>>
    <3> DEFINE c == disk[name].records
    <3>1. PICK p \in Peer : /\ name[1] = GroupId[p] /\ "records" \in DOMAIN disk[name]
                            /\ RevealOf(p, c)
      BY <1>1 DEF EvidenceInv, DiskIsHonest
    <3>2. ASSUME NEW o \in Peer, name[1] = GroupId[o] PROVE o = p
      <4>1. GroupId[o] = GroupId[p]
        BY <3>1, <3>2
      <4>2. \A a, b \in Peer : a # b => GroupId[a] # GroupId[b]
        BY DEF Peer
      <4>3. QED
        BY <4>1, <4>2
    <3>3. VerifyLog(disk[name]) = [passed |-> LogPasses(c), dialect |-> LogDialect(c)]
      BY <3>1 DEF VerifyLog
    <3> HIDE DEF c
    <3>4. /\ LogPasses(c) /\ LogDialect(c) = CryptoDialect(p)
          /\ ViewerRaises(c) <=> Len(c) = 1
          /\ \A i \in DOMAIN Frames(c) :
               ParseState(Frames(c)[i].payload) = <<Frames(c)[i].payload.position, {}>>
      BY <3>1, LogOfAChain
    <3>5. ReplayExit(disk[name]) = 0 /\ VerifyLog(disk[name]).dialect = CryptoDialect(p)
      BY <3>3, <3>4 DEF ReplayExit
    <3>6. QED
      BY <3>2, <3>4, <3>5 DEF c
  <2>2. \A p \in Peer : \A i \in 1 .. number[p] - 1 :
          \E name \in DOMAIN disk : name[1] = GroupId[p] /\ name[3] = i
    BY <1>1 DEF EvidenceInv, DiskIsHonest
  <2>3. QED
    BY <2>1, <2>2 DEF LogsReplay
<1>2. QED
  BY <1>1, EvidenceInvariant, PTL
=============================================================================
