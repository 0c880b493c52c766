------------------------------ MODULE Evidence ------------------------------
(***************************************************************************)
(* What binds two peers to what they did: the agreement they sign           *)
(* (peer/handshake.py, peer/agreement.py), the chain each seals under its   *)
(* own copy of the crypto block (peer/sealing.py), the reveal and its       *)
(* verdict (peer/audit.py), and the log file (sdk/series_log.py).           *)
(*                                                                          *)
(* The two processes need not have the same game.json, and may be           *)
(* restarted at any moment: run_peer then makes a new key pair, has empty   *)
(* inboxes and begins its series again, while the other process goes on.    *)
(* SubGame has the turns and Series the results; here a turn is sealed and  *)
(* delivered in one step, and a peer may leave its turn loop at any time,   *)
(* since the audit runs on every ending.  The own cell a turn seals is      *)
(* named by the step, and nonces name the session and the step; no guard    *)
(* reads either.                                                            *)
(***************************************************************************)
EXTENDS Terms, Seals

CONSTANTS
  Copies,       \* the pairs of game.json copies looked at
  GroupId,      \* game.group_id of each peer
  NumGames,     \* network_and_league.num_games, in both copies
  BoardSize,    \* board_and_agents.grid_size
  MaxTurns,     \* bound: turns each peer plays in a sub-game
  MaxRestarts,  \* bound: restarts in a behaviour
  MaxOffers     \* bound: agreements waiting in one inbox

Peer == {"left", "right"}

Opponent(p) == IF p = "left" THEN "right" ELSE "left"

ASSUME EvidenceAssumption ==
  /\ NumGames \in Nat \ {0} /\ MaxTurns \in Nat \ {0} /\ BoardSize \in Nat \ {0}
  /\ MaxRestarts \in Nat /\ MaxOffers \in Nat \ {0}
  /\ DOMAIN GroupId = Peer

VARIABLES
  game,      \* each process's copy of game.json
  process,   \* how often each has been started: its key pair is named by that
  stage,     \* where its run_series / run is
  number,    \* its sub-game
  offers,    \* PeerInboxes.negotiation
  shaken,    \* the Handshake, while there is one
  chain,     \* SealedLog: the records sealed
  live,      \* TurnHandler.commits: the opponent's, by step
  reveals,   \* PeerInboxes.audits
  audit,     \* the audit dict
  disk       \* the log files, by name

session == <<shaken, chain, live, audit>>
vars == <<game, process, stage, number, offers, session, reveals, disk>>

-----------------------------------------------------------------------------
Key(p) == <<p, process[p]>>

RoleIn(p, n) == IF (p = "left") = (n % 2 = 1) THEN "police" ELSE "thief"

Role(p) == RoleIn(p, number[p])

CryptoDialect(p) == game[p]["crypto_dialect"]

Nonce(p, step) == <<p, process[p], number[p], step>>

NoAudit == [received |-> FALSE, passed |-> FALSE, forgery |-> FALSE, reveal |-> << >>]

Goto(p, there) == stage' = [stage EXCEPT ![p] = there]

\* Where run_peer gets to with its copy: to its series, or no further.
Launched(p) == IF Validated(game[p]) THEN "start" ELSE "down"

\* A runtime cannot be built for a dialect that is none.
RuntimeRaises(p) == CryptoDialect(p) \notin Dialect \/ game[p]["scent_dialect"] \notin Dialect

Init ==
  /\ game \in Copies
  /\ process = [p \in Peer |-> 1]
  /\ stage = [p \in Peer |-> Launched(p)]
  /\ number = [p \in Peer |-> 1]
  /\ offers = [p \in Peer |-> << >>]
  /\ shaken = [p \in Peer |-> {}]
  /\ chain = [p \in Peer |-> << >>]
  /\ live = [p \in Peer |-> << >>]
  /\ reveals = [p \in Peer |-> << >>]
  /\ audit = [p \in Peer |-> NoAudit]
  /\ disk = << >>

-----------------------------------------------------------------------------
\* A process that can be called: its server is gone once it has ended.
Up(p) == stage[p] \notin {"down", "over"}

\* What a PeerRuntime starts with; it goes when its sub-game is recorded.
FreshSession(p) ==
  /\ shaken' = [shaken EXCEPT ![p] = {}]
  /\ chain' = [chain EXCEPT ![p] = << >>]
  /\ live' = [live EXCEPT ![p] = << >>]
  /\ audit' = [audit EXCEPT ![p] = NoAudit]

\* run_peer: a new process, with nothing of the old one but its files.
Restart(p) ==
  /\ stage[p] # "over"
  /\ process["left"] + process["right"] < 2 + MaxRestarts
  /\ process' = [process EXCEPT ![p] = @ + 1]
  /\ number' = [number EXCEPT ![p] = 1]
  /\ offers' = [offers EXCEPT ![p] = << >>]
  /\ reveals' = [reveals EXCEPT ![p] = << >>]
  /\ FreshSession(p)
  /\ Goto(p, Launched(p))
  /\ UNCHANGED <<game, disk>>

\* The top of run_series' loop, with the server up.  A copy that names an
\* unknown dialect, lacks a term to be signed, or has a delta that raises
\* nothing, ends the process here.
StartSubGame(p) ==
  /\ stage[p] = "start"
  /\ reveals' = [reveals EXCEPT ![p] = << >>]
  /\ Goto(p, IF RuntimeRaises(p) \/ TermsRaise(game[p]) THEN "down" ELSE "offer")
  /\ UNCHANGED <<game, process, number, offers, session, disk>>

-----------------------------------------------------------------------------
\* The signature is of the reference form, whatever the crypto dialect.
AgreementSignature(terms, nonce) == ReferenceCommit(terms, nonce)

\* The identity block goes unsigned.
Identity(p) == [group_id |-> GroupId[p], public_key |-> Key(p)]

Agreement(p) ==
  LET terms == BuildTerms(game[p]) IN
  [terms |-> terms, nonce |-> Nonce(p, 0),
   signature |-> AgreementSignature(terms, Nonce(p, 0)), identity |-> Identity(p)]

\* One attempt of _send_with_retry: acknowledged, or delivered and repeated.
Offer(p) ==
  LET q == Opponent(p) IN
  /\ stage[p] = "offer" /\ Up(q) /\ Len(offers[q]) < MaxOffers
  /\ offers' = [offers EXCEPT ![q] = Append(@, Agreement(p))]
  /\ Goto(p, "await") \/ UNCHANGED stage
  /\ UNCHANGED <<game, process, number, session, reveals, disk>>

HandshakeFails(p) ==
  /\ stage[p] \in {"offer", "await"}
  /\ Goto(p, "down")
  /\ UNCHANGED <<game, process, number, offers, session, reveals, disk>>

VerifyAgreementSignature(m) == m.signature = AgreementSignature(m.terms, m.nonce)

\* The refusal matrix of run_handshake, in its order.
Refused(p, m) ==
  \/ ~VerifyTerms(BuildTerms(game[p]), m.terms)
  \/ ~VerifyAgreementSignature(m)
  \/ m.identity.group_id = ""

Refuse(p) ==
  /\ stage[p] = "await" /\ offers[p] # << >> /\ Refused(p, Head(offers[p]))
  /\ offers' = [offers EXCEPT ![p] = Tail(@)]
  /\ Goto(p, "down")
  /\ UNCHANGED <<game, process, number, session, reveals, disk>>

HandshakeOf(p, m) ==
  [terms |-> m.terms, ids |-> DeriveGameIds(m.terms, GroupId[p], m.identity.group_id),
   opponent_group |-> m.identity.group_id, opponent_pubkey |-> m.identity.public_key]

FirstOffer(p) == Head(offers[p])

\* The first message in the inbox wins; then run seals the declaration.
Agree(p) ==
  /\ stage[p] = "await" /\ offers[p] # << >> /\ ~Refused(p, FirstOffer(p))
  /\ shaken' = [shaken EXCEPT ![p] = {HandshakeOf(p, FirstOffer(p))}]
  /\ chain' = [chain EXCEPT ![p] = <<Step0Record(CryptoDialect(p), Key(p), Nonce(p, 0))>>]
  /\ offers' = [offers EXCEPT ![p] = Tail(@)]
  /\ Goto(p, "play")
  /\ UNCHANGED <<game, process, number, live, audit, reveals, disk>>

-----------------------------------------------------------------------------
(* The turns.                                                               *)

StepsOf(p) == Len(chain[p]) - 1

MyTurn(p) ==
  /\ stage[p] = "play"
  /\ Len(live[p]) = StepsOf(p) + (IF Role(p) = "police" THEN 1 ELSE 0)

\* The opponent's gate accepts the turn: the other role, the step after the
\* last one seen.
Hears(q, p) ==
  stage[q] = "play" /\ Role(q) # Role(p) /\ Len(live[q]) = StepsOf(p)

\* A turn sealed and sent; the receiver keeps its commit.
Turn(p) ==
  LET q == Opponent(p)
      step == StepsOf(p) + 1
      state == StateString(BoardSize, <<step>>, {})
      record == SealStep(CryptoDialect(p), StepPayload(step, state), Nonce(p, step))
  IN
  /\ MyTurn(p) /\ StepsOf(p) < MaxTurns
  /\ chain' = [chain EXCEPT ![p] = Append(@, record)]
  /\ live' = IF Hears(q, p) THEN [live EXCEPT ![q] = Append(@, record.commit)] ELSE live
  /\ UNCHANGED <<game, process, stage, number, offers, shaken, audit, reveals, disk>>

\* Any ending: a verdict, a breach, a deadline or an exception in the loop.
LeaveLoop(p) ==
  /\ stage[p] = "play"
  /\ Goto(p, "submit")
  /\ UNCHANGED <<game, process, number, offers, session, reveals, disk>>

-----------------------------------------------------------------------------
(* exchange_audits.                                                         *)

\* All of the chain, nonces included: the one time they leave the process.
AuditReveal(p) == chain[p]

SubmitAudit(p) ==
  LET q == Opponent(p) IN
  /\ stage[p] = "submit"
  /\ \/ UNCHANGED reveals
     \/ Up(q) /\ reveals' = [reveals EXCEPT ![q] = Append(@, AuditReveal(p))]
  /\ Goto(p, "audit")
  /\ UNCHANGED <<game, process, number, offers, session, disk>>

\* Their reveal, under my dialect, my live commits and the key I was given at
\* the handshake.
Judged(p, reveal) ==
  LET agreed == CHOOSE h \in shaken[p] : TRUE
      failed == FailedSteps(reveal, CryptoDialect(p), live[p], agreed.opponent_pubkey)
  IN  [received |-> TRUE, passed |-> failed = {}, forgery |-> failed # {}, reveal |-> reveal]

ReadAudit(p) ==
  /\ stage[p] = "audit" /\ reveals[p] # << >>
  /\ audit' = [audit EXCEPT ![p] = Judged(p, Head(reveals[p]))]
  /\ reveals' = [reveals EXCEPT ![p] = Tail(@)]
  /\ Goto(p, "record")
  /\ UNCHANGED <<game, process, number, offers, shaken, chain, live, disk>>

\* A missing reveal is no forgery, and no pass either.
MissAudit(p) ==
  /\ stage[p] = "audit" /\ reveals[p] = << >>
  /\ Goto(p, "record")
  /\ UNCHANGED <<game, process, number, offers, session, reveals, disk>>

-----------------------------------------------------------------------------
LogName(p, ids, n) == <<GroupId[p], ids.game_id, n>>

LogDocument(p, ids) == [game_uid |-> ids.game_uid, records |-> chain[p]]

\* The bottom of the loop: the log file is written over any older one.
Record(p) ==
  LET agreed == CHOOSE h \in shaken[p] : TRUE
      name == LogName(p, agreed.ids, number[p])
  IN
  /\ stage[p] = "record"
  /\ disk' = [n \in DOMAIN disk \cup {name} |->
                IF n = name THEN LogDocument(p, agreed.ids) ELSE disk[n]]
  /\ number' = [number EXCEPT ![p] = @ + 1]
  /\ FreshSession(p)
  /\ Goto(p, IF number[p] = NumGames THEN "over" ELSE "start")
  /\ UNCHANGED <<game, process, offers, reveals>>

Stopped == \A p \in Peer : ~Up(p)

Next ==
  \/ \E p \in Peer :
       \/ Restart(p) \/ StartSubGame(p)
       \/ Offer(p) \/ HandshakeFails(p) \/ Refuse(p) \/ Agree(p)
       \/ Turn(p) \/ LeaveLoop(p)
       \/ SubmitAudit(p) \/ ReadAudit(p) \/ MissAudit(p) \/ Record(p)
  \/ Stopped /\ UNCHANGED vars

Spec == Init /\ [][Next]_vars

-----------------------------------------------------------------------------
(* What must hold.                                                          *)

\* A peer plays on nothing but the terms of its own copy, which are then the
\* terms of the other copy too: both know the game by the same ids, and name
\* each other.  Refusal is the only answer to anything else, whichever of the
\* two copies has the odd entry.
AgreedAlike ==
  \A p \in Peer : \A h \in shaken[p] :
    LET q == Opponent(p) IN
    /\ h.terms = BuildTerms(game[p]) /\ h.terms = BuildTerms(game[q])
    /\ h.ids = DeriveGameIds(BuildTerms(game[q]), GroupId[q], GroupId[p])
    /\ h.opponent_group = GroupId[q]
    /\ \E n \in 1 .. process[q] : h.opponent_pubkey = <<q, n>>

\* The nonce a commit was made with, which names its session.
SealedWith(commit) == IF Len(commit) = 2 THEN commit[2] ELSE commit[1].nonce

\* The reveal p read is not that of the session it played.
OfAnotherSession(p) ==
  \E i \in DOMAIN audit[p].reveal \cap DOMAIN live[p] :
    /\ i + 1 \in DOMAIN audit[p].reveal
    /\ audit[p].reveal[i + 1].nonce # SealedWith(live[p][i])

\* Both peers seal what they send, so a conviction is never deserved.  It
\* happens exactly when the two copies name different crypto dialects, which
\* no signed term need show; when the key given at the handshake is that of a
\* process since restarted; or when the reveal belongs to another sub-game.
\* Otherwise every honest reveal passes, whatever was lost or given up on.
ConvictedForCause ==
  \A p \in Peer : audit[p].received =>
    LET q == Opponent(p) IN
    audit[p].forgery <=>
      \/ CryptoDialect(p) # CryptoDialect(q)
      \/ \E h \in shaken[p] : h.opponent_pubkey # audit[p].reveal[1].payload.public_key
      \/ OfAnotherSession(p)

\* Every log on disk passes the replay audit and shows the dialect its peer
\* sealed it in, even one whose sub-game ended in a conviction by the other
\* peer; the sub-games a running process has behind it all have theirs; and the
\* viewer shows each sealed step, unless its peer never got to seal one.
LogsReplay ==
  /\ \A name \in DOMAIN disk :
       LET records == disk[name].records
           frames == Frames(records)
       IN
       /\ ReplayExit(disk[name]) = 0
       /\ \A p \in Peer : name[1] = GroupId[p] =>
            VerifyLog(disk[name]).dialect = CryptoDialect(p)
       /\ ViewerRaises(records) <=> Len(records) = 1
       /\ \A i \in DOMAIN frames :
            ParseState(frames[i].payload) = <<frames[i].payload.position, {}>>
  /\ \A p \in Peer : \A i \in 1 .. number[p] - 1 :
       \E name \in DOMAIN disk : name[1] = GroupId[p] /\ name[3] = i
=============================================================================
