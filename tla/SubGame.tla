------------------------------ MODULE SubGame -------------------------------
(***************************************************************************)
(* One sub-game between the two symmetric peer processes: PeerRuntime's     *)
(* turn loop (peer/runtime.py) with the inbound gate TurnHandler, the       *)
(* outbound pipeline TurnSender, the turns inbox, the retrying transport    *)
(* between them and the closing audit.  Every variable is a function of     *)
(* the role: the code's object of that peer's own process.                  *)
(*                                                                          *)
(* Abstracted data: hints, scent grids and the belief map are left out (a   *)
(* brain may decide anything); a commit is named by who sealed it and for   *)
(* which step; a claim answer is "none", "clear" or "caught".               *)
(***************************************************************************)
EXTENDS Rules

CONSTANTS
  ThiefStart, CopStart,  \* board_and_agents.thief_start / cop_start
  MaxMoves,              \* movement_and_barriers.max_moves (the cop's ceiling)
  SurvivalThreshold,     \* survival_threshold, as each role's own copy has it
  MaxBreaches,           \* fsm.max_illegal_events of each peer's private config
  Faults,                \* may calls fail, deadlines expire early, code raise?
  MaxCopies              \* bound: late or repeated deliveries of a peer's turns

Role == {"police", "thief"}

Opponent(p) == IF p = "police" THEN "thief" ELSE "police"

ASSUME SubGameAssumption ==
  /\ ThiefStart \in Cell /\ CopStart \in Cell
  /\ MaxMoves \in Nat
  /\ SurvivalThreshold \in [Role -> Nat]
  /\ MaxBreaches \in Nat \ {0}
  /\ Faults \in BOOLEAN
  /\ MaxCopies \in Nat

VARIABLES
  fsm,         \* GameStateMachine.state
  result,      \* result of the turn loop, then of the sub-game
  response,    \* claim_response owed on my next message (_turn_loop's local)
  pos,         \* OwnGameState.position
  barriers,    \* OwnGameState.barriers, both sides' declared barriers
  myBarriers,  \* OwnGameState.my_barriers, the quota counter
  counter,     \* StepCounter.count = OwnGameState.step_number
  sealed,      \* SealedLog: the commits of my steps, in order
  lastStep,    \* TurnHandler.last_step, the dedup key
  oppBarriers, \* TurnHandler.opponent_barriers
  breaches,    \* TurnHandler.breaches
  commits,     \* TurnHandler.commits: the opponent's live commits, by step
  post,        \* the TurnMessage receive_turn is called with
  arrived,     \* has a copy of post reached the opponent's inbox?
  copies,      \* how many repeated deliveries of my messages so far
  inbox,       \* PeerInboxes.turns
  audits,      \* PeerInboxes.audits
  audit,       \* what exchange_audits reported
  raised       \* has an exception left run(), and with it the process?

own   == <<pos, barriers, myBarriers, counter, sealed>>
gate  == <<lastStep, oppBarriers, breaches, commits>>
wire  == <<post, arrived, copies>>
ends  == <<audits, audit, raised>>
vars  == <<fsm, result, response, own, gate, wire, inbox, ends>>

-----------------------------------------------------------------------------
(* Messages and decisions.                                                  *)

Result == {"capture", "survival", "technical_loss"}

Answer == {"none", "clear", "caught"}

\* The commit of the record p seals for its step-th turn.
Commit(p, step) == <<p, step>>

CommitOf == Role \X Nat

TurnMessage ==
  [step : Nat, sender : Role, barrier : Cell \cup {NoCell},
   claim : Cell \cup {NoCell}, response : Answer, win : BOOLEAN,
   commit : CommitOf]

\* post before the first turn.
NoPost == [step |-> 0, sender |-> "police", barrier |-> NoCell, claim |-> NoCell,
           response |-> "none", win |-> FALSE, commit |-> <<"police", 0>>]

\* What a revealed payload has under "step": a number, or null, a text, a
\* list or object.  (A payload without one counts as a number no turn has.)
Null == -1
Text == -2
Nested == -3
Label == Nat \cup {Null, Text, Nested}

\* A revealed record: its step, its commit, whether the commit recomputes from
\* payload and nonce ("raises": a text in them has no UTF-8 form), and how the
\* step-0 test would end on its payload ("valid" too if the handshake gave no
\* key, "raises" if that key is no ASCII text).
RevealedRecord == [step : Label, commit : CommitOf, recomputes : {"yes", "no", "raises"},
                   signature : {"valid", "invalid", "raises"}]

AuditPayload == [claim : Result \cup {"none"}, records : Seq(RevealedRecord)]

\* What a brain may decide: any move type in any direction (HOLD ignores it).
Decision == [type : {"MOVE", "HOLD", "BARRIER"}, dir : Direction]

Hold == [type |-> "HOLD", dir |-> "STAY"]

-----------------------------------------------------------------------------
\* Everything of a new runtime but its lifecycle.
Fresh ==
  /\ result = [p \in Role |-> "none"]
  /\ response = [p \in Role |-> "none"]
  /\ pos = [p \in Role |-> IF p = "police" THEN CopStart ELSE ThiefStart]
  /\ barriers = [p \in Role |-> {}]
  /\ myBarriers = [p \in Role |-> 0]
  /\ counter = [p \in Role |-> 0]
  /\ sealed = [p \in Role |-> << >>]
  /\ lastStep = [p \in Role |-> 0]
  /\ oppBarriers = [p \in Role |-> 0]
  /\ breaches = [p \in Role |-> 0]
  /\ commits = [p \in Role |-> << >>]
  /\ post = [p \in Role |-> NoPost]
  /\ arrived = [p \in Role |-> FALSE]
  /\ copies = [p \in Role |-> 0]
  /\ inbox = [p \in Role |-> << >>]
  /\ audits = [p \in Role |-> << >>]
  /\ audit = [p \in Role |-> "pending"]
  /\ raised = [p \in Role |-> FALSE]

Init == fsm = [p \in Role |-> "BOOT"] /\ Fresh

-----------------------------------------------------------------------------
(* PeerRuntime.run, up to the turn loop.  The handshake itself is left to   *)
(* its own model; here it takes each peer its own time, and may fail.       *)

Negotiate(p) ==
  /\ fsm[p] = "BOOT"
  /\ fsm' = [fsm EXCEPT ![p] = "NEGOTIATING"]
  /\ UNCHANGED <<result, response, own, gate, wire, inbox, ends>>

FirstTurn(p) == IF p = "thief" THEN "MY_TURN" ELSE "OPP_TURN"

Agree(p) ==
  /\ fsm[p] = "NEGOTIATING" /\ ~raised[p]
  /\ fsm' = [fsm EXCEPT ![p] = FirstTurn(p)]
  /\ UNCHANGED <<result, response, own, gate, wire, inbox, ends>>

\* run_handshake is outside run()'s try: an error of it leaves run() as it is.
HandshakeFails(p) ==
  /\ Faults
  /\ fsm[p] = "NEGOTIATING" /\ ~raised[p]
  /\ raised' = [raised EXCEPT ![p] = TRUE]
  /\ UNCHANGED <<fsm, result, response, own, gate, wire, inbox, audits, audit>>

LeaveToAudit(p, verdict) ==
  /\ fsm' = [fsm EXCEPT ![p] = "AUDITING"]
  /\ result' = [result EXCEPT ![p] = verdict]

\* Leaving _turn_loop with a verdict; run() then enters GAME_OVER.
Leave(p, verdict) ==
  /\ fsm' = [fsm EXCEPT ![p] = "GAME_OVER"]
  /\ result' = [result EXCEPT ![p] = verdict]

-----------------------------------------------------------------------------
(* TurnSender.take_turn                                                     *)

\* The cell a BARRIER decision names.
BarrierTarget(p, d) == Shift(pos[p], d.dir)

DecisionLegal(p, d) ==
  /\ d.type = "MOVE" => StepLegal(pos[p], d.dir, barriers[p])
  /\ d.type = "BARRIER" => /\ p = "police"
                           /\ BarrierLegal(pos[p], BarrierTarget(p, d),
                                           barriers[p], myBarriers[p])

AsMove(dir) == IF dir = "STAY" THEN Hold ELSE [type |-> "MOVE", dir |-> dir]

\* The degraded decision: the first legal move, or HOLD when jailed.
Fallback(p) ==
  IF LegalMoves(pos[p], barriers[p]) = {} THEN {Hold}
  ELSE {AsMove(dir) : dir \in FirstLegal(pos[p], barriers[p])}

\* _guard: what is played for a decision (a set of one element).
Guarded(p, decision) ==
  LET d == IF decision.type = "MOVE" THEN AsMove(decision.dir) ELSE decision
  IN  IF DecisionLegal(p, d) THEN {d} ELSE Fallback(p)

SurvivesEarly(p, step) == p = "thief" /\ step + 1 >= SurvivalThreshold[p]

\* rules.survived on the count this turn reaches.
Survives(p, step) == p = "thief" /\ step >= SurvivalThreshold[p]

SealedAs(p, step) == Append(sealed[p], Commit(p, step - 1))

\* SealedLog.seal_step: the record is in the log before its commit travels.
Sealed(p, step) == Append(sealed[p], Commit(p, step))

OwedNothing(p) == "none"

\* The claim_response the loop passes on to take_turn.
Owed(p) == response[p]

\* The step's effect on what is my own, the quota's counter included.
Apply(p, next, wall) ==
  /\ pos' = [pos EXCEPT ![p] = next]
  /\ barriers' = [barriers EXCEPT ![p] = @ \cup ({wall} \ {NoCell})]
  /\ myBarriers' = [myBarriers EXCEPT ![p] = IF wall = NoCell THEN @ ELSE @ + 1]

\* apply, count, seal, compose and hand the message to the transport.
Play(p, act, concede) ==
  LET step == counter[p] + 1
      next == IF act.type = "MOVE" THEN Shift(pos[p], act.dir) ELSE pos[p]
      wall == IF act.type = "BARRIER" THEN BarrierTarget(p, act) ELSE NoCell
  IN  /\ Apply(p, next, wall)
      /\ counter' = [counter EXCEPT ![p] = step]
      /\ sealed' = [sealed EXCEPT ![p] = Sealed(p, step)]
      /\ post' = [post EXCEPT ![p] =
           [step     |-> step,
            sender   |-> p,
            barrier  |-> wall,
            claim    |-> IF p = "police" /\ act.type = "MOVE" THEN next ELSE NoCell,
            response |-> Owed(p),
            win      |-> ~concede /\ Survives(p, step),
            commit   |-> Commit(p, step)]]
      /\ arrived' = [arrived EXCEPT ![p] = FALSE]
      /\ fsm' = [fsm EXCEPT ![p] = "SENDING"]
      /\ UNCHANGED <<result, response, gate, copies, inbox, ends>>

TakeTurn(p) ==
  /\ fsm[p] = "MY_TURN"
  /\ response[p] # "caught"
  /\ \E decision \in Decision : \E act \in Guarded(p, decision) : Play(p, act, FALSE)

\* Rule 21: a caught thief answers truthfully with a sealed HOLD; no brain.
Concede(p) ==
  /\ fsm[p] = "MY_TURN"
  /\ response[p] = "caught"
  /\ Play(p, Hold, TRUE)

-----------------------------------------------------------------------------
(* OpponentTransport._send toward the opponent's server, whose receive_turn *)
(* tool enqueues and acks.  The call is retried until it is acked or its    *)
(* deadline passes; a request whose ack was lost, or that was given up on,  *)
(* may still arrive, and late copies of any earlier turn may too.           *)

Arrive(p) ==
  /\ counter[p] > 0 /\ ~arrived[p]
  /\ arrived' = [arrived EXCEPT ![p] = TRUE]
  /\ inbox' = [inbox EXCEPT ![Opponent(p)] = Append(@, post[p])]
  /\ UNCHANGED <<fsm, result, response, own, gate, post, copies, ends>>

\* A repeated copy of step s.  Of an earlier step only the number matters
\* to the gate, so the last message stands in for its payload.
ArriveAgain(p) ==
  /\ copies[p] < MaxCopies
  /\ \E s \in 1 .. counter[p] :
       /\ s = counter[p] => arrived[p]
       /\ inbox' = [inbox EXCEPT ![Opponent(p)] = Append(@, [post[p] EXCEPT !.step = s])]
  /\ copies' = [copies EXCEPT ![p] = @ + 1]
  /\ UNCHANGED <<fsm, result, response, own, gate, post, arrived, ends>>

SpentEarly(p, step) == p = "police" /\ step + 1 >= MaxMoves

\* The cop's move ceiling.
Spent(p, step) == p = "police" /\ step >= MaxMoves

\* The ack: a terminal message or a spent move ceiling ends the loop.
\* (response is dropped here: the loop sets it to None after take_turn.)
Sent(p) ==
  /\ fsm[p] = "SENDING" /\ arrived[p]
  /\ response' = [response EXCEPT ![p] = "none"]
  /\ \/ /\ post[p].response = "caught"
        /\ Leave(p, "capture")
     \/ /\ post[p].response # "caught"
        /\ post[p].win \/ Spent(p, post[p].step)
        /\ Leave(p, "survival")
     \/ /\ post[p].response # "caught" /\ ~post[p].win /\ ~Spent(p, post[p].step)
        /\ fsm' = [fsm EXCEPT ![p] = "OPP_TURN"]
        /\ UNCHANGED result
  /\ UNCHANGED <<own, gate, wire, inbox, ends>>

\* TransportError out of take_turn: settled by run() as a technical loss.
TransportFails(p) ==
  /\ Faults
  /\ fsm[p] = "SENDING"
  /\ Leave(p, "technical_loss")
  /\ UNCHANGED <<response, own, gate, wire, inbox, ends>>

-----------------------------------------------------------------------------
(* The OPP_TURN half of _turn_loop: take one message off the turns inbox,   *)
(* and TurnHandler.process it.                                              *)

DuplicateBefore(p, m) == m.step < lastStep[p]

\* process's dedup: a seen step is dropped before any other check.
Duplicate(p, m) == m.step <= lastStep[p]

BarrierOkAgain(p, m) ==
  m.barrier # NoCell => /\ oppBarriers[p] < MaxBarriers
                        /\ m.barrier \in Cell

\* _validate's barrier checks, against p's own replica of the map.
BarrierOk(p, m) ==
  m.barrier # NoCell => /\ oppBarriers[p] < MaxBarriers
                        /\ m.barrier \in Cell
                        /\ m.barrier \notin barriers[p]

\* claim_response and win_claim are the thief's, the other two the cop's.
RoleFields(m) ==
  IF m.sender = "police" THEN m.response = "none" /\ ~m.win
                         ELSE m.barrier = NoCell /\ m.claim = NoCell

ValidEarlyWin(p, m) ==
  /\ m.sender = Opponent(p)
  /\ m.step = lastStep[p] + 1
  /\ RoleFields(m)
  /\ BarrierOk(p, m)
  /\ m.claim # NoCell => m.claim \in Cell

\* _validate (the FSM check is the loop's own guard: p is in OPP_TURN).
Valid(p, m) ==
  /\ m.sender = Opponent(p)
  /\ m.step = lastStep[p] + 1
  /\ RoleFields(m)
  /\ BarrierOk(p, m)
  /\ m.claim # NoCell => m.claim \in Cell
  /\ m.win => m.step >= SurvivalThreshold[p]

WallsOrNone(p, m) == barriers[p] \cup {m.barrier}

\* note_opponent_barrier, when the message declares a barrier.
Walls(p, m) == barriers[p] \cup ({m.barrier} \ {NoCell})

CaughtOnOldMap(p, m) ==
  /\ p = "thief"
  /\ \/ m.claim = pos[p]
     \/ /\ m.barrier # NoCell
        /\ m.barrier = pos[p] \/ Jailed(pos[p], barriers[p])

\* Rules 46-47, judged by the thief on its own state after the barrier is
\* folded in: landed on, walled on, or jailed by this barrier.
Caught(p, m) ==
  /\ p = "thief"
  /\ \/ m.claim = pos[p]
     \/ /\ m.barrier # NoCell
        /\ m.barrier = pos[p] \/ Jailed(pos[p], Walls(p, m))

Conceding(p, m) ==
  IF Caught(p, m) \/ m.claim # NoCell THEN "caught" ELSE "none"

\* The truthful answer p owes for m.
AnswerTo(p, m) ==
  IF Caught(p, m) THEN "caught" ELSE IF m.claim # NoCell THEN "clear" ELSE "none"

Reading(p) == fsm[p] = "OPP_TURN" /\ inbox[p] # << >>

Peek(p) == UNCHANGED inbox

\* Inbox.get
Take(p) == inbox' = [inbox EXCEPT ![p] = Tail(@)]

DropDuplicate(p) ==
  /\ Reading(p)
  /\ Duplicate(p, Head(inbox[p]))
  /\ Take(p)
  /\ UNCHANGED <<fsm, result, response, own, gate, wire, ends>>

\* _breach: reject and count; MaxBreaches in a row end the sub-game.
RejectTurn(p) ==
  /\ Reading(p)
  /\ ~Duplicate(p, Head(inbox[p])) /\ ~Valid(p, Head(inbox[p]))
  /\ Take(p)
  /\ breaches' = [breaches EXCEPT ![p] = @ + 1]
  /\ \/ breaches'[p] >= MaxBreaches /\ Leave(p, "technical_loss")
     \/ breaches'[p] < MaxBreaches /\ UNCHANGED <<fsm, result>>
  /\ UNCHANGED <<response, own, lastStep, oppBarriers, commits, wire, ends>>

FoldForgettingStep(p, m) ==
  /\ UNCHANGED lastStep
  /\ breaches' = [breaches EXCEPT ![p] = 0]
  /\ commits' = [commits EXCEPT ![p] = Append(@, m.commit)]
  /\ barriers' = [barriers EXCEPT ![p] = Walls(p, m)]
  /\ oppBarriers' = [oppBarriers EXCEPT ![p] = IF m.barrier = NoCell THEN @ ELSE @ + 1]
  /\ response' = [response EXCEPT ![p] = AnswerTo(p, m)]

FoldKeepingStrikes(p, m) ==
  /\ lastStep' = [lastStep EXCEPT ![p] = m.step]
  /\ UNCHANGED breaches
  /\ commits' = [commits EXCEPT ![p] = Append(@, m.commit)]
  /\ barriers' = [barriers EXCEPT ![p] = Walls(p, m)]
  /\ oppBarriers' = [oppBarriers EXCEPT ![p] = IF m.barrier = NoCell THEN @ ELSE @ + 1]
  /\ response' = [response EXCEPT ![p] = AnswerTo(p, m)]

\* The mutations of process, once every check has passed.
Fold(p, m) ==
  /\ lastStep' = [lastStep EXCEPT ![p] = m.step]
  /\ breaches' = [breaches EXCEPT ![p] = 0]
  /\ commits' = [commits EXCEPT ![p] = Append(@, m.commit)]
  /\ barriers' = [barriers EXCEPT ![p] = Walls(p, m)]
  /\ oppBarriers' = [oppBarriers EXCEPT ![p] = IF m.barrier = NoCell THEN @ ELSE @ + 1]
  /\ response' = [response EXCEPT ![p] = AnswerTo(p, m)]

\* Their ceiling ends my loop too, unless their last turn captured me.
CeilingReached(p, m) == ~Caught(p, m) /\ Spent(Opponent(p), m.step)

AcceptTurn(p) ==
  LET m == Head(inbox[p]) IN
  /\ Reading(p)
  /\ ~Duplicate(p, m) /\ Valid(p, m)
  /\ Take(p)
  /\ Fold(p, m)
  /\ \/ m.response = "caught" /\ Leave(p, "capture")
     \/ /\ m.response # "caught"
        /\ m.win \/ CeilingReached(p, m)
        /\ Leave(p, "survival")
     \/ /\ m.response # "caught" /\ ~m.win /\ ~CeilingReached(p, m)
        /\ fsm' = [fsm EXCEPT ![p] = "MY_TURN"]
        /\ UNCHANGED result
  /\ UNCHANGED <<pos, myBarriers, counter, sealed, wire, ends>>

\* Nothing more can come from a peer that left its loop with its last
\* message delivered.
Orphaned(p) ==
  LET q == Opponent(p) IN
  /\ fsm[q] \in {"GAME_OVER", "AUDITING", "DONE"}
  /\ counter[q] > 0 => arrived[q]

NoDeadline(p) == Orphaned(p)

\* The "opponent-turn" deadline has run out.
DeadlinePassed(p) == Faults \/ Orphaned(p)

\* DeadlineError: the "opponent-turn" deadline runs out on an empty inbox.
Expire(p) ==
  /\ fsm[p] = "OPP_TURN" /\ inbox[p] = << >>
  /\ DeadlinePassed(p)
  /\ Leave(p, "technical_loss")
  /\ UNCHANGED <<response, own, gate, wire, inbox, ends>>

\* Any other exception inside the loop (a brain's, the belief layer's).
Crash(p) ==
  /\ Faults
  /\ fsm[p] \in {"MY_TURN", "OPP_TURN"}
  /\ Leave(p, "technical_loss")
  /\ UNCHANGED <<response, own, gate, wire, inbox, ends>>

-----------------------------------------------------------------------------
(* exchange_audits, which every ending goes through.                        *)

\* SealedLog.audit_reveal: the step-0 declaration, signed with the key of the
\* handshake, and the record of each step.
AuditReveal(p) ==
  [i \in 1 .. Len(sealed[p]) + 1 |->
     [step       |-> i - 1,
      commit     |-> IF i = 1 THEN Commit(p, 0) ELSE sealed[p][i - 1],
      recomputes |-> "yes",
      signature  |-> IF i = 1 THEN "valid" ELSE "invalid"]]

\* submit_audit, best effort: its errors are suppressed.
SubmitAudit(p) ==
  /\ fsm[p] = "GAME_OVER"
  /\ fsm' = [fsm EXCEPT ![p] = "AUDITING"]
  /\ \/ audits' = [audits EXCEPT ![Opponent(p)] =
                     Append(@, [claim |-> result[p], records |-> AuditReveal(p)])]
     \/ Faults /\ UNCHANGED audits
  /\ UNCHANGED <<result, response, own, gate, wire, inbox, audit, raised>>

Revealed(payload) == {payload.records[i] : i \in DOMAIN payload.records}

MismatchByPlace(p, payload) ==
  {payload.records[i + 1] : i \in {j \in DOMAIN commits[p] \cap 0 .. Len(payload.records) - 1 :
                                     commits[p][j] # payload.records[j + 1].commit}}

\* _reveal_mismatches: the records whose commit differs from the live one of
\* the step they name themselves.
Mismatch(p, payload) ==
  {r \in Revealed(payload) : r.step \in DOMAIN commits[p] /\ r.commit # commits[p][r.step]}

\* The records whose steps make up failed_steps, the step-0 test aside.
Failed(p, payload) ==
  {r \in Revealed(payload) : r.recomputes = "no"} \cup Mismatch(p, payload)

\* Can sorted() order the two steps?
Comparable(a, b) == a.step = b.step \/ {a.step, b.step} \subseteq Nat

\* The step-0 test, of records[0] whatever its step: only if nothing failed.
DeclarationIs(p, payload, outcome) ==
  /\ Failed(p, payload) = {}
  /\ payload.records # << >>
  /\ payload.records[1].signature = outcome

\* A TypeError from a step that cannot be looked up or from failed steps that
\* cannot be ordered, or a UnicodeEncodeError from a record or the key.
AuditRaises(p, payload) ==
  \/ \E r \in Revealed(payload) : r.step = Nested \/ r.recomputes = "raises"
  \/ \E a, b \in Failed(p, payload) : ~Comparable(a, b)
  \/ DeclarationIs(p, payload, "raises")

Convicts(p, payload) ==
  Failed(p, payload) # {} \/ DeclarationIs(p, payload, "invalid")

\* exchange_audits is outside run()'s try as well: what it raises leaves run().
ReadAudit(p) ==
  LET theirs == Head(audits[p]) IN
  /\ fsm[p] = "AUDITING" /\ ~raised[p] /\ audits[p] # << >>
  /\ audits' = [audits EXCEPT ![p] = Tail(@)]
  /\ \/ /\ AuditRaises(p, theirs)
        /\ raised' = [raised EXCEPT ![p] = TRUE]
        /\ UNCHANGED <<fsm, result, audit>>
     \/ /\ ~AuditRaises(p, theirs) /\ Convicts(p, theirs)
        /\ fsm' = [fsm EXCEPT ![p] = "DONE"]
        /\ audit' = [audit EXCEPT ![p] = "forgery"]
        /\ result' = [result EXCEPT ![p] = "technical_loss"]
        /\ UNCHANGED raised
     \/ /\ ~AuditRaises(p, theirs) /\ ~Convicts(p, theirs)
        /\ fsm' = [fsm EXCEPT ![p] = "DONE"]
        /\ audit' = [audit EXCEPT ![p] = "passed"]
        /\ UNCHANGED <<result, raised>>
  /\ UNCHANGED <<response, own, gate, wire, inbox>>

\* The audit window closes on an empty inbox, or on a body that
\* AuditPayload.from_wire refuses: absence is not forgery.
MissAudit(p) ==
  /\ Faults
  /\ fsm[p] = "AUDITING" /\ ~raised[p] /\ audits[p] = << >>
  /\ fsm' = [fsm EXCEPT ![p] = "DONE"]
  /\ audit' = [audit EXCEPT ![p] = "absent"]
  /\ UNCHANGED <<result, response, own, gate, wire, inbox, audits, raised>>

-----------------------------------------------------------------------------
\* What peer p's own thread does while nothing is wrong inside it.
Works(p) ==
  \/ Negotiate(p) \/ Agree(p)
  \/ TakeTurn(p) \/ Concede(p) \/ Sent(p) \/ TransportFails(p)
  \/ DropDuplicate(p) \/ RejectTurn(p) \/ AcceptTurn(p)
  \/ Expire(p)
  \/ SubmitAudit(p) \/ ReadAudit(p) \/ MissAudit(p)

Thread(p) == Works(p) \/ Crash(p) \/ HandshakeFails(p)

Network(p) == Arrive(p) \/ ArriveAgain(p)

Finished == \A p \in Role : fsm[p] = "DONE"

\* Neither process has a thread in run() any more.
Stopped == \A p \in Role : fsm[p] = "DONE" \/ raised[p]

Next ==
  \/ \E p \in Role : Thread(p) \/ Network(p)
  \/ Stopped /\ UNCHANGED vars

Spec == Init /\ [][Next]_vars

\* Each peer's thread runs, though it need never crash, and a call that keeps
\* being retried gets through (or, with Faults, is given up on, which is a
\* step of the thread).
FairSpec ==
  /\ Spec
  /\ \A p \in Role : WF_vars(Works(p)) /\ WF_vars(Arrive(p))

-----------------------------------------------------------------------------
(* What must hold.                                                          *)

\* The shape of every object of the two processes.
TypeOK ==
  /\ fsm \in [Role -> {"BOOT", "NEGOTIATING", "MY_TURN", "SENDING", "OPP_TURN",
                       "GAME_OVER", "AUDITING", "DONE"}]
  /\ result \in [Role -> Result \cup {"none"}]
  /\ response \in [Role -> Answer]
  /\ pos \in [Role -> Cell]
  /\ barriers \in [Role -> SUBSET Cell]
  /\ myBarriers \in [Role -> Nat]
  /\ counter \in [Role -> Nat]
  /\ sealed \in [Role -> Seq(CommitOf)]
  /\ lastStep \in [Role -> Nat]
  /\ oppBarriers \in [Role -> Nat]
  /\ breaches \in [Role -> Nat]
  /\ commits \in [Role -> Seq(CommitOf)]
  /\ post \in [Role -> TurnMessage]
  /\ arrived \in [Role -> BOOLEAN]
  /\ copies \in [Role -> 0 .. MaxCopies]
  /\ inbox \in [Role -> Seq(TurnMessage)]
  /\ audits \in [Role -> Seq(AuditPayload)]
  /\ audit \in [Role -> {"pending", "absent", "passed", "forgery"}]
  /\ raised \in [Role -> BOOLEAN]

\* There is one turn token.  Whoever holds it has folded in every turn the
\* other ever composed, and the other does not hold it too; and a gate is
\* never more than the one undelivered turn behind the opponent's counter,
\* whatever is resent, delayed or given up on.
TurnToken ==
  \A p \in Role : LET q == Opponent(p) IN
    /\ fsm[p] = "MY_TURN" => fsm[q] # "MY_TURN" /\ lastStep[p] = counter[q]
    /\ lastStep[p] <= counter[q] /\ counter[q] <= lastStep[p] + 1

\* The cop's turn the thief has not folded in yet.
InFlightWalls ==
  IF lastStep["thief"] < counter["police"] THEN {post["police"].barrier} \ {NoCell} ELSE {}

\* Without a referee the two barrier maps are replicas: they differ by the
\* wall in flight at most, and the thief's count of the cop's quota is the
\* number of walls on its map (own_state.py: the quota counter can never be
\* inflated by no-op placements).
MapsAgree ==
  /\ barriers["police"] = barriers["thief"] \cup InFlightWalls
  /\ barriers["thief"] \cap InFlightWalls = {}
  /\ Cardinality(barriers["police"]) = myBarriers["police"]
  /\ Cardinality(barriers["thief"]) = oppBarriers["thief"]
  /\ myBarriers["police"] <= MaxBarriers

\* A peer that plays by the rules is never rejected by the other's gate, no
\* matter how its messages are repeated or delayed.
HonestNeverRejected == \A p \in Role : breaches[p] = 0

\* The two settlements never award both sides' win: one peer may be left
\* with a technical loss, but never capture here and survival there.
NoOpposedVerdicts ==
  ~ \E p \in Role : result[p] = "capture" /\ result[Opponent(p)] = "survival"

\* A capture is only ever recorded for a thief that rules 46-47 do capture:
\* under the cop, on a wall, or with no way out.
CaptureIsReal ==
  (\E p \in Role : result[p] = "capture") =>
    LET cell == pos["thief"] IN
    \/ cell = pos["police"]
    \/ cell \in barriers["thief"]
    \/ Jailed(cell, barriers["thief"])

\* A survival is only ever recorded once the thief's own clock, or the cop's
\* move ceiling, has run out.
SurvivalIsEarned ==
  (\E p \in Role : result[p] = "survival") =>
    counter["thief"] >= SurvivalThreshold["thief"] \/ counter["police"] >= MaxMoves

\* Jailing is detected completely: a thief asked to move can leave its cell,
\* though the test only runs when a wall is declared.
ThiefHasExit ==
  fsm["thief"] = "MY_TURN" /\ response["thief"] # "caught" =>
    ~Jailed(pos["thief"], barriers["thief"])

\* The audit never convicts a peer that sealed what it sent, nor does its
\* reveal ever make the other's audit raise: only a handshake leaves run().
NeverForged ==
  \A p \in Role : audit[p] # "forgery" /\ (raised[p] => fsm[p] = "NEGOTIATING")

\* Settled on both sides, the two peers agree on the result.
OutcomesAgree == Finished => result["police"] = result["thief"]

\* A timeout or crash is a technical loss to both sides, never a win of the
\* peer that was waiting (planning/DECISIONS.md:58).
TechnicalLossIsMutual ==
  Finished => (result["thief"] = "technical_loss" <=> result["police"] = "technical_loss")

\* Both processes reach the end of the sub-game.
Termination == <>Finished

\* A captured thief's concession is recorded by both sides in the end.
CaughtIsSettled ==
  response["thief"] = "caught" ~> \A p \in Role : result[p] = "capture"

\* Each peer drives its GameStateMachine by legal transitions only: advance
\* never raises.
ThiefFsm == INSTANCE Fsm WITH state <- fsm["thief"], resume <- "none", NoState <- "none"
PoliceFsm == INSTANCE Fsm WITH state <- fsm["police"], resume <- "none", NoState <- "none"
LegalLifecycle == ThiefFsm!Spec /\ PoliceFsm!Spec

-----------------------------------------------------------------------------
(* The inductive invariant behind TurnToken: how each peer's two counters   *)
(* move with its lifecycle state, and what an inbox can hold.               *)

\* The thief moves first: it is one turn ahead of what it has read when it
\* waits, the cop is level.
Lead(p) == IF p = "thief" THEN 1 ELSE 0

Clock(p) ==
  /\ counter[p] <= lastStep[p] + Lead(p)
  /\ lastStep[p] + Lead(p) <= counter[p] + 1
  /\ fsm[p] \in {"BOOT", "NEGOTIATING"} => counter[p] = 0 /\ lastStep[p] = 0
  /\ fsm[p] = "MY_TURN" => counter[p] + 1 = lastStep[p] + Lead(p)
  /\ fsm[p] \in {"SENDING", "OPP_TURN"} => counter[p] = lastStep[p] + Lead(p)

\* Whatever is in an inbox was sent: an old step, or the last message itself.
Delivered(p) ==
  LET q == Opponent(p) IN
  /\ post[q].step = counter[q]
  /\ lastStep[p] <= counter[q]
  /\ \A i \in 1 .. Len(inbox[p]) :
       /\ inbox[p][i].step \in 1 .. counter[q]
       /\ inbox[p][i].step = counter[q] => inbox[p][i] = post[q]

TokenInv == TypeOK /\ \A p \in Role : Clock(p) /\ Delivered(p)

(* The inductive invariant behind HonestNeverRejected and MapsAgree: every   *)
(* message composed obeys the gate it is sent to.                           *)

\* What p's last message may say.
Honest(p) ==
  /\ counter[p] > 0 => post[p].sender = p /\ RoleFields(post[p])
  /\ post[p].win => post[p].step >= SurvivalThreshold["thief"]

\* The two maps and the two counts of the cop's quota differ by the wall in
\* flight.
Replicas ==
  /\ barriers["police"] = barriers["thief"] \cup InFlightWalls
  /\ barriers["thief"] \cap InFlightWalls = {}
  /\ IsFiniteSet(barriers["thief"])
  /\ Cardinality(barriers["thief"]) = oppBarriers["thief"]
  /\ myBarriers["police"] = oppBarriers["thief"] + Cardinality(InFlightWalls)
  /\ myBarriers["police"] <= MaxBarriers

HonestInv ==
  /\ \A p \in Role : Honest(p) /\ breaches[p] = 0
  /\ response["police"] = "none"
  /\ Replicas

(* The inductive invariant behind NeverForged: the reveal and the live      *)
(* commits are read off the same log.                                       *)

\* log names p's commits, in order.
SealedBy(p, log) == \A s \in DOMAIN log : log[s] = Commit(p, s)

\* The reveal of a peer q that sealed what it sent.
HonestReveal(q, records) ==
  /\ \A i \in DOMAIN records :
       /\ records[i].step \in Nat
       /\ records[i].commit = Commit(q, records[i].step)
       /\ records[i].recomputes = "yes"
  /\ records # << >> => records[1].signature = "valid"

Ledger(p) ==
  LET q == Opponent(p) IN
  /\ Len(sealed[p]) = counter[p] /\ SealedBy(p, sealed[p])
  /\ Len(commits[p]) = lastStep[p] /\ SealedBy(q, commits[p])
  /\ counter[p] > 0 => post[p].commit = Commit(p, counter[p])
  /\ \A i \in DOMAIN audits[p] : HonestReveal(q, audits[p][i].records)
  /\ audit[p] # "forgery"

\* A thread that has raised has done so in its handshake, and is stuck there.
RaisedEarly == \A p \in Role : raised[p] => fsm[p] = "NEGOTIATING"

(* The inductive invariants behind SurvivalIsEarned and CaptureIsReal: what  *)
(* a verdict, and the message or the debt that leads to it, tells of the    *)
(* clocks and of the thief's cell.                                          *)

Earned ==
  counter["thief"] >= SurvivalThreshold["thief"] \/ counter["police"] >= MaxMoves

EarnedInv ==
  /\ \A p \in Role : result[p] = "survival" => Earned
  /\ ~post["police"].win
  /\ post["thief"].win => counter["thief"] >= SurvivalThreshold["thief"]

\* Rules 46-47 hold of the thief where it stands.
Cornered ==
  \/ pos["thief"] = pos["police"]
  \/ pos["thief"] \in barriers["thief"]
  \/ Jailed(pos["thief"], barriers["thief"])

\* The thief has sent its concession.
Conceded == post["thief"].response = "caught"

\* From the turn that catches it on, the thief stays cornered: it owes or has
\* sent its concession, so neither peer gets to play another move.
CornerInv ==
  /\ response["police"] # "caught" /\ post["police"].response # "caught"
  /\ post["police"].claim # NoCell => post["police"].claim = pos["police"]
  /\ response["thief"] = "caught" =>
       /\ Cornered
       /\ fsm["thief"] \notin {"BOOT", "NEGOTIATING", "OPP_TURN"}
       /\ Conceded \/ counter["thief"] = lastStep["thief"]
  /\ Conceded =>
       /\ Cornered
       /\ fsm["thief"] \in {"SENDING", "GAME_OVER", "AUDITING", "DONE"}
       /\ fsm["police"] # "MY_TURN"
  /\ \A p \in Role : result[p] = "capture" => Conceded

(* The inductive invariant behind ThiefHasExit: until it is caught, the      *)
(* thief stands on a free cell it can leave, on its own map.                *)

ExitInv ==
  response["thief"] # "caught" /\ ~Conceded =>
    /\ pos["thief"] \notin barriers["thief"]
    /\ ~Jailed(pos["thief"], barriers["thief"])

(* The inductive invariant behind NoOpposedVerdicts, where the ceiling is no *)
(* lower than the thief's threshold: the thief's win claim and its          *)
(* concession exclude each other, nobody plays on after either, so the cop  *)
(* never gets to its ceiling and every survival is the thief's claim.       *)

ClaimInv ==
  /\ post["thief"].win =>
       /\ ~Conceded
       /\ fsm["thief"] \in {"SENDING", "GAME_OVER", "AUDITING", "DONE"}
       /\ fsm["police"] # "MY_TURN"
  /\ counter["thief"] > 0 =>
       post["thief"].win \/ Conceded \/ counter["thief"] < SurvivalThreshold["thief"]
  /\ counter["police"] > 0 => counter["police"] < SurvivalThreshold["thief"]
  /\ fsm["police"] = "SENDING" => counter["police"] > 0
  /\ \A p \in Role : result[p] = "survival" => post["thief"].win

(* The inductive invariant behind OutcomesAgree, where nothing fails: the    *)
(* verdicts are those two, the cop leaves its loop on one of them only, and *)
(* the thief's last word is in the cop's inbox until it has read it.        *)

\* p has left its turn loop.
Left(p) == fsm[p] \in {"GAME_OVER", "AUDITING", "DONE"}

LastWord == post["thief"].win \/ Conceded

\* The thief's last message waits for the cop.
Pending == \E i \in 1 .. Len(inbox["police"]) : inbox["police"][i].step = counter["thief"]

AgreeInv ==
  /\ \A p \in Role : IF Left(p) THEN result[p] \in {"capture", "survival"}
                                 ELSE result[p] = "none"
  /\ LastWord => counter["thief"] > 0
  /\ lastStep["police"] = counter["thief"] /\ LastWord => Left("police")
  /\ arrived["thief"] /\ lastStep["police"] < counter["thief"] => Pending
=============================================================================
