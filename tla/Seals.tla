------------------------------- MODULE Seals --------------------------------
(***************************************************************************)
(* Commit, reveal and signature (domain/crypto, peer/sealing.py), the       *)
(* verification of a reveal (peer/audit.py) and of a log file               *)
(* (interface/replay_verify.py).                                            *)
(*                                                                          *)
(* A digest is its preimage: sha256 over canonical JSON is taken to be      *)
(* collision-free.  A JSON object is a function of its keys; the bar that   *)
(* the reference puts between object and nonce makes a pair of them.  A     *)
(* signature is what it was made with and what it was made over.            *)
(***************************************************************************)
EXTENDS Integers, Sequences, FiniteSets

Dialect == {"reference", "book"}

\* {**object, key: value}
With(object, key, value) ==
  [k \in DOMAIN object \cup {key} |-> IF k = key THEN value ELSE object[k]]

\* The nonce among the keys of the object, or after it.
BookCommit(payload, nonce) == <<With(payload, "nonce", nonce)>>
ReferenceCommit(payload, nonce) == <<payload, nonce>>

Commit(dialect, payload, nonce) ==
  IF dialect = "book" THEN BookCommit(payload, nonce) ELSE ReferenceCommit(payload, nonce)

\* The book cannot seal a payload with a nonce of its own, nor verify one.
Verify(dialect, record) ==
  /\ dialect = "book" => "nonce" \notin DOMAIN record.payload
  /\ record.commit = Commit(dialect, record.payload, record.nonce)

Sign(key, payload) == [key |-> key, over |-> payload]

VerifySignature(key, payload, signature) ==
  signature.key = key /\ signature.over = payload

-----------------------------------------------------------------------------
\* A record of the chain, as it is revealed in the end.
AuditRecord(payload, nonce, commit) ==
  [payload |-> payload, nonce |-> nonce, commit |-> commit]

\* One sealed record; the nonce is fresh, here the name of the step.
SealStep(dialect, payload, nonce) ==
  AuditRecord(payload, nonce, Commit(dialect, payload, nonce))

\* OwnGameState.state_string: the board's size, the own cell, the walls.
StateString(size, cell, walls) == [grid |-> size, self |-> cell, barriers |-> walls]

\* sealed_payload: the position is read back out of the state it seals.  Of the
\* rest only the step tells anything apart here.
StepPayload(step, state) == [step |-> step, state |-> state, position |-> state.self]

\* The declaration of hardware and ledger that opens every chain: it carries
\* the public key and a signature over everything but itself.
Declaration(key) == [step |-> 0, public_key |-> key]

SignLater(dialect, key, nonce) ==
  [SealStep(dialect, Declaration(key), nonce) EXCEPT
     !.payload = With(@, "signature", Sign(key, Declaration(key)))]

Step0Record(dialect, key, nonce) ==
  SealStep(dialect, With(Declaration(key), "signature", Sign(key, Declaration(key))), nonce)

VerifyStep0Signature(payload, key) ==
  /\ "signature" \in DOMAIN payload
  /\ VerifySignature(key, [k \in DOMAIN payload \ {"signature"} |-> payload[k]],
                     payload.signature)

-----------------------------------------------------------------------------
\* SealedLog.audit_verify: the steps whose commit does not recompute.
AuditVerify(records, dialect) ==
  {records[i].payload.step : i \in {j \in DOMAIN records : ~Verify(dialect, records[j])}}

\* The steps revealed with another commit than the one broadcast live.
RevealMismatches(records, live) ==
  {s \in DOMAIN live : \E i \in DOMAIN records :
     records[i].payload.step = s /\ records[i].commit # live[s]}

FailedWithoutLive(records, dialect, live, key) == AuditVerify(records, dialect)

\* What exchange_audits holds against a reveal: the commits first, and the
\* signature of the declaration only if none of them failed.
FailedSteps(records, dialect, live, key) ==
  LET failed == AuditVerify(records, dialect) \cup RevealMismatches(records, live)
  IN  IF /\ failed = {}
         /\ records # << >>
         /\ ~VerifyStep0Signature(records[1].payload, key)
      THEN {0} ELSE failed

-----------------------------------------------------------------------------
\* replay_verify.audit_records: a record passes under either dialect.
Verified(records, dialect) == {i \in DOMAIN records : Verify(dialect, records[i])}

\* The dialect shown: the one some record needed, else the likelier one.
LogDialect(records) ==
  LET ref == Verified(records, "reference")
      book == Verified(records, "book")
      needsRef == ref \ book # {}
      needsBook == book \ ref # {}
  IN  IF needsRef /\ needsBook THEN "mixed"
      ELSE IF needsBook THEN "book"
      ELSE IF needsRef \/ Cardinality(ref) >= Cardinality(book) THEN "reference" ELSE "book"

LogPasses(records) ==
  /\ records # << >>
  /\ DOMAIN records \subseteq Verified(records, "reference") \cup Verified(records, "book")

\* verify_log: what is on disk is an object with a list of records, or none.
VerifyLog(document) ==
  LET records == IF "records" \in DOMAIN document THEN document.records ELSE << >>
  IN  [passed |-> LogPasses(records), dialect |-> LogDialect(records)]

\* replay_command's exit code: the verdict's, whatever becomes of the viewer.
ReplayExit(document) == IF VerifyLog(document).passed THEN 0 ELSE 1

\* parse_state and grid_size: nothing, where a payload has no state.
HasState(payload) == "state" \in DOMAIN payload
ParseState(payload) ==
  IF HasState(payload) THEN <<payload.state.self, payload.state.barriers>> ELSE << <<>>, {} >>
GridSize(payload) == IF HasState(payload) THEN payload.state.grid ELSE 0

\* ReplayViewer: the records that show a position, at their places in the log,
\* and the board's size, which only a played step's state gives; without it it
\* raises.
Frames(records) ==
  [i \in {j \in DOMAIN records : "position" \in DOMAIN records[j].payload} |-> records[i]]

ViewerRaises(records) == \A i \in DOMAIN records : GridSize(records[i].payload) = 0
=============================================================================
