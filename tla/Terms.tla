------------------------------- MODULE Terms --------------------------------
(***************************************************************************)
(* What two peers sign before they play (domain/negotiation.py,             *)
(* domain/game_ids.py): the wire terms taken from each peer's own copy of   *)
(* game.json (shared/config.py), their comparison, and the ids derived from *)
(* them.                                                                    *)
(*                                                                          *)
(* A copy of game.json is a function from the entries it has to their       *)
(* values; a file that is missing or no JSON has none.  Three entries stand *)
(* for the signed ones: "rules" for those a peer needs to start, "axis" for *)
(* those it does not (the axes, the map area, the hint's length, the number *)
(* of games), and max_moves, which a delta may raise.  A copy may also have *)
(* "wire" (negotiation.wire_dialect_terms) and "deltas"                     *)
(* (negotiation.propose_rule_deltas) or not.                                *)
(***************************************************************************)
EXTENDS Integers, FiniteSets, TLC

WireTerm == {"rules", "axis", "max_moves"}

DialectTerm == {"crypto_dialect", "scent_dialect"}

\* The parameters a delta may raise, each named as the entry of its minimum.
RuleDelta == {"max_moves"}

\* REQUIRED_AGREED_TERMS: both dialects, but not all that will be signed.
RequiredTerm == {"rules", "max_moves"} \cup DialectTerm

-----------------------------------------------------------------------------
\* _lookup: an entry that is not there is a ConfigError.
Has(game, entry) == entry \in DOMAIN game

\* ConfigManager.load and validate_agreement, before there is any socket.
Validated(game) == \A entry \in RequiredTerm : Has(game, entry)

WireDialectTerms(game) == Has(game, "wire") /\ game["wire"]

ProposedRuleDeltas(game) == IF Has(game, "deltas") THEN game["deltas"] ELSE << >>

\* ConfigError: a delta that is no negotiable parameter, or raises nothing.
DeltaRefused(game) ==
  \E k \in DOMAIN ProposedRuleDeltas(game) :
    k \notin RuleDelta \/ ProposedRuleDeltas(game)[k] <= game[k]

\* What build_terms raises on.
TermsRaise(game) == (\E k \in WireTerm : ~Has(game, k)) \/ DeltaRefused(game)

BuildTerms(game) ==
  [k \in WireTerm |-> game[k]]
    @@ (IF WireDialectTerms(game) THEN [k \in DialectTerm |-> game[k]] ELSE << >>)
    @@ (IF ProposedRuleDeltas(game) # << >>
        THEN [k \in {"rule_deltas"} |-> ProposedRuleDeltas(game)] ELSE << >>)

VerifyOurTerms(mine, theirs) ==
  \A k \in DOMAIN mine : k \in DOMAIN theirs /\ mine[k] = theirs[k]

\* Exact equality: no key missing, none extra, every value the same bytes.
VerifyTerms(mine, theirs) == mine = theirs

\* The pair of group ids in order, and the id that commits to the terms too.
DeriveGameIds(terms, gid, other) ==
  [game_id |-> {gid, other}, game_uid |-> <<terms, {gid, other}>>]
=============================================================================
