----------------------------- MODULE MCEvidence -----------------------------
(***************************************************************************)
(* Small instances of Evidence for TLC.                                     *)
(***************************************************************************)
EXTENDS Evidence

Shipped == [rules |-> "r", axis |-> "a", max_moves |-> 2,
            crypto_dialect |-> "reference", scent_dialect |-> "reference"]
BookSealed == [Shipped EXCEPT !.crypto_dialect = "book"]
OtherRules == [Shipped EXCEPT !.rules = "s"]
OnTheWire(g) == g @@ [wire |-> TRUE]
OffTheWire(g) == g @@ [wire |-> FALSE]
Raising(g, n) == g @@ [deltas |-> [max_moves |-> n]]
Without(g, k) == [e \in DOMAIN g \ {k} |-> g[e]]
Unreadable == << >>

Pair(l, r) == [p \in Peer |-> IF p = "left" THEN l ELSE r]

\* Equal copies, copies that differ in a signed entry, in an unsigned one, in
\* one that is signed if the flag says so, and in their deltas; and copies that
\* lack a required entry, a signed one or all, or name no dialect there is.
MCCopies ==
  {Pair(Shipped, Shipped), Pair(Shipped, BookSealed), Pair(Shipped, OtherRules),
   Pair(OnTheWire(Shipped), OnTheWire(BookSealed)),
   Pair(OnTheWire(Shipped), OffTheWire(Shipped)),
   Pair(Raising(BookSealed, 3), Raising(BookSealed, 3)),
   Pair(Raising(Shipped, 3), Raising(Shipped, 4)),
   Pair(Raising(Shipped, 2), Shipped),
   Pair(Shipped, Without(Shipped, "crypto_dialect")), Pair(Shipped, Without(Shipped, "axis")),
   Pair(Unreadable, Shipped), Pair([Shipped EXCEPT !.crypto_dialect = "plain"], Shipped)}

MCGroupId == Pair("a", "b")
=============================================================================
