------------------------------ MODULE Beliefs -------------------------------
(***************************************************************************)
(* domain/belief/ and its stand-in ScentBelief (sdk/series.py): what a peer *)
(* makes of the opponent's snapshot.                                        *)
(*                                                                         *)
(* ScentBelief is exact.  BeliefV2 is a floating-point filter: its emission *)
(* inversion is exact here (squared residuals in thousandths of a           *)
(* thousandth), and so is the refit after a resync, whose posterior is the  *)
(* deficits' alone.  What the motion prior adds otherwise is left out.      *)
(***************************************************************************)
EXTENDS ScentLaw, Sums

CONSTANTS
  ZeroWeight,   \* zero_scent_weight, tenths
  ResyncAt      \* -2 sigma_obs^2 ln(resync_floor), in the residuals' unit

\* BeliefV2.__init__: a resync floor above 0, and here below 1.
EngineAccepted == ZeroWeight \in Nat /\ ResyncAt \in Nat \ {0}

ASSUME BeliefAssumption == EngineAccepted

Square(n) == n * n

ForwardAfresh(law, before, center) == Snapshot(Emitted(law, Silent, center))

\* forward_snapshot: absorb the previous trail, deposit at the candidate,
\* decay, round.
Forward(law, before, center) ==
  Snapshot(Emitted(law, Absorbed(before), center))

\* residual_log_likelihood, negated and in tenths: a cell predicted fragrant
\* and observed silent weighs ZeroWeight, any other difference 1.
Residual(observed, predicted) ==
  SumOf([c \in Cell |->
    (IF observed[c] = 0 /\ predicted[c] > 0 THEN ZeroWeight ELSE 10)
      * Square((observed[c] - predicted[c]) \div 10)])

\* absolute_log_likelihood, likewise: deficits against a fresh stamp only.
Deficit(law, observed, center) ==
  LET fresh == Forward(law, Silent, center)
  IN SumOf([c \in Cell |->
       IF fresh[c] <= observed[c] THEN 0
       ELSE (IF observed[c] = 0 THEN ZeroWeight ELSE 10)
              * Square((fresh[c] - observed[c]) \div 10)])

\* parse_wire: what the model's own absorb makes of an incoming snapshot.
Parsed(cells) == Snapshot(Absorbed(cells))

Candidates(masked) == Cell \ masked

\* scent_log_likelihoods, negated: the residual each candidate leaves.
Residuals(law, observed, before, masked) ==
  [c \in Candidates(masked) |-> Residual(observed, Forward(law, before, c))]

\* observe_smell resyncs when no candidate explains the snapshot.
Resyncs(law, observed, before, masked) ==
  LET residuals == Residuals(law, observed, before, masked)
  IN  \A c \in Candidates(masked) : residuals[c] > ResyncAt

\* absolute_log_likelihoods: the candidates of the least deficit, one of which
\* is the mode after a resync; the last bits of the floats decide between them.
Refit(law, observed, masked) ==
  LET deficits == [c \in Candidates(masked) |-> Deficit(law, observed, c)]
  IN  {c \in Candidates(masked) : \A d \in Candidates(masked) : deficits[c] <= deficits[d]}
=============================================================================
