------------------------------- MODULE Rules --------------------------------
(***************************************************************************)
(* domain/rules.py: the rulebook every peer enforces on its own moves       *)
(* before sending and on the opponent's declared effects on arrival.        *)
(***************************************************************************)
EXTENDS Board, FiniteSets

CONSTANT MaxBarriers   \* movement_and_barriers.max_barriers, the cop's quota

ASSUME RulesAssumption == MaxBarriers \in Nat

OptionsWithOwnCell(cop, walls) ==
  {cop} \cup {Shift(cop, dir) : dir \in {d \in Orthogonal : StepLegal(cop, d, walls)}}

\* barrier_options: the cop's own cell (if free) and the orthogonal cells
\* Board.step lets it reach.  A direction outside the move set is no option,
\* since the reach is computed with Board.step.
BarrierOptions(cop, walls) ==
  ({cop} \ walls)
    \cup {Shift(cop, dir) : dir \in {d \in Orthogonal : StepLegal(cop, d, walls)}}

\* validate_barrier: within the quota and the reach.
BarrierLegal(cop, target, walls, used) ==
  /\ used < MaxBarriers
  /\ target \in BarrierOptions(cop, walls)

\* Rule 46, both halves.
CaptureByLanding(cop, thief) == cop = thief
CaptureByBarrier(wall, thief) == wall = thief

\* jailed, with its default jailed_includes_stay=True: STAY is no way out.
Jailed(thief, walls) == LegalMoves(thief, walls) \subseteq {"STAY"}
=============================================================================
