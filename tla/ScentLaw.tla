------------------------------ MODULE ScentLaw ------------------------------
(***************************************************************************)
(* domain/scent/: one peer's scent field and the two dialects of its law.   *)
(*                                                                         *)
(* The wire carries thousandths.  A field is a function from the cells to   *)
(* grains, Grain of them to a thousandth, 0 where the code's sparse dict    *)
(* has no entry; the code's floats keep more digits than the grains do,     *)
(* none of which reaches the wire.                                          *)
(***************************************************************************)
EXTENDS Board, FiniteSets

CONSTANTS
  SmellGrid,    \* pheromone_grid_size, odd
  Emit0,        \* pheromone_center_intensity E0, thousandths
  Rho,          \* pheromone_decay, thousandths
  Floor0,       \* pheromone_min_center_intensity, thousandths
  Grain         \* grains per thousandth

Law == {"book", "reference"}

Half == SmellGrid \div 2

\* ScentParams.__post_init__: anything else is a ConfigError.
ParamsAccepted ==
  /\ SmellGrid \in Nat /\ SmellGrid % 2 = 1
  /\ Rho \in 0 .. 1000
  /\ Emit0 \in Nat \ {0} /\ Floor0 \in Nat /\ Emit0 >= Floor0

ASSUME ScentAssumption == ParamsAccepted /\ Grain \in Nat \ {0}

Silent == [c \in Cell |-> 0]

Larger(a, b) == IF a > b THEN a ELSE b

Distance1(a, b) == IF a > b THEN a - b ELSE b - a

\* The Chebyshev ring of a cell around the centre.
Ring(center, c) == Larger(Distance1(center[1], c[1]), Distance1(center[2], c[2]))

\* Python's round: the nearest, and the even one of two.
RoundDiv(n, d) ==
  LET q == n \div d
      r == n % d
  IN IF 2 * r > d \/ (2 * r = d /\ q % 2 = 1) THEN q + 1 ELSE q

\* STAMP_LAW, in thousandths: E0 less E0 / (half + 1) for each ring, rounded.
Stamp(center, c) ==
  IF Ring(center, c) > Half THEN 0
  ELSE RoundDiv(Emit0 * (Half + 1 - Ring(center, c)), Half + 1)

\* _merge: the book adds and clamps at E0, the reference keeps the larger.
Clamped(v) == IF v > Emit0 * Grain THEN Emit0 * Grain ELSE v

Merge(law, old, new) == IF law = "book" THEN Clamped(old + new) ELSE Larger(old, new)

Deposited(law, field, center) ==
  [c \in Cell |-> Merge(law, field[c], Stamp(center, c) * Grain)]

\* What the wire reads of a field's value.
Wire(v) == RoundDiv(v, Grain)

\* decay: the book keeps the share 1 - rho and prunes what the wire would
\* read as 0; the reference subtracts rho and drops what is spent.
Faded(law, v) ==
  IF law = "book"
  THEN LET kept == (v * (1000 - Rho)) \div 1000 IN IF Wire(kept) = 0 THEN 0 ELSE kept
  ELSE IF v > Rho * Grain THEN v - Rho * Grain ELSE 0

Decayed(law, field) == [c \in Cell |-> Faded(law, field[c])]

EmittedUndecayed(law, field, center) == Deposited(law, field, center)

\* The sender's order, deposit then decay (Side.emit, TurnSender.take_turn).
Emitted(law, field, center) == Decayed(law, Deposited(law, field, center))

\* snapshot and absorb: what one peer sends is what the other's field becomes.
Snapshot(field) == [c \in Cell |-> Wire(field[c])]
Absorbed(cells) == [c \in Cell |-> cells[c] * Grain]

\* strongest: the first cell, row by row, of the highest value; none if empty.
Strongest(cells) ==
  IF \A c \in Cell : cells[c] = 0 THEN NoCell
  ELSE CHOOSE c \in Cell : \A d \in Cell :
         \/ cells[c] > cells[d]
         \/ /\ cells[c] = cells[d]
            /\ c[1] < d[1] \/ (c[1] = d[1] /\ c[2] <= d[2])
=============================================================================
