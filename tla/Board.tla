------------------------------- MODULE Board --------------------------------
(***************************************************************************)
(* domain/board.py: the geometry of the N x N pursuit grid under the        *)
(* negotiated move set.  A cell is <<row, col>>, zero-based, origin at the  *)
(* top left, as in the code; "no cell" (Python's None) is NoCell.           *)
(***************************************************************************)
EXTENDS Integers, Sequences

CONSTANTS
  GridSize,   \* board_and_agents.grid_size
  MoveSet     \* movement_and_barriers.move_set, in order, without repetitions

Direction == {"N", "S", "E", "W", "STAY"}

Orthogonal == Direction \ {"STAY"}

ASSUME BoardAssumption ==
  /\ GridSize \in Nat \ {0}
  /\ MoveSet \in Seq(Direction) /\ MoveSet # << >>

Cell == (0 .. GridSize - 1) \X (0 .. GridSize - 1)

\* None, where the code answers "no cell"; off the board, so never a Cell.
NoCell == <<-1, -1>>

\* DIRECTION_DELTAS (constants.py).
Delta == [N |-> <<-1, 0>>, S |-> <<1, 0>>, E |-> <<0, 1>>, W |-> <<0, -1>>,
          STAY |-> <<0, 0>>]

\* A delta applied to a cell, with no legality check (Board._shift).
Shift(cell, dir) == <<cell[1] + Delta[dir][1], cell[2] + Delta[dir][2]>>

InMoveSet(dir) == \E i \in DOMAIN MoveSet : MoveSet[i] = dir

\* Board.step, the single physics primitive: may an agent (or a barrier) go
\* from origin in direction dir?
StepLegal(origin, dir, walls) ==
  /\ InMoveSet(dir)
  /\ Shift(origin, dir) \in Cell
  /\ Shift(origin, dir) \notin walls

\* Board.legal_moves: the directions legal from a cell.
LegalMoves(cell, walls) == {dir \in Direction : StepLegal(cell, dir, walls)}

\* legal_moves(...)[0][0], the first legal direction in move-set order, as a
\* set of at most one element.
FirstLegal(cell, walls) ==
  {MoveSet[i] : i \in {j \in DOMAIN MoveSet :
      /\ StepLegal(cell, MoveSet[j], walls)
      /\ \A k \in 1 .. j - 1 : ~StepLegal(cell, MoveSet[k], walls)}}
=============================================================================
