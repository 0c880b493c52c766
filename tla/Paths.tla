------------------------------- MODULE Paths --------------------------------
(***************************************************************************)
(* The walks of domain/board.py: neighbours, true distance around the       *)
(* walls, the cells within k steps.  Both of the code's breadth-first       *)
(* searches are one idea here, a set of cells grown by its neighbours.      *)
(***************************************************************************)
EXTENDS Board, FiniteSets

\* The strategy layer's size * size, larger than any distance; it also stands
\* for the None of bfs_distance, which every caller replaces by it or refuses.
Far == GridSize * GridSize

Smaller(m, n) == IF m < n THEN m ELSE n

Abs(n) == IF n < 0 THEN -n ELSE n

\* Board.manhattan and greedy._manhattan: walls are ignored.
Manhattan(a, b) == Abs(a[1] - b[1]) + Abs(a[2] - b[2])

\* Row-major order of the cells, the tie-break of every sorted(cells).
Rank(cell) == cell[1] * GridSize + cell[2]

\* Board.neighbors: the move set's steps (STAY is none) that stay on the board.
Neighbors ==
  [cell \in Cell |->
     {Shift(cell, dir) : dir \in {d \in Orthogonal : InMoveSet(d)}} \cap Cell]

Grown(cells, walls) == cells \cup (UNION {Neighbors[c] : c \in cells} \ walls)

\* Board.bfs_distance.  The origin may itself be walled (an agent standing on
\* its own wall); a walled destination is never reached.
BfsDistance(a, b, walls) ==
  LET hops[seen \in SUBSET Cell] ==
        IF b \in seen THEN 0
        ELSE IF Grown(seen, walls) = seen THEN Far
        ELSE 1 + hops[Grown(seen, walls)]
  IN Smaller(hops[{a}], Far)

\* Board.reachable_cells: within k steps, the origin included.
ReachableCells(pos, walls, k) ==
  LET within[n \in 0 .. k] ==
        IF n = 0 THEN {pos} ELSE Grown(within[n - 1], walls)
  IN within[k]

\* Board.legal_moves in its order: the places in the move set of the legal
\* directions.
Moves(pos, walls) == {i \in DOMAIN MoveSet : StepLegal(pos, MoveSet[i], walls)}

\* thief._exits and decoy._exits: real steps left from a cell.
Exits(cell, walls) == Cardinality(LegalMoves(cell, walls) \ {"STAY"})
=============================================================================
