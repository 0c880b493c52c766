----------------------------- MODULE MCSubGame ------------------------------
(***************************************************************************)
(* Small instances of SubGame for TLC.                                      *)
(***************************************************************************)
EXTENDS SubGame

MCMoveSet == <<"N", "S", "E", "W", "STAY">>

\* A thief in the corner, the cop on the diagonal: landing, walling and
\* jailing (two walls) are all within reach.
MCThiefCorner == <<0, 0>>
MCCopDiagonal == <<1, 1>>

MCThreshold2 == [p \in Role |-> 2]
MCThreshold3 == [p \in Role |-> 3]
=============================================================================
