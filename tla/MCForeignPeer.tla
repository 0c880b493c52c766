--------------------------- MODULE MCForeignPeer ----------------------------
(***************************************************************************)
(* A small instance of ForeignPeer for TLC.                                 *)
(***************************************************************************)
EXTENDS ForeignPeer

MCMoveSet == <<"N", "S", "E", "W", "STAY">>

MCThiefCorner == <<0, 0>>
MCCopDiagonal == <<1, 1>>

MCThreshold3 == [p \in Role |-> 3]

\* A record that recomputes, and the declaration an honest reveal opens with.
Record(step, commit) ==
  [step |-> step, commit |-> commit, recomputes |-> "yes", signature |-> "invalid"]

Opening == [Record(0, 0) EXCEPT !.signature = "valid"]

Broken(r) == [r EXCEPT !.recomputes = "no"]

\* One reveal for each way a record, or two of them, can be taken.
MCReveals == {
  << >>,
  <<Opening>> \o [i \in 1 .. 3 |-> Record(i, i)],                \* the truth
  <<Opening, Record(2, 2), Record(1, 1)>>,                       \* in another order
  <<Opening, Record(2, 2)>>,                                     \* a turn left out
  <<Opening, Record(1, 0)>>,                                     \* swapped
  <<Opening, Record(2, 2), Record(1, 1), Record(1, 0)>>,         \* said twice
  <<Opening, Record(9, 0)>>,                                     \* of no turn played
  <<Opening, Broken(Record(1, 1))>>,
  <<Record(1, 1)>>,                                              \* unsigned
  <<[Opening EXCEPT !.signature = "raises"], Record(1, 1)>>,
  <<[Opening EXCEPT !.signature = "raises"], Record(1, 0)>>,
  <<[Opening EXCEPT !.recomputes = "raises"]>>,
  <<Opening, Record(Nested, 1)>>,
  <<Opening, Broken(Record(Text, 0))>>,
  <<Opening, Broken(Record(Null, 0)), Record(1, 0)>>}            \* no order of the two
=============================================================================
