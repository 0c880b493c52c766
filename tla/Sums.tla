-------------------------------- MODULE Sums --------------------------------
(***************************************************************************)
(* Python's sum over a dict's values or over a list.                        *)
(***************************************************************************)
EXTENDS Integers, Folds

SumOf(value) ==
  MapThenFoldSet(+, 0, LAMBDA x : value[x], LAMBDA S : CHOOSE x \in S : TRUE, DOMAIN value)
=============================================================================
