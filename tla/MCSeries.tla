------------------------------ MODULE MCSeries ------------------------------
(***************************************************************************)
(* Small instances of Series for TLC.                                       *)
(***************************************************************************)
EXTENDS Series

\* The shipped points table (config game.json, scoring).
MCScoring ==
  [capture_cop |-> 20, capture_thief |-> 5, survival_cop |-> 5, survival_thief |-> 10,
   technical_loss |-> 0, tie_score |-> 2]

MCGroups == [left |-> "ours", right |-> "theirs"]
=============================================================================
