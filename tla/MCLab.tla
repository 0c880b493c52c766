------------------------------- MODULE MCLab --------------------------------
(***************************************************************************)
(* A small instance of Lab for TLC, with the shipped weights.               *)
(***************************************************************************)
EXTENDS Lab

MCMoveSet == <<"N", "S", "E", "W", "STAY">>

At(cop, thief) == [police |-> cop, thief |-> thief]

\* The cop in the corner, as shipped, and in the middle; the thief anywhere.
MCStarts ==
  {At(cop, thief) : cop \in {<<0, 0>>, <<1, 1>>}, thief \in Cell}
    \ {At(cop, cop) : cop \in Cell}

MCPoints ==
  [capture        |-> [police |-> 20, thief |-> 5],
   survival       |-> [police |-> 5, thief |-> 10],
   technical_loss |-> [police |-> 0, thief |-> 0]]

MCLaws == Law

Bring(police, thief) == [police |-> police, thief |-> thief]

\* Each line-up against itself, and the shipped brains against the baselines.
MCMatches ==
  {RunLab(p, t) :
     p \in {"interceptor", "greedy cop"}, t \in {"survivor", "decoy", "greedy"}}
    \cup {[A |-> Bring("interceptor", "survivor"), B |-> Bring("greedy cop", "greedy")]}

\* Always heads, and alternating.
MCCoins ==
  {[i \in 1 .. MaxMoves |-> TRUE], [i \in 1 .. MaxMoves |-> i % 2 = 1]}
=============================================================================
