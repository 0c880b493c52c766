-------------------------------- MODULE Fsm ---------------------------------
(***************************************************************************)
(* peer/fsm.py: the guarded per-peer lifecycle machine GameStateMachine.    *)
(* `advance` is its only mutator; a refused transition raises and leaves    *)
(* the machine as it was, which is a stuttering step here.                  *)
(***************************************************************************)

CONSTANT NoState   \* None: nothing recorded to resume to

VARIABLES
  state,    \* GameStateMachine._state
  resume    \* GameStateMachine._resume_state

Turn == {"OPP_TURN", "MY_TURN"}

\* The ALLOWED table; DONE and ABORTED are the terminal states.
Allowed(from) ==
  LET table == [BOOT        |-> {"NEGOTIATING", "GAME_OVER", "ABORTED"},
                NEGOTIATING |-> Turn \cup {"GAME_OVER", "ABORTED"},
                OPP_TURN    |-> {"MY_TURN", "PAUSED", "GAME_OVER", "ABORTED"},
                MY_TURN     |-> {"SENDING", "PAUSED", "GAME_OVER", "ABORTED"},
                SENDING     |-> {"OPP_TURN", "GAME_OVER", "ABORTED"},
                PAUSED      |-> Turn \cup {"GAME_OVER", "ABORTED"},
                GAME_OVER   |-> {"AUDITING", "ABORTED"},
                AUDITING    |-> {"DONE", "ABORTED"},
                DONE        |-> {},
                ABORTED     |-> {}]
  IN  table[from]

\* A resume may only return to the state the pause interrupted.
WrongResume(to) == state = "PAUSED" /\ to \in Turn /\ to # resume

-----------------------------------------------------------------------------
Init == state = "BOOT" /\ resume = NoState

\* GameStateMachine.advance
Advance(to) ==
  /\ to \in Allowed(state)
  /\ ~WrongResume(to)
  /\ resume' = IF to = "PAUSED" THEN state ELSE resume
  /\ state' = to

Next == \E to \in Allowed(state) : Advance(to)

vars == <<state, resume>>

Spec == Init /\ [][Next]_vars

=============================================================================
