------------------------------ MODULE Watchdog ------------------------------
(***************************************************************************)
(* peer/watchdog.py: heartbeats kicked by the subsystems, scanned by a      *)
(* daemon poll thread that calls on_freeze outside the lock.  start and     *)
(* stop may alternate; stop waits only briefly for the poll thread, so one  *)
(* inside a slow handler outlives it and may still be there after the next  *)
(* start has cleared the stop event.                                        *)
(*                                                                          *)
(* The ages of the beats are counted in ticks of the injected clock.  The   *)
(* episode numbers are history: which beat an alarm is about.               *)
(***************************************************************************)
EXTENDS Integers, Sequences

CONSTANTS
  Name,        \* the subsystems that send heartbeats
  Threshold,   \* watchdog_timeout_sec, in ticks
  MaxKicks,    \* bound: beats of each name
  MaxThreads   \* bound: poll threads ever started

ASSUME WatchdogAssumption ==
  /\ Threshold \in Nat \ {0} /\ MaxKicks \in Nat /\ MaxThreads \in Nat

VARIABLES
  age,      \* of each name's last beat; Silent before the first
  fired,    \* _fired
  stopping, \* the _stop event
  handle,   \* _thread: the poll thread start knows of, 0 if None
  thread,   \* where each poll thread is
  todo,     \* its local list frozen: alarms it has yet to raise
  episode,  \* history: how often each name has beaten
  alarms    \* history: the calls of on_freeze, in order

Silent == -1

PollThread == 1 .. MaxThreads

Alarm == Name \X (0 .. MaxKicks)

registry == <<age, fired, episode>>
threads  == <<stopping, handle, thread, todo>>
vars     == <<registry, threads, alarms>>

-----------------------------------------------------------------------------
Init ==
  /\ age = [n \in Name |-> Silent]
  /\ fired = {}
  /\ stopping = FALSE
  /\ handle = 0
  /\ thread = [m \in PollThread |-> "unborn"]
  /\ todo = [m \in PollThread |-> {}]
  /\ episode = [n \in Name |-> 0]
  /\ alarms = << >>

\* The clock; beyond the threshold an age tells nothing more.
Tick ==
  /\ age' = [n \in Name |->
       IF age[n] \in {Silent, Threshold + 1} THEN age[n] ELSE age[n] + 1]
  /\ UNCHANGED <<fired, episode, threads, alarms>>

StaysFired(n) == fired

\* A live beat re-arms a fired alarm.
Rearmed(n) == fired \ {n}

Kick(n) ==
  /\ episode[n] < MaxKicks
  /\ age' = [age EXCEPT ![n] = 0]
  /\ fired' = Rearmed(n)
  /\ episode' = [episode EXCEPT ![n] = @ + 1]
  /\ UNCHANGED <<threads, alarms>>

-----------------------------------------------------------------------------
Alive(m) == thread[m] \in {"waiting", "scanning", "calling"}

\* start, which does nothing while the poll thread it knows of is alive.
Start ==
  /\ \A m \in PollThread : m = handle => ~Alive(m)
  /\ \E m \in PollThread :
       /\ thread[m] = "unborn"
       /\ thread' = [thread EXCEPT ![m] = "waiting"]
       /\ handle' = m
  /\ stopping' = FALSE
  /\ UNCHANGED <<registry, todo, alarms>>

\* stop, whose join may time out.
Stop ==
  /\ stopping' = TRUE
  /\ handle' = 0
  /\ UNCHANGED <<registry, thread, todo, alarms>>

\* _run: the event is not set when the poll interval ends.
Wake(m) ==
  /\ thread[m] = "waiting" /\ ~stopping
  /\ thread' = [thread EXCEPT ![m] = "scanning"]
  /\ UNCHANGED <<registry, stopping, handle, todo, alarms>>

Exit(m) ==
  /\ thread[m] = "waiting" /\ stopping
  /\ thread' = [thread EXCEPT ![m] = "dead"]
  /\ UNCHANGED <<registry, stopping, handle, todo, alarms>>

FrozenAgain == {n \in Name : age[n] > Threshold}

\* Older than the threshold and not reported yet.
Frozen == {n \in Name : age[n] > Threshold /\ n \notin fired}

\* check_now, under the lock.
Scan(m) ==
  /\ thread[m] = "scanning"
  /\ fired' = fired \cup Frozen
  /\ todo' = [todo EXCEPT ![m] = {<<n, episode[n]>> : n \in Frozen}]
  /\ thread' = [thread EXCEPT ![m] = IF Frozen = {} THEN "waiting" ELSE "calling"]
  /\ UNCHANGED <<age, episode, stopping, handle, alarms>>

DeadIfRaised(m, left, raised) ==
  IF raised THEN "dead" ELSE IF left = {} THEN "waiting" ELSE "calling"

\* The monitor survives its handler.
AfterCall(m, left, raised) == IF left = {} THEN "waiting" ELSE "calling"

\* One call of on_freeze, outside the lock; it may raise.
Call(m) ==
  /\ thread[m] = "calling"
  /\ \E a \in todo[m] : \E raised \in BOOLEAN :
       /\ alarms' = Append(alarms, a)
       /\ todo' = [todo EXCEPT ![m] = @ \ {a}]
       /\ thread' = [thread EXCEPT ![m] = AfterCall(m, todo[m] \ {a}, raised)]
  /\ UNCHANGED <<registry, stopping, handle>>

Poll(m) == Wake(m) \/ Exit(m) \/ Scan(m) \/ Call(m)

Next ==
  \/ Tick
  \/ \E n \in Name : Kick(n)
  \/ Start \/ Stop
  \/ \E m \in PollThread : Poll(m)

Spec == Init /\ [][Next]_vars

\* Time passes and every poll thread gets to run.
FairSpec == Spec /\ WF_vars(Tick) /\ \A m \in PollThread : WF_vars(Poll(m))

-----------------------------------------------------------------------------
(* What must hold.                                                          *)

Raised == {alarms[i] : i \in DOMAIN alarms}

Pending == UNION {todo[m] : m \in PollThread}

\* The module's promise: one freeze episode is reported exactly once, even
\* when the thread of an earlier start is still at work.
OncePerEpisode ==
  /\ \A i, j \in DOMAIN alarms : alarms[i] = alarms[j] => i = j
  /\ Pending \cap Raised = {}
  /\ \A m1, m2 \in PollThread : m1 # m2 => todo[m1] \cap todo[m2] = {}

\* A name marked as reported has been reported for its present episode, or a
\* living thread is about to: a handler that raises loses no alarm.
FiredIsReported ==
  \A n \in fired :
    \/ <<n, episode[n]>> \in Raised
    \/ \E m \in PollThread : Alive(m) /\ <<n, episode[n]>> \in todo[m]

\* A beat that stays away is reported in the end, while the watchdog is not
\* stopped.
FreezeIsReported ==
  \A n \in Name : \A e \in 1 .. MaxKicks :
    (episode[n] = e /\ handle # 0)
      ~> (<<n, e>> \in Raised \/ episode[n] # e \/ handle = 0)

-----------------------------------------------------------------------------
(* The inductive invariant behind OncePerEpisode and FiredIsReported: an     *)
(* alarm, raised or pending, is about a beat there has been, and while that  *)
(* is the last one its name stays marked, so that no scan takes it up again. *)

TypeOK ==
  /\ age \in [Name -> Silent .. Threshold + 1]
  /\ fired \in SUBSET Name
  /\ stopping \in BOOLEAN
  /\ handle \in 0 .. MaxThreads
  /\ thread \in [PollThread -> {"unborn", "waiting", "scanning", "calling", "dead"}]
  /\ todo \in [PollThread -> SUBSET Alarm]
  /\ episode \in [Name -> 0 .. MaxKicks]
  /\ alarms \in Seq(Alarm)

\* Only a thread inside its handler has alarms left to raise.
CallingOnly == \A m \in PollThread : todo[m] # {} => thread[m] = "calling"

\* While an alarm's episode lasts, its name is marked as reported.
MarkedWhileCurrent ==
  \A a \in Raised \cup Pending :
    /\ a[2] <= episode[a[1]]
    /\ a[2] = episode[a[1]] => a[1] \in fired

WatchInv ==
  TypeOK /\ CallingOnly /\ MarkedWhileCurrent /\ OncePerEpisode /\ FiredIsReported
=============================================================================
