--------------------------- MODULE WatchdogProofs ---------------------------
(***************************************************************************)
(* Theorems about Watchdog for any set of names, any threshold and any      *)
(* number of beats and poll threads.                                        *)
(***************************************************************************)
EXTENDS Watchdog, SequenceTheorems, TLAPS

\* One more call of the handler raises one more alarm, and repeats none that
\* was not raised before.
LEMMA RaisedByAppend ==
  ASSUME TypeOK, NEW a \in Alarm, alarms' = Append(alarms, a)
  PROVE  /\ alarms' \in Seq(Alarm)
         /\ Raised' = Raised \cup {a}
         /\ /\ a \notin Raised
            /\ \A i, j \in DOMAIN alarms : alarms[i] = alarms[j] => i = j
            => \A i, j \in DOMAIN alarms' : alarms'[i] = alarms'[j] => i = j
<1>1. /\ alarms \in Seq(Alarm) /\ alarms' \in Seq(Alarm)
      /\ Len(alarms) \in Nat
      /\ DOMAIN alarms = 1 .. Len(alarms)
      /\ DOMAIN alarms' = 1 .. Len(alarms) + 1
      /\ \A i \in 1 .. Len(alarms) : alarms'[i] = alarms[i]
      /\ alarms'[Len(alarms) + 1] = a
  BY AppendProperties, LenProperties DEF TypeOK
<1>2. Raised' = Raised \cup {a}
  <2>1. \A i \in DOMAIN alarms' : alarms'[i] \in Raised \cup {a}
    BY <1>1 DEF Raised
  <2>2. \A i \in DOMAIN alarms : alarms[i] \in Raised'
    BY <1>1 DEF Raised
  <2>3. a \in Raised'
    BY <1>1 DEF Raised
  <2>4. QED
    BY <2>1, <2>2, <2>3 DEF Raised
<1>3. QED
  BY <1>1, <1>2 DEF Raised

\* The alarms pending, when one thread's list changes.
LEMMA PendingByThread ==
  ASSUME TypeOK, NEW m \in PollThread, NEW left,
         todo' = [todo EXCEPT ![m] = left]
  PROVE  /\ todo'[m] = left
         /\ \A k \in PollThread \ {m} : todo'[k] = todo[k]
         /\ Pending' \subseteq Pending \cup left
         /\ left \subseteq Pending'
         /\ todo[m] \subseteq Pending
BY DEF Pending, TypeOK

-----------------------------------------------------------------------------
LEMMA WatchInitTyped == Init => TypeOK
<1> SUFFICES ASSUME Init PROVE TypeOK
  OBVIOUS
<1>1. age \in [Name -> Silent .. Threshold + 1]
  BY WatchdogAssumption DEF Init, Silent
<1>2. todo \in [PollThread -> SUBSET Alarm] /\ episode \in [Name -> 0 .. MaxKicks]
  BY WatchdogAssumption DEF Init
<1>3. thread \in [PollThread -> {"unborn", "waiting", "scanning", "calling", "dead"}]
  BY DEF Init
<1>4. fired \in SUBSET Name /\ handle \in 0 .. MaxThreads /\ alarms \in Seq(Alarm)
  BY WatchdogAssumption DEF Init
<1>5. QED
  BY <1>1, <1>2, <1>3, <1>4 DEF Init, TypeOK

\* The shape of the registry and of the threads.
THEOREM WatchTyped == Spec => []TypeOK
<1>1. Init => TypeOK
  BY WatchInitTyped
<1>2. TypeOK /\ [Next]_vars => TypeOK'
  <2> SUFFICES ASSUME TypeOK, [Next]_vars PROVE TypeOK'
    OBVIOUS
  <2> USE WatchdogAssumption DEF registry, threads
  <2>1. CASE Tick
    BY <2>1 DEF Tick, TypeOK, Silent
  <2>2. ASSUME NEW n \in Name, Kick(n) PROVE TypeOK'
    BY <2>2 DEF Kick, Rearmed, TypeOK, Silent
  <2>3. CASE Start
    <3>1. PICK m \in PollThread : thread' = [thread EXCEPT ![m] = "waiting"] /\ handle' = m
      BY <2>3 DEF Start
    <3>2. handle' \in 0 .. MaxThreads
      BY <3>1 DEF PollThread
    <3>3. QED
      BY <2>3, <3>1, <3>2 DEF Start, TypeOK
  <2>4. CASE Stop
    BY <2>4 DEF Stop, TypeOK
  <2>5. ASSUME NEW m \in PollThread, Wake(m) PROVE TypeOK'
    BY <2>5 DEF Wake, TypeOK
  <2>6. ASSUME NEW m \in PollThread, Exit(m) PROVE TypeOK'
    BY <2>6 DEF Exit, TypeOK
  <2>7. ASSUME NEW m \in PollThread, Scan(m) PROVE TypeOK'
    <3>1. {<<n, episode[n]>> : n \in Frozen} \in SUBSET Alarm
      BY DEF Frozen, Alarm, TypeOK
    <3>2. QED
      BY <2>7, <3>1 DEF Scan, Frozen, TypeOK
  <2>8. ASSUME NEW m \in PollThread, Call(m) PROVE TypeOK'
    <3>1. PICK a \in todo[m], raised \in BOOLEAN :
            /\ alarms' = Append(alarms, a)
            /\ todo' = [todo EXCEPT ![m] = todo[m] \ {a}]
            /\ thread' = [thread EXCEPT ![m] = AfterCall(m, todo[m] \ {a}, raised)]
      BY <2>8 DEF Call
    <3>2. a \in Alarm /\ todo' \in [PollThread -> SUBSET Alarm]
      BY <3>1 DEF TypeOK
    <3>3. alarms' \in Seq(Alarm)
      BY <3>1, <3>2, RaisedByAppend
    <3>4. QED
      BY <2>8, <3>1, <3>2, <3>3 DEF Call, AfterCall, TypeOK
  <2>9. CASE UNCHANGED vars
    BY <2>9 DEF vars, TypeOK
  <2>10. QED
    BY <2>1, <2>2, <2>3, <2>4, <2>5, <2>6, <2>7, <2>8, <2>9 DEF Next, Poll
<1>3. QED
  BY <1>1, <1>2, PTL DEF Spec

-----------------------------------------------------------------------------
(* The inductive invariant, WatchInv.                                       *)

\* A step that leaves the alarms, the lists and the registry alone, and kills
\* no thread inside its handler.
LEMMA ThreadsOnly ==
  ASSUME WatchInv, TypeOK', UNCHANGED <<fired, episode, todo, alarms>>,
         \A m \in PollThread : thread[m] = "calling" => thread'[m] = "calling"
  PROVE  WatchInv'
<1>1. Raised' = Raised /\ Pending' = Pending
  BY DEF Raised, Pending
<1>2. CallingOnly' /\ MarkedWhileCurrent' /\ OncePerEpisode'
  BY <1>1 DEF WatchInv, CallingOnly, MarkedWhileCurrent, OncePerEpisode
<1>3. FiredIsReported'
  <2> SUFFICES ASSUME NEW n \in fired,
                      NEW m \in PollThread, <<n, episode[n]>> \in todo[m]
               PROVE  Alive(m)'
    BY <1>1 DEF WatchInv, FiredIsReported
  <2> QED
    BY DEF WatchInv, CallingOnly, Alive
<1>4. QED
  BY <1>2, <1>3 DEF WatchInv

\* A beat begins an episode no alarm is about yet, and re-arms its name.
LEMMA KickStep ==
  ASSUME WatchInv, TypeOK', NEW n \in Name, Kick(n)
  PROVE  WatchInv'
<1> USE DEF Kick, Rearmed, threads
<1>1. /\ Raised' = Raised /\ Pending' = Pending
      /\ Raised \cup Pending \subseteq Alarm
  BY DEF Raised, Pending, WatchInv, TypeOK
<1>2. episode'[n] = episode[n] + 1 /\ episode[n] \in Nat
  BY WatchdogAssumption DEF WatchInv, TypeOK
<1>3. \A k \in Name \ {n} : episode'[k] = episode[k]
  BY DEF WatchInv, TypeOK
<1>4. MarkedWhileCurrent'
  <2> SUFFICES ASSUME NEW a \in Raised \cup Pending
               PROVE  /\ a[2] <= episode'[a[1]]
                      /\ a[2] = episode'[a[1]] => a[1] \in fired'
    BY <1>1 DEF MarkedWhileCurrent
  <2>1. /\ a[1] \in Name /\ a[2] \in Nat
        /\ a[2] <= episode[a[1]]
        /\ a[2] = episode[a[1]] => a[1] \in fired
    BY <1>1, WatchdogAssumption DEF Alarm, WatchInv, MarkedWhileCurrent
  <2>2. CASE a[1] = n
    BY <1>2, <2>1, <2>2
  <2>3. CASE a[1] # n
    BY <1>3, <2>1, <2>3
  <2>4. QED
    BY <2>2, <2>3
<1>5. CallingOnly' /\ OncePerEpisode'
  BY <1>1 DEF WatchInv, CallingOnly, OncePerEpisode
<1>6. FiredIsReported'
  <2> SUFFICES ASSUME NEW k \in fired \ {n}
               PROVE  \/ <<k, episode'[k]>> \in Raised
                      \/ \E m \in PollThread : Alive(m)' /\ <<k, episode'[k]>> \in todo[m]
    BY <1>1 DEF FiredIsReported
  <2>1. episode'[k] = episode[k]
    BY <1>3 DEF WatchInv, TypeOK
  <2> QED
    BY <2>1 DEF WatchInv, FiredIsReported, Alive
<1>7. QED
  BY <1>4, <1>5, <1>6 DEF WatchInv

\* A scan takes up names nobody has marked, so their present episode is
\* neither raised nor pending, and the thread that marks them will raise them.
LEMMA ScanStep ==
  ASSUME WatchInv, TypeOK', NEW m \in PollThread, Scan(m)
  PROVE  WatchInv'
<1> DEFINE new == {<<n, episode[n]>> : n \in Frozen}
<1>1. /\ thread[m] = "scanning" /\ fired' = fired \cup Frozen
      /\ todo' = [todo EXCEPT ![m] = new]
      /\ thread' = [thread EXCEPT ![m] = IF Frozen = {} THEN "waiting" ELSE "calling"]
      /\ episode' = episode /\ alarms' = alarms
  BY DEF Scan
<1>2. /\ todo'[m] = new /\ \A k \in PollThread \ {m} : todo'[k] = todo[k]
      /\ Pending' \subseteq Pending \cup new
  BY <1>1, PendingByThread DEF WatchInv
<1>3. todo[m] = {} /\ Raised' = Raised
  BY <1>1 DEF WatchInv, CallingOnly, Raised
<1>4. Frozen \subseteq Name /\ Frozen \cap fired = {} /\ (new = {} <=> Frozen = {})
  BY DEF Frozen
<1>5. \A a \in new : a \notin Raised /\ a \notin Pending
  BY <1>4 DEF WatchInv, MarkedWhileCurrent
<1> HIDE DEF new
<1>6. CallingOnly'
  BY <1>1, <1>2, <1>4 DEF WatchInv, TypeOK, CallingOnly
<1>7. MarkedWhileCurrent'
  <2>1. \A a \in new : a[2] = episode[a[1]] /\ a[1] \in Frozen /\ episode[a[1]] \in Int
    BY <1>4 DEF new, WatchInv, TypeOK
  <2>2. QED
    BY <1>1, <1>2, <1>3, <2>1 DEF WatchInv, MarkedWhileCurrent
<1>8. OncePerEpisode'
  <2>1. Pending' \cap Raised' = {}
    BY <1>2, <1>3, <1>5 DEF WatchInv, OncePerEpisode
  <2>2. \A m1, m2 \in PollThread : m1 # m2 => todo'[m1] \cap todo'[m2] = {}
    <3> SUFFICES ASSUME NEW k \in PollThread \ {m}
                 PROVE  new \cap todo[k] = {}
      BY <1>2 DEF WatchInv, OncePerEpisode
    <3> QED
      BY <1>5 DEF Pending
  <2>3. QED
    BY <1>1, <2>1, <2>2 DEF WatchInv, OncePerEpisode
<1>9. FiredIsReported'
  <2> SUFFICES ASSUME NEW n \in fired \cup Frozen
               PROVE  \/ <<n, episode[n]>> \in Raised
                      \/ \E k \in PollThread : Alive(k)' /\ <<n, episode[n]>> \in todo'[k]
    BY <1>1, <1>3 DEF FiredIsReported
  <2>1. CASE n \in Frozen
    <3>1. <<n, episode[n]>> \in new /\ Alive(m)'
      BY <1>1, <2>1 DEF new, Alive, WatchInv, TypeOK
    <3>2. QED
      BY <1>2, <3>1
  <2>2. CASE n \notin Frozen
    <3>1. \/ <<n, episode[n]>> \in Raised
          \/ \E k \in PollThread : Alive(k) /\ <<n, episode[n]>> \in todo[k]
      BY <2>2 DEF WatchInv, FiredIsReported
    <3>2. ASSUME NEW k \in PollThread, Alive(k), <<n, episode[n]>> \in todo[k]
          PROVE  Alive(k)' /\ <<n, episode[n]>> \in todo'[k]
      BY <1>1, <1>2, <1>3, <3>2 DEF Alive, WatchInv, TypeOK
    <3>3. QED
      BY <3>1, <3>2
  <2>3. QED
    BY <2>1, <2>2
<1>10. QED
  BY <1>6, <1>7, <1>8, <1>9 DEF WatchInv

\* A call turns a pending alarm into a raised one, whether or not it raises.
LEMMA CallStep ==
  ASSUME WatchInv, TypeOK', NEW m \in PollThread, Call(m)
  PROVE  WatchInv'
<1>1. PICK a \in todo[m], raised \in BOOLEAN :
        /\ alarms' = Append(alarms, a)
        /\ todo' = [todo EXCEPT ![m] = todo[m] \ {a}]
        /\ thread' = [thread EXCEPT ![m] = AfterCall(m, todo[m] \ {a}, raised)]
  BY DEF Call
<1> DEFINE left == todo[m] \ {a}
<1>2. /\ thread[m] = "calling" /\ fired' = fired /\ episode' = episode
      /\ a \in Alarm /\ a \in Pending
  BY <1>1 DEF Call, registry, WatchInv, TypeOK, Pending
<1>3. /\ todo'[m] = left /\ \A k \in PollThread \ {m} : todo'[k] = todo[k]
      /\ Pending' \subseteq Pending \cup left /\ left \subseteq Pending
  <2>1. todo' = [todo EXCEPT ![m] = left] /\ TypeOK
    BY <1>1 DEF WatchInv
  <2>2. QED
    BY <2>1, PendingByThread
<1>4. a \notin Raised
  BY <1>2 DEF WatchInv, OncePerEpisode
<1>5. /\ Raised' = Raised \cup {a}
      /\ \A i, j \in DOMAIN alarms' : alarms'[i] = alarms'[j] => i = j
  BY <1>1, <1>2, <1>4, RaisedByAppend DEF WatchInv, OncePerEpisode
<1>6. /\ \A k \in PollThread \ {m} : thread'[k] = thread[k]
      /\ thread'[m] \in {"waiting", "calling"}
      /\ left # {} => thread'[m] = "calling"
  BY <1>1 DEF AfterCall, WatchInv, TypeOK
<1>7. a \notin Pending'
  BY <1>1, <1>3 DEF Pending, WatchInv, OncePerEpisode
<1>8. CallingOnly'
  BY <1>3, <1>6 DEF WatchInv, CallingOnly
<1>9. MarkedWhileCurrent'
  BY <1>2, <1>3, <1>5 DEF WatchInv, MarkedWhileCurrent
<1>10. OncePerEpisode'
  <2>1. Pending' \cap Raised' = {}
    BY <1>3, <1>5, <1>7 DEF WatchInv, OncePerEpisode
  <2>2. \A k \in PollThread : todo'[k] \subseteq todo[k]
    BY <1>3
  <2>3. QED
    BY <1>5, <2>1, <2>2 DEF WatchInv, OncePerEpisode
<1>11. FiredIsReported'
  <2> SUFFICES ASSUME NEW n \in fired, <<n, episode[n]>> \notin Raised, <<n, episode[n]>> # a
               PROVE  \E k \in PollThread : Alive(k)' /\ <<n, episode[n]>> \in todo'[k]
    BY <1>2, <1>5 DEF FiredIsReported
  <2>1. PICK k \in PollThread : Alive(k) /\ <<n, episode[n]>> \in todo[k]
    BY DEF WatchInv, FiredIsReported
  <2>2. QED
    BY <1>3, <1>6, <2>1 DEF Alive
<1>12. QED
  BY <1>8, <1>9, <1>10, <1>11 DEF WatchInv

LEMMA WatchInit == Init => WatchInv
<1> SUFFICES ASSUME Init, TypeOK PROVE WatchInv
  BY WatchInitTyped
<1>1. Raised = {} /\ Pending = {}
  BY DEF Init, Raised, Pending
<1>2. QED
  BY <1>1 DEF Init, WatchInv, CallingOnly, MarkedWhileCurrent, OncePerEpisode, FiredIsReported

LEMMA WatchStep == WatchInv /\ TypeOK' /\ [Next]_vars => WatchInv'
<1> SUFFICES ASSUME WatchInv, TypeOK', [Next]_vars PROVE WatchInv'
  OBVIOUS
<1> USE DEF registry, threads
<1>1. CASE Tick
  BY <1>1, ThreadsOnly DEF Tick
<1>2. ASSUME NEW n \in Name, Kick(n) PROVE WatchInv'
  BY <1>2, KickStep
<1>3. CASE Start
  <2>1. PICK m \in PollThread :
          thread[m] = "unborn" /\ thread' = [thread EXCEPT ![m] = "waiting"]
    BY <1>3 DEF Start
  <2>2. QED
    BY <1>3, <2>1, ThreadsOnly DEF Start, WatchInv, TypeOK
<1>4. CASE Stop
  BY <1>4, ThreadsOnly DEF Stop
<1>5. ASSUME NEW m \in PollThread, Wake(m) PROVE WatchInv'
  BY <1>5, ThreadsOnly DEF Wake, WatchInv, TypeOK
<1>6. ASSUME NEW m \in PollThread, Exit(m) PROVE WatchInv'
  BY <1>6, ThreadsOnly DEF Exit, WatchInv, TypeOK
<1>7. ASSUME NEW m \in PollThread, Scan(m) PROVE WatchInv'
  BY <1>7, ScanStep
<1>8. ASSUME NEW m \in PollThread, Call(m) PROVE WatchInv'
  BY <1>8, CallStep
<1>9. CASE UNCHANGED vars
  BY <1>9, ThreadsOnly DEF vars
<1>10. QED
  BY <1>1, <1>2, <1>3, <1>4, <1>5, <1>6, <1>7, <1>8, <1>9 DEF Next, Poll

\* One freeze episode is reported at most once, by whichever of the poll
\* threads that overlap (watchdog.py: exactly once).
THEOREM ReportedOnce == Spec => []OncePerEpisode
<1>1. WatchInv => OncePerEpisode
  BY DEF WatchInv
<1>2. QED
  BY <1>1, WatchTyped, WatchInit, WatchStep, PTL DEF Spec

\* A name that is marked as reported has been, or a living thread still has
\* to: no alarm is lost between the scan and the handler.
THEOREM NoAlarmLost == Spec => []FiredIsReported
<1>1. WatchInv => FiredIsReported
  BY DEF WatchInv
<1>2. QED
  BY <1>1, WatchTyped, WatchInit, WatchStep, PTL DEF Spec
=============================================================================
