-------------------------- MODULE GatekeeperProofs --------------------------
(***************************************************************************)
(* Theorems about Gatekeeper for any quota, bucket, breaker and schedule.   *)
(***************************************************************************)
EXTENDS Gatekeeper, SequenceTheorems, TLAPS

\* One more call, at the end.
LEMMA AppendedTime ==
  ASSUME NEW s \in Seq(Nat), NEW t \in Nat
  PROVE  /\ Append(s, t) \in Seq(Nat)
         /\ Len(s) \in Nat
         /\ Len(Append(s, t)) = Len(s) + 1
         /\ DOMAIN s = 1 .. Len(s)
         /\ DOMAIN Append(s, t) = 1 .. Len(s) + 1
         /\ \A i \in 1 .. Len(s) : Append(s, t)[i] = s[i] /\ s[i] \in Nat
         /\ Append(s, t)[Len(s) + 1] = t
BY AppendProperties, LenProperties, ElementOfSeq

\* The calls left in the window are the last of those there were.
LEMMA RecentIsSuffix ==
  ASSUME TypeOK, NEW n \in 0 .. Len(calls)
  PROVE  /\ Recent(n) \in Seq(Nat)
         /\ Len(Recent(n)) = Len(calls) - n
         /\ DOMAIN Recent(n) = 1 .. Len(calls) - n
         /\ \A i \in 1 .. Len(calls) - n : Recent(n)[i] = calls[n + i]
<1>1. calls \in Seq(Nat) /\ Len(calls) \in Nat
  BY LenProperties DEF TypeOK
<1>2. \A i \in n + 1 .. Len(calls) : calls[i] \in Nat
  BY <1>1, ElementOfSeq
<1>3. /\ Recent(n) \in Seq(Nat)
      /\ Len(Recent(n)) = IF n + 1 <= Len(calls) THEN Len(calls) - (n + 1) + 1 ELSE 0
      /\ \A i \in 1 .. Len(calls) - (n + 1) + 1 : Recent(n)[i] = calls[n + 1 + i - 1]
  BY <1>1, <1>2, SubSeqProperties DEF Recent
<1>4. QED
  BY <1>1, <1>3, LenProperties

\* The refilled bucket: what was in it and what has come back since, or full.
LEMMA RefilledBounds ==
  ASSUME GateInv
  PROVE  /\ Refilled \in Nat /\ Refilled <= Capacity
         /\ Refill * (now - lastRefill) \in Nat
         /\ Refilled <= tokens + Refill * (now - lastRefill)
<1>1. /\ tokens \in Nat /\ lastRefill \in Nat /\ now \in Nat /\ lastRefill <= now
      /\ Refill \in Nat /\ Capacity \in Nat
  BY GatekeeperAssumption DEF GateInv, TypeOK, BucketIsSound
<1>2. now - lastRefill \in Nat
  BY <1>1
<1>3. Refill * (now - lastRefill) \in Nat
  BY <1>1, <1>2
<1>4. (now - lastRefill) * Refill = Refill * (now - lastRefill)
  BY <1>1, <1>2
<1>5. QED
  BY <1>1, <1>3, <1>4 DEF Refilled

-----------------------------------------------------------------------------
\* The shape of the gates' memory.
LEMMA GateTypeStep == GateInv /\ [Next]_vars => TypeOK'
<1> SUFFICES ASSUME GateInv, [Next]_vars PROVE TypeOK'
  OBVIOUS
<1> USE DEF gates, breaker
<1>0. TypeOK
  BY DEF GateInv
<1>1. CASE Tick
  BY <1>0, <1>1 DEF Tick, TypeOK
<1>2. CASE RefuseOpen
  BY <1>0, <1>2 DEF RefuseOpen, vars, TypeOK
<1>3. CASE RefuseQuota
  BY <1>0, <1>3, RecentIsSuffix DEF RefuseQuota, MarkProbe, TypeOK
<1>4. CASE RefuseRate
  BY <1>0, <1>4, RecentIsSuffix, RefilledBounds DEF RefuseRate, MarkProbe, TypeOK
<1>5. CASE Admit
  <2>1. PICK n \in 0 .. Len(calls) : calls' = Append(Recent(n), now)
    BY <1>5 DEF Admit, Counted
  <2>2. calls' \in Seq(Nat) /\ attempts' \in Seq(Nat)
    BY <1>0, <1>5, <2>1, RecentIsSuffix, AppendedTime DEF Admit, TypeOK
  <2>3. tokens' \in Nat
    BY <1>5, RefilledBounds, GatekeeperAssumption DEF Admit
  <2>4. QED
    BY <1>0, <1>5, <2>2, <2>3 DEF Admit, MarkProbe, TypeOK
<1>6. CASE Fail
  <2>1. openedAt' \in Nat \cup {Never} /\ halfOpen' \in BOOLEAN
    <3>1. CASE halfOpen \/ failures' >= Threshold
      <4>1. openedAt' = now /\ halfOpen' = FALSE
        BY <1>6, <3>1 DEF Fail
      <4>2. QED
        BY <1>0, <4>1 DEF TypeOK
    <3>2. CASE ~(halfOpen \/ failures' >= Threshold)
      <4>1. openedAt' = openedAt /\ halfOpen' = halfOpen
        BY <1>6, <3>2 DEF Fail
      <4>2. QED
        BY <1>0, <4>1 DEF TypeOK
    <3>3. QED
      BY <3>1, <3>2
  <2>2. /\ running' = FALSE /\ failures' = failures + 1
        /\ UNCHANGED <<now, calls, tokens, lastRefill, attempts>>
    BY <1>6 DEF Fail
  <2>3. failures' \in Nat
    BY <1>0, <2>2 DEF TypeOK
  <2>4. QED
    BY <1>0, <2>1, <2>2, <2>3, Zenon DEF TypeOK
<1>7. CASE Succeed
  BY <1>0, <1>7 DEF Succeed, TypeOK
<1>8. CASE UNCHANGED vars
  BY <1>0, <1>8 DEF vars, TypeOK
<1>9. QED
  BY <1>1, <1>2, <1>3, <1>4, <1>5, <1>6, <1>7, <1>8 DEF Next

\* A step that lets some calls out of the window, refills the bucket or not,
\* and makes no call.
LEMMA RefusalKeepsGates ==
  ASSUME GateInv, TypeOK', UNCHANGED <<now, attempts>>,
         NEW n \in 0 .. Len(calls), Popped(n), calls' = Recent(n)
  PROVE  WindowIsSuffix'
<1>1. /\ Len(calls) \in Nat /\ Len(attempts) \in Nat
      /\ DOMAIN calls = 1 .. Len(calls)
  BY LenProperties DEF GateInv, TypeOK
<1>2. /\ Len(calls') = Len(calls) - n
      /\ DOMAIN calls' = 1 .. Len(calls) - n
      /\ \A i \in 1 .. Len(calls) - n : calls'[i] = calls[n + i]
  BY RecentIsSuffix DEF GateInv
<1> DEFINE popped == Len(attempts) - Len(calls)
<1>3. /\ popped >= 0
      /\ \A i \in 1 .. popped : now - attempts[i] >= Day
      /\ \A i \in 1 .. Len(calls) : calls[i] = attempts[popped + i]
  BY <1>1 DEF GateInv, WindowIsSuffix, OnlyCallsCounted
<1>4. \A i \in 1 .. popped + n : now - attempts[i] >= Day
  <2> SUFFICES ASSUME NEW i \in popped + 1 .. popped + n
               PROVE  now - attempts[i] >= Day
    BY <1>1, <1>3
  <2>1. i - popped \in 1 .. n /\ i - popped \in 1 .. Len(calls) /\ popped + (i - popped) = i
    BY <1>1
  <2>2. calls[i - popped] = attempts[i]
    BY <1>3, <2>1
  <2>3. QED
    BY <2>1, <2>2 DEF Popped
<1>5. \A i \in 1 .. Len(calls) - n : calls'[i] = attempts[popped + n + i]
  BY <1>1, <1>2, <1>3
<1>6. Len(attempts') - Len(calls') = popped + n /\ popped + n >= 0
  BY <1>1, <1>2, <1>3
<1>7. QED
  BY <1>2, <1>4, <1>5, <1>6 DEF WindowIsSuffix, OnlyCallsCounted

\* The bucket after a refill at the present time, less what was taken out.
LEMMA RefillIsSound ==
  ASSUME GateInv, NEW i \in DOMAIN attempts
  PROVE  /\ attempts[i] \in Nat /\ attempts[i] <= now
         /\ (Len(attempts) - i + 1) * Unit + Refilled <= Capacity + Refill * (now - attempts[i])
<1>1. /\ tokens \in Nat /\ lastRefill \in Nat /\ now \in Nat /\ lastRefill <= now
      /\ attempts \in Seq(Nat) /\ Len(attempts) \in Nat
      /\ i \in 1 .. Len(attempts) /\ attempts[i] \in Nat /\ attempts[i] <= lastRefill
      /\ (Len(attempts) - i + 1) * Unit + tokens
           <= Capacity + Refill * (lastRefill - attempts[i])
  BY LenProperties, ElementOfSeq DEF GateInv, TypeOK, BucketIsSound
<1>2. Refill \in Nat /\ Capacity \in Nat /\ Unit \in Nat
  BY GatekeeperAssumption
<1>3. /\ Refill * (now - lastRefill) \in Nat
      /\ Refill * (now - attempts[i]) = Refill * (now - lastRefill) + Refill * (lastRefill - attempts[i])
      /\ Refill * (lastRefill - attempts[i]) \in Nat
  <2> DEFINE x == attempts[i]
             y == lastRefill
             z == now
  <2>1. Refill \in Nat /\ x \in Nat /\ y \in Nat /\ z \in Nat /\ x <= y /\ y <= z
    BY <1>1, <1>2
  <2> HIDE DEF x, y, z
  <2>2. z - y \in Nat /\ y - x \in Nat
    BY <2>1
  <2>3. Refill * (z - y) \in Nat /\ Refill * (y - x) \in Nat
    BY <2>1, <2>2
  <2>4. Refill * (z - x) = Refill * (z - y) + Refill * (y - x)
    BY <2>1, <2>2
  <2>5. QED
    BY <2>3, <2>4 DEF x, y, z
<1>4. (Len(attempts) - i + 1) * Unit \in Int
  BY <1>1, <1>2
<1>5. Refilled \in Nat /\ Refilled <= tokens + Refill * (now - lastRefill)
  BY RefilledBounds
<1> DEFINE spent == (Len(attempts) - i + 1) * Unit
           since == Refill * (now - lastRefill)
           before == Refill * (lastRefill - attempts[i])
           all == Refill * (now - attempts[i])
<1>6. /\ spent \in Int /\ since \in Nat /\ before \in Nat /\ all = since + before
      /\ spent + tokens <= Capacity + before /\ Refilled <= tokens + since
  BY <1>1, <1>3, <1>4, <1>5
<1>7. spent + Refilled <= Capacity + all
  <2> HIDE DEF spent, since, before, all
  <2> QED
    BY <1>1, <1>2, <1>5, <1>6
<1>8. QED
  BY <1>1, <1>7

\* Without a call, the three promises are about what they were about.
LEMMA NoCallStep ==
  ASSUME GateInv, TypeOK', attempts' = attempts, now' >= now,
         WindowIsSuffix', BucketIsSound',
         UNCHANGED <<failures, openedAt, running>>, halfOpen => halfOpen',
         halfOpen' => openedAt # Never
  PROVE  GateInv'
<1>1. QuotaInEveryWindow' /\ RateHolds'
  BY DEF GateInv, QuotaInEveryWindow, RateHolds
<1>2. BreakerHolds'
  BY DEF GateInv, BreakerHolds
<1>3. openedAt' <= now'
  BY DEF GateInv, TypeOK, Never
<1>4. running' /\ openedAt' # Never => halfOpen'
  BY DEF GateInv
<1>5. QED
  BY <1>1, <1>2, <1>3, <1>4 DEF GateInv

LEMMA TickStep == ASSUME GateInv, TypeOK', Tick PROVE GateInv'
<1> USE DEF Tick, gates, breaker
<1>1. now \in Nat /\ now' = now + 1
  BY DEF GateInv, TypeOK
<1>2. WindowIsSuffix'
  <2> DEFINE popped == Len(attempts) - Len(calls)
  <2>1. \A i \in 1 .. popped : attempts[i] \in Nat /\ now' - attempts[i] >= Day
    <3> SUFFICES ASSUME NEW i \in 1 .. popped
                 PROVE  attempts[i] \in Nat /\ now' - attempts[i] >= Day
      OBVIOUS
    <3>1. now - attempts[i] >= Day
      BY DEF GateInv, WindowIsSuffix, OnlyCallsCounted
    <3>2. attempts[i] \in Nat
      BY LenProperties, ElementOfSeq DEF GateInv, TypeOK
    <3>3. QED
      BY <1>1, <3>1, <3>2, GatekeeperAssumption
  <2>2. QED
    BY <2>1 DEF GateInv, WindowIsSuffix, OnlyCallsCounted
<1>3. BucketIsSound'
  BY <1>1 DEF GateInv, TypeOK, BucketIsSound
<1>4. halfOpen' => openedAt # Never
  BY DEF GateInv, BreakerHolds
<1>5. QED
  BY <1>1, <1>2, <1>3, <1>4, NoCallStep

LEMMA RefuseQuotaStep == ASSUME GateInv, TypeOK', RefuseQuota PROVE GateInv'
<1>1. WindowIsSuffix'
  BY RefusalKeepsGates DEF RefuseQuota
<1>2. BucketIsSound'
  BY DEF RefuseQuota, GateInv, BucketIsSound
<1>3. (halfOpen => halfOpen') /\ (halfOpen' => openedAt # Never)
  BY DEF RefuseQuota, MarkProbe, GateInv, BreakerHolds
<1>4. now' >= now
  BY DEF RefuseQuota, GateInv, TypeOK
<1>5. QED
  BY <1>1, <1>2, <1>3, <1>4, NoCallStep DEF RefuseQuota

LEMMA RefuseRateStep == ASSUME GateInv, TypeOK', RefuseRate PROVE GateInv'
<1>1. WindowIsSuffix'
  BY RefusalKeepsGates DEF RefuseRate
<1>2. BucketIsSound'
  <2>1. tokens' = Refilled /\ lastRefill' = now /\ now' = now /\ attempts' = attempts
    BY DEF RefuseRate
  <2>2. Refilled <= Capacity /\ now <= now
    BY RefilledBounds DEF GateInv, TypeOK
  <2>3. \A i \in DOMAIN attempts :
          /\ attempts[i] <= now
          /\ (Len(attempts) - i + 1) * Unit + Refilled <= Capacity + Refill * (now - attempts[i])
    BY RefillIsSound
  <2>4. QED
    BY <2>1, <2>2, <2>3 DEF BucketIsSound
<1>3. (halfOpen => halfOpen') /\ (halfOpen' => openedAt # Never)
  BY DEF RefuseRate, MarkProbe, GateInv, BreakerHolds
<1>4. now' >= now
  BY DEF RefuseRate, GateInv, TypeOK
<1>5. QED
  BY <1>1, <1>2, <1>3, <1>4, NoCallStep DEF RefuseRate

-----------------------------------------------------------------------------
(* An admitted call.                                                        *)

\* Each gate lets the call through on the count it then makes of it.
LEMMA AdmitStep == ASSUME GateInv, TypeOK', Admit PROVE GateInv'
<1> DEFINE a == Len(attempts)
<1>1. /\ a \in Nat /\ Len(calls) \in Nat /\ now \in Nat
      /\ attempts' = Append(attempts, now) /\ Len(attempts') = a + 1
      /\ DOMAIN attempts = 1 .. a /\ DOMAIN attempts' = 1 .. a + 1
      /\ \A i \in 1 .. a : attempts'[i] = attempts[i] /\ attempts[i] \in Nat
      /\ attempts'[a + 1] = now
      /\ now' = now
  BY AppendedTime, LenProperties DEF GateInv, TypeOK, Admit
<1>2. PICK n \in 0 .. Len(calls) :
        Popped(n) /\ Len(calls) - n < Quota /\ calls' = Append(Recent(n), now)
  BY DEF Admit, Counted
<1> DEFINE popped == a - Len(calls)
<1>3. /\ popped \in Nat
      /\ \A i \in 1 .. popped + n : now - attempts[i] >= Day
      /\ \A i \in 1 .. Len(calls) : calls[i] = attempts[popped + i]
  <2>1. /\ popped >= 0
        /\ \A i \in 1 .. popped : now - attempts[i] >= Day
        /\ \A i \in 1 .. Len(calls) : calls[i] = attempts[popped + i]
    BY <1>1, LenProperties DEF GateInv, TypeOK, WindowIsSuffix, OnlyCallsCounted
  <2>2. ASSUME NEW i \in popped + 1 .. popped + n
        PROVE  now - attempts[i] >= Day
    <3>1. i - popped \in 1 .. n /\ i - popped \in 1 .. Len(calls) /\ popped + (i - popped) = i
      BY <1>1
    <3>2. calls[i - popped] = attempts[i]
      BY <2>1, <3>1
    <3>3. QED
      BY <3>1, <3>2, <1>2 DEF Popped
  <2>3. QED
    BY <1>1, <2>1, <2>2
<1>4. /\ Len(calls') = Len(calls) - n + 1
      /\ DOMAIN calls' = 1 .. Len(calls) - n + 1
      /\ \A i \in 1 .. Len(calls) - n : calls'[i] = calls[n + i]
      /\ calls'[Len(calls) - n + 1] = now
  BY <1>1, <1>2, RecentIsSuffix, AppendedTime DEF GateInv
<1>5. WindowIsSuffix'
  <2>1. Len(attempts') - Len(calls') = popped + n /\ popped + n >= 0 /\ popped + n <= a
    BY <1>1, <1>3, <1>4
  <2>2. \A i \in 1 .. popped + n : now' - attempts'[i] >= Day
    BY <1>1, <1>3, <2>1
  <2>3. ASSUME NEW i \in 1 .. Len(calls) - n + 1
        PROVE  calls'[i] = attempts'[popped + n + i]
    <3>1. CASE i = Len(calls) - n + 1
      BY <1>1, <1>4, <3>1
    <3>2. CASE i # Len(calls) - n + 1
      <4>1. i \in 1 .. Len(calls) - n /\ n + i \in 1 .. Len(calls) /\ popped + n + i \in 1 .. a
        BY <1>1, <1>3, <3>2
      <4>2. popped + (n + i) = popped + n + i
        BY <1>1, <1>3
      <4>3. QED
        BY <1>1, <1>3, <1>4, <4>1, <4>2
    <3>3. QED
      BY <3>1, <3>2
  <2>4. QED
    BY <1>4, <2>1, <2>2, <2>3 DEF WindowIsSuffix, OnlyCallsCounted
<1>6. /\ tokens' = Refilled - Unit /\ lastRefill' = now
      /\ Refilled \in Nat /\ Refilled <= Capacity /\ tokens' \in Nat
      /\ Unit \in Nat /\ Capacity \in Nat /\ Refill \in Nat /\ Quota \in Nat /\ Day \in Nat
  BY RefilledBounds, GatekeeperAssumption DEF Admit, TypeOK
<1>7. ASSUME NEW i \in 1 .. a + 1
      PROVE  /\ attempts'[i] \in Nat /\ attempts'[i] <= now
             /\ (a + 1 - i + 1) * Unit + tokens' <= Capacity + Refill * (now - attempts'[i])
  <2>1. CASE i = a + 1
    <3>1. (a + 1 - i + 1) * Unit = Unit /\ Refill * (now - attempts'[i]) = 0
      <4>1. a + 1 - i + 1 = 1 /\ now - attempts'[i] = 0
        BY <1>1, <2>1
      <4>2. 1 * Unit = Unit /\ Refill * 0 = 0
        BY <1>6
      <4>3. QED
        BY <4>1, <4>2
    <3>2. QED
      BY <1>1, <1>6, <2>1, <3>1
  <2>2. CASE i # a + 1
    <3>1. i \in 1 .. a /\ i \in DOMAIN attempts /\ attempts'[i] = attempts[i]
      BY <1>1, <2>2
    <3>2. /\ attempts[i] \in Nat /\ attempts[i] <= now
          /\ (a - i + 1) * Unit + Refilled <= Capacity + Refill * (now - attempts[i])
      BY <3>1, RefillIsSound
    <3>3. (a + 1 - i + 1) * Unit = (a - i + 1) * Unit + Unit
      <4>1. a + 1 - i + 1 = (a - i + 1) + 1 /\ a - i + 1 \in Int
        BY <1>1, <3>1
      <4>2. \A x, u \in Int : (x + 1) * u = x * u + u
        OBVIOUS
      <4>3. QED
        BY <1>6, <4>1, <4>2
    <3>4. (a - i + 1) * Unit \in Int /\ Refill * (now - attempts[i]) \in Int
      BY <1>1, <1>6, <3>1, <3>2
    <3>5. QED
      BY <1>6, <3>1, <3>2, <3>3, <3>4
  <2>3. QED
    BY <2>1, <2>2
<1>8. BucketIsSound'
  <2>1. tokens' <= Capacity /\ lastRefill' <= now'
    BY <1>1, <1>6
  <2>2. \A i \in DOMAIN attempts' :
          /\ attempts'[i] <= lastRefill'
          /\ (Len(attempts') - i + 1) * Unit + tokens'
               <= Capacity + Refill * (lastRefill' - attempts'[i])
    <3> SUFFICES ASSUME NEW i \in 1 .. a + 1
                 PROVE  /\ attempts'[i] <= lastRefill'
                        /\ (Len(attempts') - i + 1) * Unit + tokens'
                             <= Capacity + Refill * (lastRefill' - attempts'[i])
      BY <1>1
    <3>1. Len(attempts') = a + 1 /\ lastRefill' = now
      BY <1>1, <1>6
    <3>2. /\ attempts'[i] <= now
          /\ (a + 1 - i + 1) * Unit + tokens' <= Capacity + Refill * (now - attempts'[i])
      BY <1>7
    <3>3. QED
      BY <3>1, <3>2
  <2>3. QED
    BY <2>1, <2>2 DEF BucketIsSound
<1>9. QuotaInEveryWindow'
  <2> SUFFICES ASSUME NEW i \in 1 .. a + 1, i + Quota \in 1 .. a + 1
               PROVE  attempts'[i + Quota] - attempts'[i] >= Day
    BY <1>1 DEF QuotaInEveryWindow
  <2>1. CASE i + Quota = a + 1
    <3>1. Quota > 0 /\ i \in 1 .. popped + n /\ i \in 1 .. a
      BY <1>1, <1>2, <1>3, <1>6, <2>1
    <3>2. now - attempts[i] >= Day
      BY <1>3, <3>1
    <3>3. QED
      BY <1>1, <2>1, <3>1, <3>2
  <2>2. CASE i + Quota # a + 1
    <3>1. i \in 1 .. a /\ i + Quota \in 1 .. a
      BY <1>1, <1>6, <2>2
    <3>2. attempts[i + Quota] - attempts[i] >= Day
      BY <1>1, <3>1 DEF GateInv, QuotaInEveryWindow
    <3>3. QED
      BY <1>1, <3>1, <3>2
  <2>3. QED
    BY <2>1, <2>2
<1>10. RateHolds'
  <2> SUFFICES ASSUME NEW i \in 1 .. a + 1, NEW j \in i .. a + 1
               PROVE  (j - i + 1) * Unit <= Capacity + Refill * (attempts'[j] - attempts'[i])
    BY <1>1 DEF RateHolds
  <2>1. CASE j = a + 1
    <3>1. /\ (a + 1 - i + 1) * Unit + tokens' <= Capacity + Refill * (now - attempts'[i])
          /\ attempts'[i] \in Nat
      BY <1>7
    <3>2. (a + 1 - i + 1) * Unit \in Int /\ Refill * (now - attempts'[i]) \in Int
      BY <1>1, <1>6, <3>1
    <3>3. (a + 1 - i + 1) * Unit <= Capacity + Refill * (now - attempts'[i])
      BY <1>6, <3>1, <3>2
    <3>4. QED
      BY <1>1, <2>1, <3>3
  <2>2. CASE j # a + 1
    <3>1. i \in 1 .. a /\ j \in i .. a
      BY <1>1, <2>2
    <3>2. (j - i + 1) * Unit <= Capacity + Refill * (attempts[j] - attempts[i])
      BY <1>1, <3>1 DEF GateInv, RateHolds
    <3>3. QED
      BY <1>1, <3>1, <3>2
  <2>3. QED
    BY <2>1, <2>2
<1>11. /\ BreakerHolds' /\ openedAt' <= now'
       /\ running' /\ openedAt' # Never => halfOpen'
  <2>1. /\ openedAt' = openedAt /\ failures' = failures
        /\ halfOpen' = (halfOpen \/ openedAt # Never)
        /\ openedAt = Never \/ now - openedAt >= Cooldown
        /\ ~running /\ running'
    BY DEF Admit, MarkProbe, BreakerPasses
  <2>2. openedAt \in Int /\ Cooldown \in Nat /\ openedAt <= now
    BY GatekeeperAssumption DEF GateInv, TypeOK, Never
  <2>3. openedAt # Never => \A i \in 1 .. a + 1 :
          \/ attempts'[i] <= openedAt
          \/ attempts'[i] >= openedAt + Cooldown /\ i = Len(attempts')
    <3> SUFFICES ASSUME openedAt # Never, NEW i \in 1 .. a + 1
                 PROVE  \/ attempts'[i] <= openedAt
                        \/ attempts'[i] >= openedAt + Cooldown /\ i = Len(attempts')
      OBVIOUS
    <3>1. CASE i = a + 1
      BY <1>1, <2>1, <2>2, <3>1
    <3>2. CASE i # a + 1
      <4>1. i \in DOMAIN attempts /\ attempts'[i] = attempts[i]
        BY <1>1, <3>2
      <4>2. attempts[i] <= openedAt
        BY <2>1, <4>1 DEF GateInv, BreakerHolds
      <4>3. QED
        BY <4>1, <4>2
    <3>3. QED
      BY <3>1, <3>2
  <2>4. QED
    BY <1>1, <2>1, <2>2, <2>3 DEF GateInv, BreakerHolds
<1>12. QED
  BY <1>5, <1>8, <1>9, <1>10, <1>11 DEF GateInv

-----------------------------------------------------------------------------
\* The outcome of a call changes the breaker only.
LEMMA OutcomeStep == ASSUME GateInv, TypeOK', Fail \/ Succeed PROVE GateInv'
<1> USE DEF gates
<1>1. UNCHANGED <<now, calls, tokens, lastRefill, attempts>>
  BY DEF Fail, Succeed
<1>2. WindowIsSuffix' /\ BucketIsSound' /\ QuotaInEveryWindow' /\ RateHolds'
  BY <1>1 DEF GateInv, WindowIsSuffix, OnlyCallsCounted, BucketIsSound, QuotaInEveryWindow, RateHolds
<1>3. openedAt' <= now' /\ now \in Nat /\ now' = now
  BY <1>1, GatekeeperAssumption DEF Fail, Succeed, GateInv, TypeOK, Never
<1>4. \A i \in DOMAIN attempts : attempts[i] <= now /\ attempts[i] \in Nat
  BY RefillIsSound
<1>5. BreakerHolds'
  <2>1. CASE Fail
    <3>1. CASE halfOpen \/ failures' >= Threshold
      <4>1. openedAt' = now /\ halfOpen' = FALSE
        BY <2>1, <3>1 DEF Fail
      <4>2. QED
        BY <1>1, <1>3, <1>4, <4>1 DEF BreakerHolds, Never
    <3>2. CASE ~halfOpen /\ ~(failures' >= Threshold)
      <4>1. openedAt' = openedAt /\ halfOpen' = halfOpen
        BY <2>1, <3>2 DEF Fail
      <4>2. QED
        BY <1>1, <3>2, <4>1 DEF GateInv, BreakerHolds
    <3>3. QED
      BY <3>1, <3>2
  <2>2. CASE Succeed
    BY <2>2 DEF Succeed, BreakerHolds
  <2>3. QED
    BY <2>1, <2>2
<1>6. ~running'
  BY DEF Fail, Succeed
<1>7. QED
  BY <1>2, <1>3, <1>5, <1>6 DEF GateInv

LEMMA GateInit == Init => GateInv
<1> SUFFICES ASSUME Init PROVE GateInv
  OBVIOUS
<1> USE GatekeeperAssumption DEF Init, Never
<1>1. calls = << >> /\ attempts = << >> /\ Len(calls) = 0 /\ Len(attempts) = 0
      /\ DOMAIN calls = {} /\ DOMAIN attempts = {}
      /\ calls \in Seq(Nat) /\ attempts \in Seq(Nat)
  BY EmptySeq
<1>2. TypeOK
  BY <1>1 DEF TypeOK
<1>3. WindowIsSuffix /\ BucketIsSound
  BY <1>1 DEF WindowIsSuffix, OnlyCallsCounted, BucketIsSound
<1>4. QuotaInEveryWindow /\ RateHolds /\ BreakerHolds
  BY <1>1 DEF QuotaInEveryWindow, RateHolds, BreakerHolds
<1>5. QED
  BY <1>2, <1>3, <1>4 DEF GateInv

LEMMA GateStep == GateInv /\ [Next]_vars => GateInv'
<1> SUFFICES ASSUME GateInv, [Next]_vars PROVE GateInv'
  OBVIOUS
<1>1. TypeOK'
  BY GateTypeStep
<1>2. CASE UNCHANGED vars
  BY <1>2 DEF vars, gates, breaker, GateInv, TypeOK, WindowIsSuffix, OnlyCallsCounted, BucketIsSound,
              QuotaInEveryWindow, RateHolds, BreakerHolds
<1>3. CASE RefuseOpen
  BY <1>2, <1>3 DEF RefuseOpen
<1>4. QED
  BY <1>1, <1>2, <1>3, TickStep, RefuseQuotaStep, RefuseRateStep, AdmitStep, OutcomeStep DEF Next

LEMMA GateInvariant == Spec => []GateInv
BY GateInit, GateStep, PTL DEF Spec

\* No window of a day holds more than Quota calls, wherever it begins and
\* whatever was refused in it, and what is refused is not counted (the rolling
\* quota).
THEOREM QuotaIsKept == Spec => []QuotaHolds
<1>1. GateInv => QuotaHolds
  BY DEF GateInv, WindowIsSuffix, QuotaHolds
<1>2. QED
  BY <1>1, GateInvariant, PTL

\* Over any stretch the calls made are paid for by one full bucket and the
\* refill of that stretch (the token bucket).
THEOREM RateIsKept == Spec => []RateHolds
<1>1. GateInv => RateHolds
  BY DEF GateInv
<1>2. QED
  BY <1>1, GateInvariant, PTL

\* Threshold failures in a row open the breaker, until its cooldown is over
\* there is no call, and then one probe at a time (the circuit breaker).
THEOREM BreakerIsSilent == Spec => []BreakerHolds
<1>1. GateInv => BreakerHolds
  BY DEF GateInv
<1>2. QED
  BY <1>1, GateInvariant, PTL
=============================================================================
