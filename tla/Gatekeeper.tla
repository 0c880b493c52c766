----------------------------- MODULE Gatekeeper -----------------------------
(***************************************************************************)
(* infra/gatekeeper.py: the three gates in front of one guarded external    *)
(* service (a circuit breaker, a rolling daily quota, a token bucket).      *)
(* execute is called by one thread; the guarded call takes its time, so the *)
(* clock moves between the gates' reading of it and the outcome's.          *)
(*                                                                          *)
(* Floating-point tokens are counted in whole parts: a token is Unit parts, *)
(* and Refill parts come back each tick.                                    *)
(***************************************************************************)
EXTENDS Integers, Sequences

CONSTANTS
  Day,        \* _DAY_SECONDS, in ticks
  Quota,      \* daily_quota
  Unit,       \* parts of a token
  Capacity,   \* bucket_capacity, in parts
  Refill,     \* refill_per_sec, in parts per tick
  Threshold,  \* breaker_threshold
  Cooldown,   \* breaker_cooldown, in ticks
  Horizon     \* bound: how long the clock is followed

Never == -1   \* _opened_at is None

ASSUME GatekeeperAssumption ==
  /\ Day \in Nat \ {0} /\ Quota \in Nat
  /\ Unit \in Nat \ {0} /\ Capacity \in Nat /\ Refill \in Nat
  /\ Threshold \in Nat /\ Cooldown \in Nat /\ Horizon \in Nat

VARIABLES
  now,         \* the injected clock
  calls,       \* _calls, the times counted against the quota
  tokens,      \* _tokens, in parts
  lastRefill,  \* _last_refill
  failures,    \* _failures, in a row
  openedAt,    \* _opened_at
  halfOpen,    \* _half_open
  running,     \* is the guarded function running?
  attempts     \* history: when it was called

gates == <<calls, tokens, lastRefill>>
breaker == <<failures, openedAt, halfOpen>>
vars == <<now, gates, breaker, running, attempts>>

-----------------------------------------------------------------------------
Init ==
  /\ now = 0
  /\ calls = << >>
  /\ tokens = Capacity
  /\ lastRefill = 0
  /\ failures = 0
  /\ openedAt = Never
  /\ halfOpen = FALSE
  /\ running = FALSE
  /\ attempts = << >>

Tick ==
  /\ now < Horizon
  /\ now' = now + 1
  /\ UNCHANGED <<gates, breaker, running, attempts>>

\* The loop at the head of _check_quota leaves off after n calls: each of them
\* a day old, and the one after them not.
Popped(n) ==
  /\ \A i \in 1 .. n : now - calls[i] >= Day
  /\ n < Len(calls) => now - calls[n + 1] < Day

\* The calls of the rolling window, once the n before it are popped.
Recent(n) == SubSeq(calls, n + 1, Len(calls))

RefilledUncapped == tokens + (now - lastRefill) * Refill

\* The bucket after the elapsed time's refill, never above its capacity.
Refilled ==
  LET full == tokens + (now - lastRefill) * Refill
  IN  IF full > Capacity THEN Capacity ELSE full

CooldownOver == openedAt = Never \/ now - openedAt > 0

\* _check_breaker lets a call through: closed, or the cooldown has elapsed.
BreakerPasses == openedAt = Never \/ now - openedAt >= Cooldown

\* ... and marks it as a probe if the breaker was open.
MarkProbe == halfOpen' = (halfOpen \/ openedAt # Never)

RefuseOpen ==
  /\ ~running /\ ~BreakerPasses
  /\ UNCHANGED vars

RefuseQuota ==
  /\ ~running /\ BreakerPasses
  /\ \E n \in 0 .. Len(calls) :
       /\ Popped(n)
       /\ Len(calls) - n >= Quota
       /\ calls' = Recent(n)
  /\ MarkProbe
  /\ UNCHANGED <<now, tokens, lastRefill, failures, openedAt, running, attempts>>

\* The call is un-counted again, but the bucket's clock has moved on.
RefuseRate ==
  /\ ~running /\ BreakerPasses
  /\ \E n \in 0 .. Len(calls) :
       /\ Popped(n)
       /\ Len(calls) - n < Quota
       /\ calls' = Recent(n)
  /\ Refilled < Unit
  /\ MarkProbe
  /\ tokens' = Refilled
  /\ lastRefill' = now
  /\ UNCHANGED <<now, failures, openedAt, running, attempts>>

CountedNever(n) == Recent(n)

\* The window the admitted call is counted in.
Counted(n) == Append(Recent(n), now)

Admit ==
  /\ ~running /\ BreakerPasses
  /\ \E n \in 0 .. Len(calls) :
       /\ Popped(n)
       /\ Len(calls) - n < Quota
       /\ calls' = Counted(n)
  /\ Refilled >= Unit
  /\ MarkProbe
  /\ tokens' = Refilled - Unit
  /\ lastRefill' = now
  /\ running' = TRUE
  /\ attempts' = Append(attempts, now)
  /\ UNCHANGED <<now, failures, openedAt>>

\* _on_failure
Fail ==
  /\ running
  /\ running' = FALSE
  /\ failures' = failures + 1
  /\ IF halfOpen \/ failures' >= Threshold
     THEN openedAt' = now /\ halfOpen' = FALSE
     ELSE UNCHANGED <<openedAt, halfOpen>>
  /\ UNCHANGED <<now, gates, attempts>>

\* _on_success
Succeed ==
  /\ running
  /\ running' = FALSE
  /\ failures' = 0
  /\ openedAt' = Never
  /\ halfOpen' = FALSE
  /\ UNCHANGED <<now, gates, attempts>>

Next ==
  \/ Tick
  \/ RefuseOpen \/ RefuseQuota \/ RefuseRate \/ Admit
  \/ Fail \/ Succeed
  \/ now = Horizon /\ UNCHANGED vars

Spec == Init /\ [][Next]_vars

-----------------------------------------------------------------------------
(* What must hold.                                                          *)

QuotaInEveryWindow ==
  \A i \in DOMAIN attempts :
    i + Quota \in DOMAIN attempts => attempts[i + Quota] - attempts[i] >= Day

\* What is counted are the last of the calls made.
OnlyCallsCounted ==
  LET popped == Len(attempts) - Len(calls) IN
  /\ popped >= 0
  /\ \A i \in DOMAIN calls : calls[i] = attempts[popped + i]

\* At most Quota calls in any window of a day, not only in calendar days; and
\* a call that the bucket refused is not held against the quota.
QuotaHolds == QuotaInEveryWindow /\ OnlyCallsCounted

\* The bucket bounds every burst: over any stretch of time no more calls are
\* made than a full bucket and that time's refill pay for, however refusals
\* and failures fall in between.
RateHolds ==
  \A i \in DOMAIN attempts : \A j \in i .. Len(attempts) :
    (j - i + 1) * Unit <= Capacity + Refill * (attempts[j] - attempts[i])

\* Threshold failures in a row open the breaker, no call is made while it is
\* open, and after its cooldown one only, the probe: the breaker is closed or
\* opened afresh by its outcome, whatever probes another gate refused before.
BreakerHolds ==
  /\ failures > 0 /\ failures >= Threshold => openedAt # Never
  /\ openedAt # Never =>
       \A i \in DOMAIN attempts :
         \/ attempts[i] <= openedAt
         \/ attempts[i] >= openedAt + Cooldown /\ i = Len(attempts) /\ running
  /\ halfOpen => openedAt # Never

-----------------------------------------------------------------------------
(* The inductive invariant behind the three: how each gate's memory stands   *)
(* to the calls that were made.                                             *)

TypeOK ==
  /\ now \in Nat
  /\ calls \in Seq(Nat) /\ attempts \in Seq(Nat)
  /\ tokens \in Nat /\ lastRefill \in Nat /\ failures \in Nat
  /\ openedAt \in Nat \cup {Never}
  /\ halfOpen \in BOOLEAN /\ running \in BOOLEAN

\* The deque holds the last of the calls made; those before them are a day old.
WindowIsSuffix ==
  /\ OnlyCallsCounted
  /\ \A i \in 1 .. Len(attempts) - Len(calls) : now - attempts[i] >= Day

\* A full bucket at any call made, and the refill since, pay for all the calls
\* from that one on and for what is in the bucket.
BucketIsSound ==
  /\ tokens <= Capacity
  /\ lastRefill <= now
  /\ \A i \in DOMAIN attempts :
       /\ attempts[i] <= lastRefill
       /\ (Len(attempts) - i + 1) * Unit + tokens
            <= Capacity + Refill * (lastRefill - attempts[i])

GateInv ==
  /\ TypeOK /\ WindowIsSuffix /\ BucketIsSound
  /\ openedAt <= now
  /\ running /\ openedAt # Never => halfOpen
  /\ QuotaInEveryWindow /\ RateHolds /\ BreakerHolds
=============================================================================
