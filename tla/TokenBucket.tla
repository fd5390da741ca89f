----------------------------- MODULE TokenBucket -----------------------------
(***************************************************************************)
(* The token bucket most adapters pace their requests with, and the        *)
(* adaptive throttle that changes its rate (TokenBucket, AdaptiveThrottle  *)
(* in exchanges/ratelimit.py).  Tokens are counted in units, Unit of which *)
(* make one token; rates are units per tick.                               *)
(***************************************************************************)
EXTENDS Naturals, SequencesExt

CONSTANTS TbCallers,
          Unit,          \* units in one token
          BaseRate, MinRate, MaxRate, RateStep,
          TbRequests,    \* amounts a caller may ask for, in units
          TbMaxBackoffs, \* bound on the 429s reported to the throttle
          TbMaxTries     \* bound on the calls of try_acquire

ASSUME TbAssumption ==
  /\ Unit \in Nat \ {0} /\ RateStep \in Nat
  /\ MinRate \in Nat \ {0} /\ BaseRate \in Nat /\ MaxRate \in Nat
  /\ MinRate <= BaseRate /\ BaseRate <= MaxRate
  /\ TbRequests \subseteq Nat \ {0}
  /\ TbMaxBackoffs \in Nat /\ TbMaxTries \in Nat

\* Mutant of CapacityFor: no floor of one token.
CapacityBare(rate) == rate

\* max(1.0, rate): what the constructor and every back-off set the capacity to.
CapacityFor(rate) == Max({Unit, rate})

VARIABLES tbTokens, tbRate, tbCapacity,
          tbElapsed,    \* ticks since the last refill
          tbAdjusted,   \* ticks since the throttle last looked at its rate
          tbQueue,      \* callers in the lock's order
          tbAsk,        \* what each asked for when it joined
          tbSleep,      \* ticks the holder still sleeps
          tbBackoffs, tbTries,
          tbMeter       \* what was granted, drained at MaxRate (history)

tbVars == <<tbTokens, tbRate, tbCapacity, tbElapsed, tbAdjusted, tbQueue, tbAsk,
            tbSleep, tbBackoffs, tbTries, tbMeter>>

TbInit ==
  /\ tbTokens = CapacityFor(BaseRate) /\ tbRate = BaseRate
  /\ tbCapacity = CapacityFor(BaseRate)
  /\ tbElapsed = 0 /\ tbAdjusted = 0
  /\ tbQueue = <<>> /\ tbAsk = [c \in TbCallers |-> 0] /\ tbSleep = 0
  /\ tbBackoffs = 0 /\ tbTries = 0 /\ tbMeter = 0

\* Mutant of Refilled: the bucket never overflows.
RefilledUncapped == tbTokens + tbElapsed * tbRate

Refilled == Min({tbCapacity, tbTokens + tbElapsed * tbRate})

\* _maybe_increase, then bucket.acquire(n): the caller joins the lock's queue.  The
\* request is compared with the capacity here only, before the lock.
TbAcquire(c, n) ==
  /\ ~Contains(tbQueue, c)
  /\ n <= tbCapacity
  /\ tbQueue' = Append(tbQueue, c)
  /\ tbAsk' = [tbAsk EXCEPT ![c] = n]
  /\ tbAdjusted' = 0
  /\ tbRate' = IF tbAdjusted >= 1 /\ tbRate < MaxRate
               THEN Min({MaxRate, tbRate + RateStep * tbAdjusted}) ELSE tbRate
  /\ UNCHANGED <<tbTokens, tbCapacity, tbElapsed, tbSleep, tbBackoffs, tbTries, tbMeter>>

Grant(n) == tbTokens' = Refilled - n /\ tbMeter' = tbMeter + n

\* The loop of the caller that holds the lock, once: the tokens are there, or it sleeps
\* for the deficit.  Nothing looks at the capacity again.
TbHolderStep(c) ==
  /\ tbQueue # <<>> /\ c = Head(tbQueue) /\ tbSleep = 0
  /\ tbElapsed' = 0
  /\ \/ /\ Refilled >= tbAsk[c]
        /\ Grant(tbAsk[c])
        /\ tbQueue' = Tail(tbQueue)
        /\ UNCHANGED tbSleep
     \/ /\ Refilled < tbAsk[c]
        /\ tbTokens' = Refilled
        /\ tbSleep' = (tbAsk[c] - Refilled + tbRate - 1) \div tbRate
        /\ UNCHANGED <<tbQueue, tbMeter>>
  /\ UNCHANGED <<tbRate, tbCapacity, tbAdjusted, tbAsk, tbBackoffs, tbTries>>

\* try_acquire takes no lock: it may take the tokens a sleeper waits for.
TryAcquire(n) ==
  /\ tbTries < TbMaxTries
  /\ tbTries' = tbTries + 1
  /\ tbElapsed' = 0
  /\ IF Refilled >= n THEN Grant(n) ELSE tbTokens' = Refilled /\ UNCHANGED tbMeter
  /\ UNCHANGED <<tbRate, tbCapacity, tbAdjusted, tbQueue, tbAsk, tbSleep, tbBackoffs>>

TbGiveUp(c) ==
  /\ Contains(tbQueue, c)
  /\ tbSleep' = IF Head(tbQueue) = c THEN 0 ELSE tbSleep
  /\ tbQueue' = Remove(tbQueue, c)
  /\ UNCHANGED <<tbTokens, tbRate, tbCapacity, tbElapsed, tbAdjusted, tbAsk, tbBackoffs,
                 tbTries, tbMeter>>

\* Rate halved, and the capacity set to it; no other step touches the capacity.
OnRateLimited ==
  /\ tbBackoffs < TbMaxBackoffs
  /\ tbBackoffs' = tbBackoffs + 1
  /\ tbRate' = Max({MinRate, tbRate \div 2})
  /\ tbCapacity' = CapacityFor(tbRate')
  /\ UNCHANGED <<tbTokens, tbElapsed, tbAdjusted, tbQueue, tbAsk, tbSleep, tbTries, tbMeter>>

OnSuccess ==
  /\ tbAdjusted >= 1
  /\ tbAdjusted' = 0
  /\ tbRate' = IF tbRate < MaxRate THEN Min({MaxRate, tbRate + RateStep * tbAdjusted}) ELSE tbRate
  /\ UNCHANGED <<tbTokens, tbCapacity, tbElapsed, tbQueue, tbAsk, tbSleep, tbBackoffs,
                 tbTries, tbMeter>>

\* After FullAfter ticks every bucket is full and every rate at its maximum: longer
\* waits change nothing.
FullAfter == CapacityFor(MaxRate)

TbTick ==
  /\ tbElapsed' = Min({tbElapsed + 1, FullAfter})
  /\ tbAdjusted' = Min({tbAdjusted + 1, FullAfter})
  /\ tbSleep' = IF tbSleep = 0 THEN 0 ELSE tbSleep - 1
  /\ tbMeter' = IF tbMeter <= MaxRate THEN 0 ELSE tbMeter - MaxRate
  /\ UNCHANGED <<tbTokens, tbRate, tbCapacity, tbQueue, tbAsk, tbBackoffs, tbTries>>

TbNext ==
  \/ \E c \in TbCallers : TbHolderStep(c) \/ TbGiveUp(c) \/ \E n \in TbRequests : TbAcquire(c, n)
  \/ \E n \in TbRequests : TryAcquire(n)
  \/ OnRateLimited \/ OnSuccess \/ TbTick

-----------------------------------------------------------------------------

\* Over every stretch of time the bucket grants no more than its first capacity and
\* what the highest rate brings in that time, whatever order callers, back-offs and
\* try_acquire come in.  Code: _refill's cap and the loop of acquire.
BurstIsBounded == tbMeter <= CapacityFor(BaseRate)

\* c waits, and neither it nor anyone before it asks for more than one token or more
\* than a bucket at the slowest rate holds.
SmallLine(c) == \E i \in DOMAIN tbQueue :
  /\ tbQueue[i] = c
  /\ \A j \in 1 .. i : tbAsk[tbQueue[j]] <= Max({Unit, MinRate})

\* However often the rate is cut while it waits, a caller in such a line is served or
\* gives up: no back-off takes the bucket below what it asks for.  Code: the floor of
\* on_rate_limited's capacity, under callers past the check of acquire.
SmallRequestsAreServed == \A c \in TbCallers : SmallLine(c) ~> ~Contains(tbQueue, c)

\* What ratelimit.py:19-20 promises of every waiter.  It does not hold: a request for
\* more than the capacity has shrunk to is never granted, and holds the lock.
BackoffStarvesNobody == \A c \in TbCallers : Contains(tbQueue, c) ~> ~Contains(tbQueue, c)
=============================================================================
