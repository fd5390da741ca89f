--------------------------- MODULE WeightedLimiter ---------------------------
(***************************************************************************)
(* The multi-window request limiter of the Binance and OKX adapters        *)
(* (WeightedLimiter in exchanges/ratelimit.py).  Callers take its lock in  *)
(* turn; the holder looks at every window and sleeps, the lock in hand,    *)
(* until all of them admit it.  Times are ages and countdowns, in ticks,   *)
(* so that the state is finite and the behaviours are not.                 *)
(***************************************************************************)
EXTENDS Integers, SequencesExt

CONSTANTS LimCallers,     \* tasks that call acquire
          LimWindows,     \* window -> [limit |-> , period |-> ]
          LimRequests,    \* the weights asked for, window -> weight (partial functions)
          LimMaxSleep,    \* longest sleep before another look (5 s in the code)
          LimPenalties,   \* the Retry-After values penalize is called with
          LimMaxPenalize  \* bound on the calls of penalize

Keys == DOMAIN LimWindows

ASSUME LimAssumption ==
  /\ \A k \in Keys : LimWindows[k].limit \in Nat \ {0} /\ LimWindows[k].period \in Nat \ {0}
  /\ \A r \in LimRequests : \A k \in DOMAIN r \cap Keys : r[k] \in 1..LimWindows[k].limit
  /\ LimMaxSleep \in Nat \ {0} /\ LimPenalties \subseteq Nat /\ LimMaxPenalize \in Nat

VARIABLES limQueue,     \* callers in the lock's order; the first one holds it
          limAsk,       \* caller -> the request it waits with
          limSleep,     \* ticks the holder still sleeps
          limEvents,    \* window -> sequence of [age, w], oldest first
          limBlocked,   \* ticks the penalty still lasts (_blocked_until)
          limPenalized, \* calls of penalize so far (bound)
          limGrants     \* window -> every grant of the last period (history)

limVars == <<limQueue, limAsk, limSleep, limEvents, limBlocked, limPenalized, limGrants>>

\* A window the request does not name costs the default weight of one.
Weight(r, k) == IF k \in DOMAIN r THEN r[k] ELSE 1

SumOf(events) ==
  LET sum[n \in 0 .. Len(events)] == IF n = 0 THEN 0 ELSE sum[n - 1] + events[n].w
  IN  sum[Len(events)]

\* What is left when the oldest events go, up to the first of at most this age.
NoOlder(age, events) ==
  LET young == {i \in DOMAIN events : events[i].age <= age}
  IN  IF young = {} THEN <<>> ELSE SubSeq(events, Min(young), Len(events))

Prune(k, events) == NoOlder(LimWindows[k].period, events)

\* Mutant of TimeUntilAvailable: a tick too early.
AvailableEarly(k, events, w) ==
  LET limit == LimWindows[k].limit  period == LimWindows[k].period
      frees == {i \in DOMAIN events :
                  SumOf(SubSeq(events, 1, i)) >= SumOf(events) + w - limit}
  IN  IF SumOf(events) + w <= limit THEN 0
      ELSE IF frees = {} THEN period
      ELSE Max({0, period - 1 - events[Min(frees)].age})

\* Ticks until the oldest events that free enough weight have aged a period; the
\* whole period when they never would.
TimeUntilAvailable(k, events, w) ==
  LET limit == LimWindows[k].limit  period == LimWindows[k].period
      frees == {i \in DOMAIN events :
                  SumOf(SubSeq(events, 1, i)) >= SumOf(events) + w - limit}
  IN  IF SumOf(events) + w <= limit THEN 0
      ELSE IF frees = {} THEN period
      ELSE Max({0, period - events[Min(frees)].age})

LimInit ==
  /\ limQueue = <<>>
  /\ limAsk = [c \in LimCallers |-> <<>>]
  /\ limSleep = 0
  /\ limEvents = [k \in Keys |-> <<>>]
  /\ limBlocked = 0
  /\ limPenalized = 0
  /\ limGrants = [k \in Keys |-> <<>>]

\* acquire is called: the caller joins the lock's queue.
Acquire(c, r) ==
  /\ ~Contains(limQueue, c)
  /\ limQueue' = Append(limQueue, c)
  /\ limAsk' = [limAsk EXCEPT ![c] = r]
  /\ UNCHANGED <<limSleep, limEvents, limBlocked, limPenalized, limGrants>>

\* The holder's loop, once: still penalized, admitted by every window, or back to sleep.
HolderStep ==
  /\ limQueue # <<>> /\ limSleep = 0
  /\ IF limBlocked > 0
     THEN /\ limSleep' = limBlocked
          /\ UNCHANGED <<limQueue, limEvents, limGrants>>
     ELSE \E kept \in {[k \in Keys |-> Prune(k, limEvents[k])]}, r \in {limAsk[Head(limQueue)]} :
          \E delays \in {[k \in Keys |-> TimeUntilAvailable(k, kept[k], Weight(r, k))]} :
          IF \A k \in Keys : delays[k] = 0
          THEN /\ limEvents' = [k \in Keys |-> Append(kept[k], [age |-> 0, w |-> Weight(r, k)])]
               /\ limGrants' = [k \in Keys |-> Append(limGrants[k], [age |-> 0, w |-> Weight(r, k)])]
               /\ limQueue' = Tail(limQueue)
               /\ UNCHANGED limSleep
          ELSE /\ limEvents' = kept
               /\ limSleep' = Min({Max(Range(delays)), LimMaxSleep})
               /\ UNCHANGED <<limQueue, limGrants>>
  /\ UNCHANGED <<limAsk, limBlocked, limPenalized>>

\* The caller's own timeout cancels its wait, with or without the lock.
GiveUp(c) ==
  /\ \E i \in DOMAIN limQueue : limQueue[i] = c /\ limQueue' = RemoveAt(limQueue, i)
  /\ limSleep' = IF Head(limQueue) = c THEN 0 ELSE limSleep
  /\ UNCHANGED <<limAsk, limEvents, limBlocked, limPenalized, limGrants>>

Penalize(n) ==
  /\ limPenalized < LimMaxPenalize
  /\ limPenalized' = limPenalized + 1
  /\ limBlocked' = Max({limBlocked, n})
  /\ UNCHANGED <<limQueue, limAsk, limSleep, limEvents, limGrants>>

Down(n) == IF n = 0 THEN 0 ELSE n - 1

\* An event older than its period counts nowhere any more, so its age stops there.
Older(k, events) ==
  [i \in DOMAIN events |-> [events[i] EXCEPT !.age = Min({@ + 1, LimWindows[k].period + 1})]]

\* Mutant of LimTick: the penalty starts anew at every look.
TickKeepsPenalty ==
  /\ limSleep' = Down(limSleep)
  /\ limEvents' = [k \in Keys |-> Older(k, limEvents[k])]
  /\ limGrants' = [k \in Keys |-> NoOlder(LimWindows[k].period - 1, Older(k, limGrants[k]))]
  /\ UNCHANGED <<limQueue, limAsk, limBlocked, limPenalized>>

LimTick ==
  /\ limSleep' = Down(limSleep)
  /\ limBlocked' = Down(limBlocked)
  /\ limEvents' = [k \in Keys |-> Older(k, limEvents[k])]
  /\ limGrants' = [k \in Keys |-> NoOlder(LimWindows[k].period - 1, Older(k, limGrants[k]))]
  /\ UNCHANGED <<limQueue, limAsk, limPenalized>>

LimNext ==
  \/ \E c \in LimCallers : GiveUp(c) \/ \E r \in LimRequests : Acquire(c, r)
  \/ HolderStep
  \/ \E n \in LimPenalties : Penalize(n)
  \/ LimTick

LimFairness == WF_limVars(HolderStep) /\ WF_limVars(LimTick)

-----------------------------------------------------------------------------

\* Whatever the order of the callers, their sleeps and the penalties, no period of a
\* window ever admits more weight than its limit.  Code: acquire, _Window.
WindowsHold == \A k \in Keys : SumOf(limGrants[k]) <= LimWindows[k].limit

\* A caller that waits is admitted, or gives up: the sleeping holder of the lock does
\* not keep the others out for good.  Code: acquire's loop under the lock.
WaitersAreAdmitted == \A c \in LimCallers : Contains(limQueue, c) ~> ~Contains(limQueue, c)
=============================================================================
