------------------------------ MODULE Grading ------------------------------
(***************************************************************************)
(* One call of the vault from its commit, on day 0, to its verdict.  The   *)
(* source publishes prices late; the hub sees them through a cache that    *)
(* serves an entry for a while and falls back on it when a fetch fails;    *)
(* the resolver runs when someone runs it.                                 *)
(***************************************************************************)
EXTENDS Integers, Sequences, FiniteSets, FiniteSetsExt

CONSTANTS
    DayPrices,     \* what a day can close at
    EntryPrice,
    StopMove,      \* invalidation_pct, as a distance from the entry
    HorizonDays,
    Tolerance,     \* tolerance_days of value_on
    Ttl,           \* days the cache serves an entry for
    LastDay        \* bound on the calendar

ASSUME GradingAssumption ==
    /\ DayPrices \subseteq Nat \ {0} /\ EntryPrice \in Nat \ {0} /\ StopMove \in 1 .. EntryPrice - 1
    /\ HorizonDays \in Nat \ {0} /\ Tolerance \in Nat /\ Ttl \in Nat
    /\ LastDay \in Nat /\ LastDay >= HorizonDays

VARIABLES
    gDay,      \* today
    gClose,    \* what each day so far closed at; None on a holiday
    gPublished,\* the source gives the closes up to this day
    gCache,    \* the entry: [upTo, fetched], or none
    gSign,     \* 1 for an up call, -1 for a down call
    gVerdict,  \* outcome of the record
    gSeen      \* history: the last day seen by the run that gave the verdict

gradeVars == <<gDay, gClose, gPublished, gCache, gSign, gVerdict, gSeen>>

None == 0
NoEntry == [upTo |-> -1, fetched |-> -1]
NoSeries == -1

\* The days with an observation in a series that reaches upTo.
Observed(upTo) == {d \in 0 .. upTo : gClose[d] # None}

\* value_on: the last observation at or before a day, if it is near enough.
ValueOn(upTo, when) ==
    LET before == {d \in Observed(upTo) : d <= when}
    IN  IF before = {} \/ when - Max(before) > Tolerance THEN None ELSE gClose[Max(before)]

\* invalidation_price, and a close at it or past it
Breached(price) ==
    IF gSign > 0 THEN price <= EntryPrice - StopMove ELSE price >= EntryPrice + StopMove

\* The days the stop is looked for on: not the day of the commit.
Window(upTo, today) == {d \in Observed(upTo) : 0 < d /\ d <= HorizonDays /\ d <= today}

AtHorizon(exit) ==
    CASE exit = None -> "unresolvable"
      [] (exit - EntryPrice) * gSign > 0 -> "correct"
      [] OTHER -> "wrong"

\* Mutant of ResolveOne: the exit is the last price there is.
ResolveOneAtLast(upTo, today) ==
    IF \E d \in Window(upTo, today) : Breached(gClose[d]) THEN "invalidated"
    ELSE IF HorizonDays > today THEN "pending"
    ELSE AtHorizon(ValueOn(upTo, today))

\* resolve_one: the stop first, over every observation, then the horizon.
ResolveOne(upTo, today) ==
    IF \E d \in Window(upTo, today) : Breached(gClose[d]) THEN "invalidated"
    ELSE IF HorizonDays > today THEN "pending"
    ELSE AtHorizon(ValueOn(upTo, HorizonDays))

\* Resolver.run for the call: no series is a verdict once the call is due.
Verdict(upTo, today) ==
    IF upTo = NoSeries \/ Observed(upTo) = {}
    THEN IF HorizonDays <= today THEN "unresolvable" ELSE "pending"
    ELSE ResolveOne(upTo, today)

-----------------------------------------------------------------------------

GradeInit ==
    /\ gDay = 0 /\ gClose = [d \in {0} |-> EntryPrice] /\ gPublished = 0
    /\ gCache = NoEntry /\ gSign \in {1, -1}
    /\ gVerdict = "pending" /\ gSeen = NoSeries

NextDay ==
    /\ gDay < LastDay
    /\ gDay' = gDay + 1
    /\ \E close \in DayPrices \cup {None} :
           gClose' = [d \in 0 .. gDay + 1 |-> IF d = gDay + 1 THEN close ELSE gClose[d]]
    /\ UNCHANGED <<gPublished, gCache, gSign, gVerdict, gSeen>>

Publish ==
    /\ gPublished < gDay
    /\ gPublished' = gPublished + 1
    /\ UNCHANGED <<gDay, gClose, gCache, gSign, gVerdict, gSeen>>

\* get: what the cache serves, whatever its age or only while it is fresh.
Fresh == gCache # NoEntry /\ gDay - gCache.fetched <= Ttl

\* get_or_fetch, then resolve: fetched says whether the source answers, kept whether
\* the entry is written.
RunResolver(fetched, kept) ==
    LET upTo == CASE Fresh -> gCache.upTo
                  [] ~Fresh /\ fetched -> gPublished
                  [] OTHER -> gCache.upTo      \* stale, or NoSeries
        verdict == Verdict(upTo, gDay)
    IN  /\ gCache' = IF ~Fresh /\ fetched /\ kept THEN [upTo |-> gPublished, fetched |-> gDay]
                     ELSE gCache
        /\ gVerdict' = IF gVerdict = "pending" THEN verdict ELSE gVerdict
        /\ gSeen' = IF gVerdict = "pending" /\ verdict # "pending" THEN upTo ELSE gSeen
        /\ UNCHANGED <<gDay, gClose, gPublished, gSign>>

\* An entry that cannot be read counts as none.
CacheSpoils ==
    /\ gCache # NoEntry
    /\ gCache' = NoEntry
    /\ UNCHANGED <<gDay, gClose, gPublished, gSign, gVerdict, gSeen>>

GradeNext ==
    \/ NextDay
    \/ Publish
    \/ CacheSpoils
    \/ \E fetched, kept \in BOOLEAN : RunResolver(fetched, kept)

-----------------------------------------------------------------------------

\* What became of the call, from the closes alone: the first touch of the stop up to
\* the horizon, else which side of the entry its last close was.
WhatBecame ==
    IF \E d \in 1 .. HorizonDays : gClose[d] # None /\ Breached(gClose[d]) THEN "invalidated"
    ELSE AtHorizon(ValueOn(HorizonDays, HorizonDays))

\* When the resolver runs, how often, and from which copy of the series make no
\* difference to a verdict: a stop it reports was touched, and once it has seen the
\* horizon its verdict is what became of the call.  Code: the window and the exit of
\* resolve_one, the stale fallback of get_or_fetch.
VerdictIsWhatBecame ==
    /\ gVerdict = "invalidated" =>
           \E d \in 1 .. HorizonDays : d \in DOMAIN gClose /\ gClose[d] # None /\ Breached(gClose[d])
    /\ gVerdict \notin {"pending", "invalidated"} /\ gSeen >= HorizonDays => gVerdict = WhatBecame

\* The scan "walks every observation between commit and horizon": so a verdict, once the
\* horizon is published, is what became of the call.  A run on the day of the horizon
\* grades on the close of a day before, and the verdict is final.
NoCloseIsMissed ==
    gVerdict # "pending" /\ gPublished >= HorizonDays => gVerdict = WhatBecame

\* "UNRESOLVABLE  no price data at the horizon": but one failed fetch is enough.
UnresolvableHasNoPrice ==
    gVerdict = "unresolvable" => ValueOn(HorizonDays, HorizonDays) = None
=============================================================================
