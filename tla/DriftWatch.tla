----------------------------- MODULE DriftWatch -----------------------------
(***************************************************************************)
(* The two detectors that watch the fill model's errors, and the monitor   *)
(* that decides when they have been heard.  Errors are in hundredths.      *)
(*                                                                         *)
(* The bound a difference of means is held against falls with the harmonic *)
(* mean of the two counts; its logarithms and roots are one constant, and  *)
(* means are rounded down.                                                 *)
(***************************************************************************)
EXTENDS Integers, Sequences, SequencesExt, FiniteSetsExt, Sums

CONSTANTS
    Errors,          \* |predicted - actual|
    MaxBuckets, MinWindow,
    Hoeffding,       \* the bound at a harmonic mean of one
    Threshold, Alpha, MinPage,
    MinDrift, Cooldown,
    MaxObserved      \* bound

ASSUME DriftAssumption ==
    /\ Errors \subseteq 0 .. 100
    /\ {MaxBuckets, MinWindow, Hoeffding, Threshold, MinPage, MinDrift, Cooldown, MaxObserved} \subseteq Nat \ {0}
    /\ Alpha \in Nat

VARIABLES
    dwAdwin,   \* [buckets, total, count, last]: what is in the window, in buckets
    dwPage,    \* [sum, cumulative, minimum, count]: Page-Hinkley
    dwHeard,   \* [at, events, active]: the monitor
    dwErrors   \* every error so far

dwVars == <<dwAdwin, dwPage, dwHeard, dwErrors>>

Never == -Cooldown
FreshPage == [sum |-> 0, cumulative |-> 0, minimum |-> 0, count |-> 0]
Bucket(total, count) == [total |-> total, count |-> count]

-----------------------------------------------------------------------------
(* ADWIN *)

\* One pass from the newest bucket to the oldest, for as long as there are too many.
Merged(buckets, i) ==
    IF Len(buckets) > MaxBuckets /\ buckets[i - 1].count = buckets[i].count
    THEN SubSeq(buckets, 1, i - 2)
         \o <<Bucket(buckets[i - 1].total + buckets[i].total, 2 * buckets[i].count)>>
         \o SubSeq(buckets, i + 1, Len(buckets))
    ELSE buckets
Compress(buckets) ==
    LET pass[k \in 0 .. Len(buckets) - 1] ==
            IF k = 0 THEN buckets ELSE Merged(pass[k - 1], Len(buckets) + 1 - k)
    IN  pass[Len(buckets) - 1]

TotalOf(buckets) == SumSeq([i \in DOMAIN buckets |-> buckets[i].total])
CountOf(buckets) == SumSeq([i \in DOMAIN buckets |-> buckets[i].count])
Away(x) == IF x < 0 THEN -x ELSE x

\* |left mean - right mean| > epsilon, both sides with something to say
Differs(a, i) ==
    LET left   == CountOf(SubSeq(a.buckets, 1, i))
        right  == a.count - left
        before == TotalOf(SubSeq(a.buckets, 1, i))
    IN  /\ left >= 2 /\ right >= 2
        /\ Away(before * right - (a.total - before) * left) > Hoeffding * (left + right)
Splits(a) ==
    IF a.count < MinWindow THEN {} ELSE {i \in 1 .. Len(a.buckets) - 1 : Differs(a, i)}

\* Mutant of CutAt: the total keeps the prefix.
CutBuckets(a, i) ==
    [a EXCEPT !.buckets = SubSeq(@, i + 1, Len(@)), !.count = @ - CountOf(SubSeq(a.buckets, 1, i)), !.last = a.count]

\* The prefix is dropped, and its part of the totals with it.
CutAt(a, i) ==
    LET stale == SubSeq(a.buckets, 1, i)
    IN  [buckets |-> SubSeq(a.buckets, i + 1, Len(a.buckets)),
         total |-> a.total - TotalOf(stale), count |-> a.count - CountOf(stale), last |-> a.count]

WithError(a, e) ==
    [a EXCEPT !.buckets = Compress(Append(@, Bucket(e, 1))), !.total = @ + e, !.count = @ + 1]

-----------------------------------------------------------------------------
(* Page-Hinkley *)

PageWith(p, e) ==
    LET sum   == p.sum + e
        count == p.count + 1
        cumulative == p.cumulative + e - sum \div count - Alpha
    IN  [sum |-> sum, count |-> count, cumulative |-> cumulative, minimum |-> Min({p.minimum, cumulative})]
PageFires(p) == p.count >= MinPage /\ p.cumulative - p.minimum > Threshold

-----------------------------------------------------------------------------
\* Both detectors take the error, cut and reset for themselves; the monitor reports one
\* only when it has seen enough, and not again for a while.
ObserveError(e) ==
    /\ Len(dwErrors) < MaxObserved
    /\ dwErrors' = Append(dwErrors, e)
    /\ \E a \in {WithError(dwAdwin, e)}, p \in {PageWith(dwPage, e)} :
        LET samples == Len(dwErrors) + 1
            fired   == Splits(a) # {} \/ PageFires(p)
            heard   == fired /\ samples >= MinDrift /\ samples - dwHeard.at >= Cooldown
        IN  /\ dwAdwin' = IF Splits(a) = {} THEN a ELSE CutAt(a, Min(Splits(a)))
            /\ dwPage' = IF PageFires(p) THEN FreshPage ELSE p
            /\ dwHeard' = IF heard THEN [at |-> samples, active |-> TRUE, by |-> IF dwAdwin'.last > 0 THEN "adwin" ELSE "page_hinkley"]
                          ELSE dwHeard

DriftInit ==
    /\ dwAdwin = [buckets |-> << >>, total |-> 0, count |-> 0, last |-> 0]
    /\ dwPage = FreshPage
    /\ dwHeard = [at |-> Never, active |-> FALSE, by |-> "none"]
    /\ dwErrors = << >>

DriftNext == \E e \in Errors : ObserveError(e)

DriftSpec == DriftInit /\ [][DriftNext]_dwVars

-----------------------------------------------------------------------------
\* The window ADWIN compares within is, bucket by bucket and in total, the latest errors
\* and nothing else, however often buckets were merged and prefixes cut.
RangeTotal(from, to) == SumSeq(SubSeq(dwErrors, from, to))
WindowIsTheLatest ==
    LET a == dwAdwin
        start == Len(dwErrors) - a.count
    IN  /\ a.total = RangeTotal(start + 1, Len(dwErrors))
        /\ a.count = CountOf(a.buckets)
        /\ \A i \in DOMAIN a.buckets :
            LET before == start + CountOf(SubSeq(a.buckets, 1, i - 1))
            IN  a.buckets[i].total = RangeTotal(before + 1, before + a.buckets[i].count)

\* An alarm of ADWIN's is heard about.
AlarmsAreHeard == dwAdwin.last > 0 => dwHeard.active

\* The histogram holds no more buckets than it is given.
BucketsAreBounded == Len(dwAdwin.buckets) <= MaxBuckets

=============================================================================
