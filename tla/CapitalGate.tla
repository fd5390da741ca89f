----------------------------- MODULE CapitalGate -----------------------------
(***************************************************************************)
(* From a track record to a size: the scoreboard, the correction of what   *)
(* the model states to what came of it, the gates, and the fraction of     *)
(* capital a call gets.                                                    *)
(*                                                                         *)
(* What is stated is in percent, what is corrected in hundredths of it; a  *)
(* bound of an interval is the last whole percent inside it.  Platt's fit, *)
(* a descent, is left open: it shifts what is stated by some amount.       *)
(***************************************************************************)
EXTENDS Integers, Sequences, FiniteSetsExt, Functions, Sums

CONSTANTS
    Stated,            \* the probabilities the model states
    CriticalSq,        \* sequential_z squared, in tenths, by number of calls
    MinSamples,        \* min_samples
    MaxOverconfidence, HaircutSpan, LeastHaircut,
    KellyPercent,      \* kelly_fraction
    MaxPosition,       \* max_position_fraction, in hundredths of a percent
    MinPlatt, MinIsotonic,
    PlattShifts,       \* what Platt's fit may come to
    Moves,             \* <<magnitude, invalidation>> of the calls to size
    MaxResolved        \* bound on the track record

ASSUME GateAssumption ==
    /\ Stated \subseteq 5 .. 95 /\ Moves \subseteq (Nat \ {0}) \X (Nat \ {0})
    /\ MinSamples \in Nat \ {0} /\ MinPlatt \in Nat \ {0} /\ MinIsotonic \in Nat \ {0}
    /\ MaxResolved \in Nat /\ CriticalSq \in [1 .. MaxResolved -> Nat]

VARIABLES
    cgHits,    \* by what was stated: the calls that were right
    cgCalls,   \* ... and all that are scoreable
    cgShift    \* what Platt's fit comes to

cgVars == <<cgHits, cgCalls, cgShift>>

Resolvable == SumFunction(cgCalls)
Right == SumFunction(cgHits)
Used == {p \in Stated : cgCalls[p] > 0}

-----------------------------------------------------------------------------
(* recalibrate: one block for every probability stated, then pools of them. *)

\* a's frequency is at most b's
AtMost(a, b) == a.hits * b.calls <= b.hits * a.calls

\* Two neighbours in one; it is known by the first probability of the two.
Pooled(blocks, i) ==
    LET a == blocks[i]  b == blocks[i + 1]
        pool == [from |-> a.from, hits |-> a.hits + b.hits, calls |-> a.calls + b.calls]
    IN  [k \in 1 .. Len(blocks) - 1 |-> IF k < i THEN blocks[k] ELSE IF k = i THEN pool ELSE blocks[k + 1]]

\* Mutant of Look: it goes on from the pool without a look back.
LookOnwards(loop) ==
    LET blocks == loop.blocks  i == loop.i IN
    IF i >= Len(blocks) THEN loop
    ELSE IF AtMost(blocks[i], blocks[i + 1]) THEN [blocks |-> blocks, i |-> i + 1]
    ELSE [blocks |-> Pooled(blocks, i), i |-> i]

\* A round of the loop: on to the next two, or a pool of these and a step back.
Look(loop) ==
    LET blocks == loop.blocks  i == loop.i IN
    IF i >= Len(blocks) THEN loop
    ELSE IF AtMost(blocks[i], blocks[i + 1]) THEN [blocks |-> blocks, i |-> i + 1]
    ELSE [blocks |-> Pooled(blocks, i), i |-> IF i > 1 THEN i - 1 ELSE i]

\* The loop; it is done in less than two rounds a block.
Pool(blocks) ==
    LET loop[n \in 0 .. 2 * Len(blocks)] == IF n = 0 THEN [blocks |-> blocks, i |-> 1] ELSE Look(loop[n - 1])
    IN  loop[2 * Len(blocks)].blocks

\* One block for every probability stated, in order.
Tied ==
    LET tied[p \in 0 .. 100] ==
            IF p = 0 THEN << >>
            ELSE IF p \in Used THEN Append(tied[p - 1], [from |-> p, hits |-> cgHits[p], calls |-> cgCalls[p]])
            ELSE tied[p - 1]
    IN  tied[100]

\* IsotonicRecalibrator.fit
Isotonic == Pool(Tied)

Clipped(q) == Max({500, Min({9500, q})})

\* apply: between the first probabilities of two blocks it interpolates.
Apply(blocks, p) ==
    LET below == {i \in DOMAIN blocks : blocks[i].from < p}
        at == Cardinality(below)
        Of(b) == (10000 * b.hits) \div b.calls
    IN  Clipped(
          CASE at = 0 -> Of(blocks[1])
            [] at = Len(blocks) -> Of(blocks[at])
            [] OTHER ->
                 LET a == blocks[at]  b == blocks[at + 1]
                 IN  (10000 * (a.hits * b.calls * (b.from - p) + b.hits * a.calls * (p - a.from)))
                       \div (a.calls * b.calls * (b.from - a.from)))

\* fit_recalibrator with its method left to it; none below MinPlatt.
Corrected(p) ==
    CASE Resolvable < MinPlatt -> 100 * p
      [] Resolvable >= MinPlatt /\ Resolvable < MinIsotonic -> Clipped(100 * p + cgShift)
      [] OTHER -> Apply(Isotonic, p)

-----------------------------------------------------------------------------
(* score_records; said is what each stated probability counts as. *)

BrierSum(said) ==
    SumFunction([p \in Used |-> cgHits[p] * (10000 - said[p]) * (10000 - said[p])
                                 + (cgCalls[p] - cgHits[p]) * said[p] * said[p]])

\* wilson_interval: the lower end
WilsonLow(hits, n, zSq) ==
    Max({0} \cup {low \in 0 .. 100 :
        /\ 100 * hits >= n * low
        /\ 10 * (100 * hits - n * low) * (100 * hits - n * low) >= zSq * n * low * (100 - low)})

ScoreOf(said) ==
    LET n == Resolvable
    IN  [n |-> n, hits |-> Right, claimed |-> SumFunction([p \in Used |-> cgCalls[p] * said[p]]),
         low |-> IF n = 0 THEN 0 ELSE WilsonLow(Right, n, CriticalSq[n]),
         beats |-> n > 0 /\ BrierSum(said) < n * 25000000]

Raw == [p \in Used |-> 100 * p]

\* Vault.score: the corrected scoreboard, if the correction helped.
Score ==
    LET corrected == [p \in Used |-> Corrected(p)]
    IN  ScoreOf(IF BrierSum(corrected) < BrierSum(Raw) THEN corrected ELSE Raw)

-----------------------------------------------------------------------------
(* The gates. *)

\* overconfidence > max_overconfidence
Overconfident(score) == score.claimed - 10000 * score.hits > MaxOverconfidence * score.n

Haircut(score) ==
    IF ~Overconfident(score) THEN 100
    ELSE Max({0, 100 - (100 * ((score.claimed - 10000 * score.hits) \div score.n - MaxOverconfidence)) \div HaircutSpan})

\* What the size is worked out from: the lower bound, moved by how this call's claim
\* compares with the average one.
EffectiveP(score, stated) ==
    LET ratio == IF score.claimed <= 5000 * score.n THEN 100
                 ELSE Max({50, Min({150, (10000 * stated * score.n) \div score.claimed})})
    IN  Max({50, Min({90, (score.low * ratio) \div 100})})

\* _kelly, in percent; move is <<magnitude, invalidation>>
Kelly(p, move) == Max({0, (p * move[1] - (100 - p) * move[2]) \div move[1]})

Blocked(verdict) == [verdict |-> verdict, approved |-> FALSE, fraction |-> 0]

\* evaluate: the gates in their order.
Evaluate(score, stated, move, manual) ==
    LET kelly == Kelly(EffectiveP(score, stated), move)
    IN  CASE manual -> Blocked("manually")
          [] ~manual /\ score.n = 0 -> Blocked("no_track_record")
          [] ~manual /\ score.n \in 1 .. MinSamples - 1 -> Blocked("insufficient_sample")
          [] OTHER ->
               IF ~score.beats THEN Blocked("no_skill")
               ELSE IF score.low <= 50 THEN Blocked("not_significant")
               ELSE IF Haircut(score) <= LeastHaircut THEN Blocked("miscalibrated")
               ELSE IF kelly = 0 THEN Blocked("stop_distance")
               ELSE [verdict |-> "approved", approved |-> TRUE,
                     fraction |-> Min({MaxPosition, (kelly * KellyPercent * Haircut(score)) \div 100})]

\* Mutant of Progress: the checklist still looks at the average.
ProgressOnAverage(score) ==
    [sample |-> score.n >= MinSamples, baseline |-> score.beats,
     real |-> score.n > 0 /\ 2 * score.hits > score.n, calibrated |-> score.n > 0 /\ ~Overconfident(score)]

\* progress: what the page ticks off.
Progress(score) ==
    [sample |-> score.n >= MinSamples, baseline |-> score.beats,
     real |-> score.low > 50, calibrated |-> score.n > 0 /\ ~Overconfident(score)]

Unlocked(list) == list.sample /\ list.baseline /\ list.real /\ list.calibrated

-----------------------------------------------------------------------------

\* A call that ended is scored: right, or wrong or stopped out.
CallEnds(p, right) ==
    /\ Resolvable < MaxResolved
    /\ cgCalls' = [cgCalls EXCEPT ![p] = @ + 1]
    /\ cgHits' = [cgHits EXCEPT ![p] = @ + (IF right THEN 1 ELSE 0)]
    /\ cgShift' \in PlattShifts

GateInit ==
    /\ cgHits = [p \in Stated |-> 0] /\ cgCalls = cgHits
    /\ cgShift \in PlattShifts

GateNext == \E p \in Stated, right \in BOOLEAN : CallEnds(p, right)
GateSpec == GateInit /\ [][GateNext]_cgVars

-----------------------------------------------------------------------------

\* The page's checklist and the gate that gives out capital are two pieces of code and
\* agree, whatever the record: a list that is all ticked leaves only the call's own
\* stop to refuse it, and capital is never given with one of the first three unticked.
\* Code: CapitalGate.progress and CapitalGate.evaluate.
ChecklistIsTheGate ==
    \E score \in {Score} : \A stated \in Stated, move \in Moves :
        LET decision == Evaluate(score, stated, move, FALSE)
            list == Progress(score)
        IN  /\ decision.approved => list.sample /\ list.baseline /\ list.real
            /\ Unlocked(list) => decision.verdict \in {"approved", "stop_distance"}

\* The least and the greatest a probability's pool can be: of every stretch of stated
\* probabilities around it, the max over its starts of the min over its ends.
Counts(record) == [p \in 1 .. 100 |-> IF p \in Used THEN record[p] ELSE 0]
Stretch(j, k) ==
    [hits |-> SumSeq(SubSeq(Counts(cgHits), j, k)), calls |-> SumSeq(SubSeq(Counts(cgCalls), j, k))]

\* Pooling the neighbours that are out of order, in place and with a step back, comes to
\* the monotone fit: the max-min of the means around every probability stated.
\* Code: the loop of IsotonicRecalibrator.fit.
PoolsAreTheFit ==
    \E blocks \in {Isotonic} : \A p \in Used :
        LET pool == blocks[Max({i \in DOMAIN blocks : blocks[i].from <= p})]
        IN  /\ \E j \in Used : j <= p /\ \A k \in Used : k >= p => AtMost(pool, Stretch(j, k))
            /\ \A j \in Used : j <= p => \E k \in Used : k >= p /\ AtMost(Stretch(j, k), pool)

\* "a call stated at 0.80 by a model whose 0.80s come in at 0.60 gets sized on something
\* much closer to 0.60": but the claim is the raw one and the average the corrected one.
SizedNearTheRecord ==
    \E score \in {Score} : \A p \in Used, move \in Moves :
        Evaluate(score, p, move, FALSE).approved =>
            LET sized == EffectiveP(score, p) * cgCalls[p]
                cameIn == 100 * cgHits[p]
                said == p * cgCalls[p]
            IN  cameIn < said /\ cgCalls[p] >= MinSamples => sized - cameIn <= said - sized

\* "a free-form monotone step function": a probability inside a pool is corrected to the
\* pool's frequency.  But the pool is known by its first, and apply interpolates.
CorrectedToItsPool ==
    \E blocks \in {Isotonic} : \A p \in Used :
        LET pool == blocks[Max({i \in DOMAIN blocks : blocks[i].from <= p})]
        IN  Resolvable >= MinIsotonic => Apply(blocks, p) = Clipped((10000 * pool.hits) \div pool.calls)
=============================================================================
