----------------------------- MODULE WalkForward -----------------------------
(***************************************************************************)
(* The vault's learning pass over series that grow: what was knowable on   *)
(* each past day and what came of it, the folds two models are compared    *)
(* on, the record every signal is weighted by, and the blend that follows. *)
(*                                                                         *)
(* Scores and correlations are in thousandths.  What a model's Brier score *)
(* and a signal's rank correlation come to, and the bound that one is      *)
(* tested against, are left open; everything done with them is not.        *)
(***************************************************************************)
EXTENDS Integers, Sequences, SequencesExt, FiniteSets, FiniteSetsExt, Functions

CONSTANTS
    TargetCloses,   \* what a day of the target can close at
    CurveCloses,    \* the other series, by day; Missing where it has no point
    Horizon, Step, Lookback,
    PriceTolerance, \* of value_on
    StaleAfter,     \* STALENESS_ZERO_CONFIDENCE_DAYS
    Folds, MinTrain,
    MinObservations, LeastMinority,   \* of a signal
    Reports,        \* what the mean Brier scores can come to: [base, logistic, network]
    Correlations,   \* <<ic, minimum_detectable_ic>> of a signal
    WinMargin, LeastEdge, MostBlend,  \* margin, MIN_EDGE and the cap
    LastTradingDay  \* bound on the calendar

ASSUME WalkAssumption ==
    /\ TargetCloses \subseteq Nat \ {0} /\ LastTradingDay \in Nat
    /\ Horizon \in Nat \ {0} /\ Step \in Nat \ {0} /\ Lookback \in Nat
    /\ PriceTolerance \in Nat /\ StaleAfter \in Nat
    /\ Folds \in Nat \ {0} /\ MinTrain \in Nat \ {0}
    /\ WinMargin \in Nat /\ LeastEdge \in Nat \ {0} /\ MostBlend \in 0 .. 1000

VARIABLES
    wfClose,   \* the target so far, by day; Missing where it has no point
    wfData,    \* the dataset of the last pass
    wfBlend    \* the predictor it adopted

wfVars == <<wfClose, wfData, wfBlend>>

Missing == 0
Curve == [d \in DOMAIN wfClose |-> CurveCloses[d]]
Points(series) == {d \in DOMAIN series : series[d] # Missing}
LastPoint(series) == Max(Points(series))

\* value_on: the day of the point that a day's value is taken from, or none.
PointFor(series, day) ==
    {d \in Points(series) : d <= day /\ day - d <= PriceTolerance /\ \A e \in Points(series) : e <= day => e <= d}

\* Mutant of Until: the day after is there to be read as well.
UntilTomorrow(series, day) == [d \in {d \in DOMAIN series : d <= day + 1} |-> series[d]]
\* until: what had been observed by a day.  Points count from the day they are about: when
\* they were published, and what they were revised to, is not known here either.
Until(series, day) == [d \in {d \in DOMAIN series : d <= day} |-> series[d]]

\* A signal, the change over the last two points: no reading, one that is too stale to
\* be used, or its sign.
Reading(history, day) ==
    LET points == Points(history)
        last == Max(points)
    IN  IF Cardinality(points) < 2 \/ day - last >= StaleAfter THEN [usable |-> FALSE, strength |-> 0]
        ELSE LET change == history[last] - history[Max(points \ {last})]
             IN  [usable |-> TRUE, strength |-> IF change > 0 THEN 1 ELSE IF change < 0 THEN -1 ELSE 0]

\* Mutant of LastDecision: every day there is a price for.
LastDecisionAtEnd == LastPoint(wfClose)
\* The last day whose outcome is in.
LastDecision == LastPoint(wfClose) - Horizon

\* The days a pass looks at.
Steps ==
    LET start == Max({Min(Points(wfClose)), LastDecision - Lookback})
    IN  {d \in start .. LastDecision : (d - start) % Step = 0}

Priced(close, d) == PointFor(close, d) # {} /\ PointFor(close, d + Horizon) # {}
Entry(close, d) == CHOOSE e \in PointFor(close, d) : TRUE
Exit(close, d) == CHOOSE e \in PointFor(close, d + Horizon) : TRUE

\* _forward_return, of which only the order matters.
Forward(close, d) == close[Exit(close, d)] - close[Entry(close, d)]

\* One sample of build_dataset, made from the target and the other series
Features(close, curve, d) == <<Reading(Until(close, d), d), Reading(Until(curve, d), d)>>
SampleOn(close, curve, d) ==
    [on |-> d, features |-> Features(close, curve, d), label |-> Forward(close, d) > 0, ends |-> d + Horizon]

\* build_dataset, day by day
BuildDataset ==
    LET upTo[n \in 0 .. LastPoint(wfClose)] ==
            IF n = 0 THEN << >>
            ELSE IF n - 1 \in Steps /\ Priced(wfClose, n - 1)
                 THEN Append(upTo[n - 1], SampleOn(wfClose, Curve, n - 1))
            ELSE upTo[n - 1]
    IN  IF Cardinality(Points(wfClose)) < 2 THEN << >> ELSE upTo[LastPoint(wfClose)]

-----------------------------------------------------------------------------

\* Mutant of Kept: nothing is purged.
KeptAll(sample, opens) == TRUE
\* purge: an outcome still open when the test begins
Kept(sample, opens) == sample.ends < opens

Block(data) == Len(data) \div (Folds + 1)

\* The k-th test is a block, the training what ends before it opens.
Fold(data, k) ==
    LET first == Block(data) * (k + 1) + 1
    IN  [train |-> {i \in 1 .. first - 1 : Kept(data[i], data[first].on)},
         test |-> first .. Min({Len(data), first + Block(data) - 1})]

\* purged_walk_forward.  The embargo is counted and leaves nothing out.
Splits(data) ==
    IF Len(data) < MinTrain + Folds \/ Block(data) < 1 THEN {}
    ELSE {split \in {Fold(data, k) : k \in 0 .. Folds - 1} : Cardinality(split.train) >= MinTrain}

\* What a fold's scaler, its base rate and its models are fitted on, the early stopping
\* of the network included.
FittedOn(split) == split.train

\* The inner split, at four fifths of the training block.
InnerTrain(split) ==
    LET cut == Max({1, (4 * Cardinality(split.train)) \div 5})
    IN  {i \in split.train : Cardinality({j \in split.train : j < i}) < cut}
InnerValidation(split) == split.train \ InnerTrain(split)

\* Mutant of Decide: the linear model needs no margin.
DecideOnLess(b) ==
    CASE b.base <= Min({b.logistic, b.network}) -> "base_rate"
      [] b.network < b.logistic - WinMargin /\ b.network < b.base -> "network"
      [] OTHER -> IF b.logistic < b.base THEN "logistic" ELSE "base_rate"

\* _decide
Decide(b) ==
    IF b.base <= Min({b.logistic, b.network}) THEN "base_rate"
    ELSE IF b.network < b.logistic - WinMargin THEN "network"
    ELSE IF b.logistic < b.base - WinMargin THEN "logistic"
    ELSE "base_rate"

-----------------------------------------------------------------------------

\* score_signal_history: what the signal said and what came next, where it was usable.
PairsOf(series) ==
    LET seen == {d \in Steps : Priced(wfClose, d) /\ Reading(Until(series, d), d).usable}
    IN  [d \in seen |-> [said |-> Reading(Until(series, d), d).strength, next |-> Forward(wfClose, d)]]

Saying(pairs, sign) == {d \in DOMAIN pairs : pairs[d].said = sign}
Total(pairs, days) == MapThenSumSet(LAMBDA d : pairs[d].next, days)

\* spread > 0, with the mean of no days 0
SpreadIsPositive(pairs) ==
    LET up == Saying(pairs, 1)  down == Saying(pairs, -1)
    IN  Total(pairs, up) * Max({1, Cardinality(down)}) > Total(pairs, down) * Max({1, Cardinality(up)})

\* _assign_weight: the hurdles in their order, then the correlation itself.
WeightOf(pairs, ic, detectable, selfReferential) ==
    LET n == Cardinality(DOMAIN pairs)
        minority == Min({Cardinality(Saying(pairs, 1)), Cardinality(Saying(pairs, -1))})
        cleared == /\ n >= MinObservations
                   /\ ~selfReferential
                   /\ minority >= Max({LeastMinority, (15 * n) \div 100})
                   /\ ic > detectable          \* significant, and not inverted
                   /\ SpreadIsPositive(pairs)
    IN  IF cleared THEN Min({200, ic}) ELSE 0

\* Predictor.adopt, of a report (NoReport if there were no folds) and the sum of the
\* signals' weights.
Adopt(briers, splits, earned, baseRate) ==
    LET winner == IF splits = {} THEN "base_rate" ELSE Decide(briers)
        beaten == briers.base - Min({briers.logistic, briers.network})
        modelEdge == IF winner # "base_rate" /\ beaten >= LeastEdge THEN beaten ELSE 0
        signalEdge == Min({50, earned \div 5})
        total == modelEdge + signalEdge
        cap == Min({MostBlend, 8 * total})
        own == CASE winner = "network" -> briers.base - briers.network
                 [] winner = "logistic" -> briers.base - briers.logistic
                 [] OTHER -> 0
    IN  [winner |-> winner, own |-> own, earned |-> earned, baseRate |-> baseRate,
         model |-> IF total = 0 THEN 0 ELSE (cap * modelEdge) \div total,
         signals |-> IF total = 0 THEN 0 ELSE (cap * signalEdge) \div total]

\* predict: a source with nothing to say now gives its weight back to the base rate.
Predict(blend, signalsSay, modelSays) ==
    LET ws == IF signalsSay = {} THEN 0 ELSE blend.signals
        wm == IF modelSays = {} \/ blend.winner = "base_rate" THEN 0 ELSE blend.model
        Of(says) == IF says = {} THEN 0 ELSE CHOOSE p \in says : TRUE
    IN  [probability |-> ((1000 - ws - wm) * blend.baseRate + ws * Of(signalsSay) + wm * Of(modelSays)) \div 1000,
         onBase |-> 1000 - ws - wm]

-----------------------------------------------------------------------------

Untrained == [winner |-> "base_rate", own |-> 0, earned |-> 0, baseRate |-> 500, model |-> 0, signals |-> 0]

\* The next day of the series, with a close of the target or without.
TradingDay ==
    /\ Cardinality(DOMAIN wfClose) <= LastTradingDay
    /\ \E close \in TargetCloses \cup {Missing} :
           wfClose' = [d \in 0 .. Cardinality(DOMAIN wfClose) |-> IF d \in DOMAIN wfClose THEN wfClose[d] ELSE close]
    /\ UNCHANGED <<wfData, wfBlend>>

\* learn: the scorecard, the folds, the predictor that replaces the one before.
LearnAgain ==
    \E data \in {BuildDataset}, pairs \in {PairsOf(Curve)}, same \in {PairsOf(wfClose)} :
        /\ wfData' = data
        /\ \E splits \in {Splits(data)}, c \in Correlations, scores \in Reports :
               wfBlend' = Adopt(scores, splits,
                                WeightOf(pairs, c[1], c[2], FALSE) + WeightOf(same, c[1], c[2], TRUE),
                                IF data = << >> THEN 500
                                ELSE (1000 * Cardinality({i \in DOMAIN data : data[i].label})) \div Len(data))
        /\ UNCHANGED wfClose

WalkInit ==
    /\ wfClose \in [{0} -> TargetCloses]
    /\ wfData = << >> /\ wfBlend = Untrained

WalkNext == TradingDay \/ LearnAgain

-----------------------------------------------------------------------------

\* A series as it was before a day had come
Before(series, day) == [d \in {e \in DOMAIN series : e < day} |-> series[d]]

\* Had the series stopped where a fold's test opens, each sample the fold is fitted on
\* would be there and be the same, outcome and all; and no sample, tested on or not, has a
\* feature it would not have had if they had stopped on its own day.  By the days that
\* points are about, not those they were published on.
\* Code: the purge of purged_walk_forward, build_dataset, Series.until.
FoldsKnowNoFuture ==
    /\ \A split \in Splits(wfData) :
           LET opens == wfData[Min(split.test)].on
               close == Before(wfClose, opens)
               curve == Before(Curve, opens)
           IN  \A i \in FittedOn(split) :
                   Priced(close, wfData[i].on) /\ wfData[i] = SampleOn(close, curve, wfData[i].on)
    /\ \A i \in DOMAIN wfData :
           LET on == wfData[i].on
           IN  wfData[i].features = Features(Before(wfClose, on + 1), Before(Curve, on + 1), on)

\* A day that a later pass samples again has the features and the outcome it had: what
\* the series got since changes neither.  Code: until and the end of build_dataset.
PastIsSettled ==
    [][\A i \in DOMAIN wfData, j \in DOMAIN wfData' :
           wfData[i].on = wfData'[j].on => wfData[i] = wfData'[j]]_wfVars

\* The model in the blend is one that beat the base rate out of sample by the least edge
\* itself, however the comparison between the two models went, and without an earned
\* weight the prior is the base rate whatever the sources say today.
\* Code: _decide, adopt, predict.
WeightIsEarned ==
    /\ wfBlend.model > 0 => wfBlend.own >= LeastEdge
    /\ wfBlend.model + wfBlend.signals <= MostBlend
    /\ \A signalsSay, modelSays \in {{}, {50}, {950}} :
           LET prior == Predict(wfBlend, signalsSay, modelSays)
           IN  wfBlend.own = 0 /\ wfBlend.earned = 0 => prior.probability = wfBlend.baseRate

\* "a random inner split leaks the same way the outer one would", so the chronological
\* one does not: but it is not purged.
InnerSplitKnowsNoFuture ==
    \A split \in Splits(wfData) : \A i \in InnerTrain(split), j \in InnerValidation(split) :
        wfData[i].ends < wfData[j].on

\* "whether the target rose over the following horizon_days": where the tolerance reaches
\* back over the whole horizon, the outcome is the price of the decision itself.
OutcomesComeLater ==
    \A i \in DOMAIN wfData : Exit(wfClose, wfData[i].on) > Entry(wfClose, wfData[i].on)

\* "Each source's weight is proportional to how much it beat the base rate by": the
\* model's is that of the better of the two, whichever of them was adopted.
WeightIsItsOwn ==
    LET signalEdge == Min({50, wfBlend.earned \div 5})
    IN  wfBlend.model > 0 /\ signalEdge = 0 => wfBlend.model = Min({MostBlend, 8 * wfBlend.own})
=============================================================================
