----------------------------- MODULE LearnedGate -----------------------------
(***************************************************************************)
(* The gate a planned cycle passes before capital is risked, and the three *)
(* models behind it: will it fill, how much of its edge will slip, and how *)
(* far is the first one to be believed.  Every attempt teaches them.       *)
(*                                                                         *)
(* Probabilities are in hundredths, edges and costs in basis points, an EV *)
(* in hundredths of one.  Opportunities of one kind have the same features:*)
(* the bias and a coordinate of their own.  A gradient step moves what it  *)
(* moves by one; the random number is whatever it may be.                  *)
(***************************************************************************)
EXTENDS Integers, Sequences, SequencesExt, FiniteSetsExt, Functions

CONSTANTS
    Kinds,          \* the opportunities, by what the models see of them
    PlanOf,         \* what a plan for one says: [edge, fee, drag, legs]
    DefaultUnwind, MinEV, MinFill, Confidence,
    TrustAt, ColdRate, FloorRate, Prior,
    CalibrateAt,    \* samples before the calibrator has a say
    DeadZone,       \* l1
    Odds,           \* the logistic function over -MostScore .. MostScore
    MostScore,      \* bound on the weights
    MostSamples,    \* effective_n's cap
    RecentErrors,   \* window of recent_rmse
    Slips,          \* what a filled cycle can lose of its planned edge
    DriftConfidence, DriftFloor

ASSUME GateAssumption ==
    /\ {TrustAt, ColdRate, FloorRate, Prior, CalibrateAt, DeadZone, MostScore} \subseteq Nat
    /\ {MinEV, MostSamples, RecentErrors, DefaultUnwind, Confidence} \subseteq Nat \ {0}
    /\ Odds \in [-MostScore .. MostScore -> 1 .. 99]
    /\ TrustAt <= MostSamples /\ CalibrateAt <= MostSamples

VARIABLES
    lgModels,     \* fill model, slippage model and calibrator
    lgDecision,   \* the one being acted on
    lgStance,     \* the gate's confidence multiplier and exploration floor
    lgRestarted,  \* once, with the store empty before
    lgOffered     \* the kinds that the market has, for good

lgVars == <<lgModels, lgDecision, lgStance, lgRestarted, lgOffered>>

Bias == "bias"
Within(s) == Max({-MostScore, Min({MostScore, s})})
Unlearned ==
    [fill  |-> [z |-> [c \in Kinds \cup {Bias} |-> 0], samples |-> 0],
     slip  |-> [w |-> [k \in Kinds |-> 0], errors |-> << >>],
     platt |-> [shift |-> 0, samples |-> 0]]
Calm == [confidence |-> Confidence, floor |-> FloorRate]
NoDecision == [kind |-> "none"]

-----------------------------------------------------------------------------
(* What the models say. *)

\* A weight is zero inside the dead zone and grows from its edge.
Weight(z) == IF z \in -DeadZone .. DeadZone THEN 0 ELSE IF z > 0 THEN DeadZone - z ELSE -DeadZone - z
Score(m, k) == Within(Weight(m.fill.z[Bias]) + Weight(m.fill.z[k]))
Calibrated(m, score) ==
    IF m.platt.samples < CalibrateAt THEN Odds[score] ELSE Odds[Within(score + m.platt.shift)]

\* Blended with the prior until the model has seen enough, calibrated from then on.
FillProbability(m, k) ==
    LET n == m.fill.samples
    IN  IF n < TrustAt THEN (n * Odds[Score(m, k)] + (TrustAt - n) * Prior) \div TrustAt
        ELSE Calibrated(m, Score(m, k))

FailureCost(plan) ==
    IF plan.legs = 0 THEN DefaultUnwind
    ELSE (2 * plan.fee) \div plan.legs + (plan.drag + DefaultUnwind) \div 2

MeanSquare(errors) ==
    IF errors = << >> THEN 0 ELSE FoldLeft(LAMBDA sum, e : sum + e * e, 0, errors) \div Len(errors)

Judgement(m, k) ==
    LET p    == FillProbability(m, k)
        edge == PlanOf[k].edge - Max({0, m.slip.w[k]})
        cost == FailureCost(PlanOf[k])
        n    == Max({1, Min({m.fill.samples, MostSamples})})
    IN  [kind |-> k, p |-> p, edge |-> edge, ev |-> p * edge - (100 - p) * cost,
         variance |-> ((edge + cost) ^ 2 * p * (100 - p)) \div n + p * p * MeanSquare(m.slip.errors)]

-----------------------------------------------------------------------------
(* The screens. *)

Considerable(j) == j.edge > 0 /\ j.p >= MinFill
LowerBoundHolds(j, confidence) == j.ev >= 0 /\ j.ev * j.ev >= confidence * confidence * j.variance
Clears(j) == Considerable(j) /\ j.ev >= 100 * MinEV /\ LowerBoundHolds(j, lgStance.confidence)

\* Mutant of ExplorationRate: the rate rises with evidence instead of falling.
RateFromNothing(samples) ==
    LET progress == Min({samples, TrustAt})
    IN  IF TrustAt = 0 THEN lgStance.floor ELSE (ColdRate * progress) \div TrustAt

\* From the cold start's rate to the floor as evidence comes in.
ExplorationRate(samples) ==
    LET progress == Min({samples, TrustAt})
    IN  IF TrustAt = 0 THEN lgStance.floor
        ELSE (ColdRate * (TrustAt - progress) + lgStance.floor * progress) \div TrustAt

\* Refused for its EV or the EV's uncertainty, and not for what exploring would not mend.
Marginal(j) ==
    /\ Considerable(j) /\ ~Clears(j)
    /\ j.ev > -100 * MinEV
MayExplore(j) == Marginal(j) /\ ExplorationRate(lgModels.fill.samples) > 0

Decides(j, full) ==
    /\ lgDecision' = [kind |-> j.kind, edge |-> j.edge, p |-> j.p, full |-> full]
    /\ UNCHANGED <<lgModels, lgStance, lgRestarted, lgOffered>>

\* A refusal leaves all of this as it is.
Accept(k) == lgDecision = NoDecision /\ \E j \in {Judgement(lgModels, k)} : Clears(j) /\ Decides(j, TRUE)
Explore(k) == lgDecision = NoDecision /\ \E j \in {Judgement(lgModels, k)} : MayExplore(j) /\ Decides(j, FALSE)
Take(k) == Accept(k) \/ Explore(k)

-----------------------------------------------------------------------------
(* What comes of it. *)

\* The smaller size an exploration is planned again at cannot be ordered, or the cycle
\* raises: nobody is told.
NothingComes ==
    /\ lgDecision # NoDecision
    /\ lgDecision' = NoDecision
    /\ UNCHANGED <<lgModels, lgStance, lgRestarted, lgOffered>>

Sign(x) == IF x > 0 THEN 1 ELSE IF x < 0 THEN -1 ELSE 0

\* FTRL: the gradient is p - label on the bias and on the kind.
FillUpdate(fill, k, filled) ==
    LET gradient == IF filled THEN -1 ELSE 1
    IN  [z |-> [c \in DOMAIN fill.z |-> IF c \in {Bias, k} THEN Within(fill.z[c] + gradient) ELSE fill.z[c]],
         samples |-> Min({fill.samples + 1, MostSamples})]

\* Platt's offset follows every label, in steps that need not show.
PlattUpdate(platt, filled, step) ==
    [shift |-> Max({-1, Min({1, platt.shift + (IF filled THEN step ELSE -step)})}),
     samples |-> Min({platt.samples + 1, MostSamples})]

\* The label is what was expected less what came; the prediction moves towards it.
SlipUpdate(slip, d, lost) ==
    LET realized == PlanOf[d.kind].edge - lost
        residual == d.edge - realized
        error    == slip.w[d.kind] - residual
        errors   == Append(slip.errors, error)
    IN  [w |-> [slip.w EXCEPT ![d.kind] = @ - Sign(error)],
         errors |-> IF Len(errors) > RecentErrors THEN Tail(errors) ELSE errors]

\* observe: called for every cycle that was tried, filled or not.
Observed(m, d, filled, lost, step) ==
    [fill  |-> FillUpdate(m.fill, d.kind, filled),
     platt |-> PlattUpdate(m.platt, filled, step),
     slip  |-> IF filled THEN SlipUpdate(m.slip, d, lost) ELSE m.slip]

\* What the detectors of DriftWatch make of it is theirs to say; the response stays.
SettleCycle ==
    /\ lgDecision # NoDecision
    /\ lgDecision' = NoDecision
    /\ \E stance \in {lgStance, [confidence |-> DriftConfidence, floor |-> DriftFloor]} : lgStance' = stance
    /\ \E step \in {0, 1} :
        \/ \E lost \in Slips : lgModels' = Observed(lgModels, lgDecision, TRUE, lost, step)
        \/ lgModels' = Observed(lgModels, lgDecision, FALSE, 0, step)
    /\ UNCHANGED <<lgRestarted, lgOffered>>

\* The models are stored one after the other at shutdown: all of them, those before the
\* one that failed, or none if the process just dies.  Recent errors are not stored.
Restart(kept) ==
    /\ ~lgRestarted
    /\ lgModels' = [m \in DOMAIN lgModels |->
                      CASE m \notin kept -> Unlearned[m]
                        [] m = "slip"    -> [lgModels.slip EXCEPT !.errors = << >>]
                        [] OTHER         -> lgModels[m]]
    /\ lgDecision' = NoDecision /\ lgStance' = Calm
    /\ lgRestarted' = TRUE
    /\ UNCHANGED lgOffered

LearnedGateInit ==
    /\ lgModels = Unlearned
    /\ lgDecision = NoDecision /\ lgStance = Calm
    /\ lgRestarted = FALSE
    /\ lgOffered \in SUBSET Kinds

LearnedGateNext ==
    \/ \E k \in lgOffered : Accept(k) \/ Explore(k)
    \/ NothingComes \/ SettleCycle
    \/ \E kept \in {{}, {"fill"}, {"fill", "slip"}, {"fill", "slip", "platt"}} : Restart(kept)

\* Opportunities of the kinds on offer keep coming, the random number is now and then
\* small, and not every cycle comes to nothing.
Takes == \E k \in lgOffered : Take(k)
LearnedGateFairness == SF_lgVars(Takes) /\ SF_lgVars(SettleCycle)

-----------------------------------------------------------------------------
\* What a kind is worth to a gate that knows nothing: the prior on its edge, the rest on
\* what a failure costs.
ColdValue(k) == Prior * PlanOf[k].edge - (100 - Prior) * FailureCost(PlanOf[k])

\* "zero samples -> wide sigma -> every lower bound is negative -> nothing is accepted ->
\* no outcomes observed -> still zero samples": exploring gets the gate out of this, with
\* whatever else is on offer, exactly if something on offer loses less than the threshold
\* by the prior.  Where nothing does, it stays there.
\* Code: evaluate, _maybe_explore, current_exploration_rate, observe.
SomethingIsWorthExploring ==
    \E k \in lgOffered : PlanOf[k].edge > 0 /\ Prior >= MinFill /\ ColdValue(k) > -100 * MinEV
ColdStartIsLeftByTheMarginal ==
    /\ SomethingIsWorthExploring => <>(lgModels.fill.samples > 0)
    /\ ~SomethingIsWorthExploring => [](lgModels.fill.samples = 0)

\* "The fix is to make the exploration rate a function of ignorance": whatever is offered.
ColdStartIsLeft == lgOffered # {} => <>(lgModels.fill.samples > 0)

\* A kind of opportunity believed never to fill is tried again, or believed again.
ABadWeekIsRevised ==
    \A k \in Kinds : FillProbability(lgModels, k) < MinFill
        ~> (FillProbability(lgModels, k) >= MinFill \/ lgDecision.kind = k)

\* A slippage model whose recent predictions were all right predicts what slips.
SlippageIsLearned ==
    \A lost \in Slips : Slips = {lost} /\ Len(lgModels.slip.errors) = RecentErrors /\ (\A i \in 1 .. RecentErrors : lgModels.slip.errors[i] = 0)
        => \A k \in Kinds : lgModels.slip.w[k] \in {0, lost}

\* What is restored was stored together.
RestoredTogether == lgModels.fill.samples = lgModels.platt.samples

=============================================================================
