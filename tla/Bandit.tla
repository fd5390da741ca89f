-------------------------------- MODULE Bandit --------------------------------
(***************************************************************************)
(* The bandit over ways to work a cycle: a posterior for each arm, another *)
(* for each arm in each regime of the market, and what a restart keeps.    *)
(*                                                                         *)
(* alpha and beta are counted from their priors and without the decay; the *)
(* posterior over basis points, which arm a draw favours and the z-scores  *)
(* of the market are left open.                                            *)
(***************************************************************************)
EXTENDS Integers, Sequences, SequencesExt, FiniteSets, FiniteSetsExt, Functions

CONSTANTS
    Arms,
    Market,        \* <<warm, volatility z, spread z>>, the scores in hundredths
    MaxOutcomes,   \* bounds
    MaxCrashes

ASSUME BanditAssumption == MaxOutcomes \in Nat /\ MaxCrashes \in Nat

VARIABLES
    bnGlobal,     \* the arms
    bnRegimes,    \* the same in each regime that was met
    bnPending,    \* <<arm, regime>> of the cycle under way
    bnSaved,      \* the arms as stored, and how much of bnOutcomes they know
    bnOutcomes,   \* every outcome the posteriors were told of
    bnMet,        \* how many there were when a regime was first met
    bnCrashes

bnVars == <<bnGlobal, bnRegimes, bnPending, bnSaved, bnOutcomes, bnMet, bnCrashes>>

Unseen == ""    \* a caller that names no regime
Regime(m) ==
    LET vol == m[2]
        spread == m[3]
    IN  IF ~m[1] THEN "unknown"
        ELSE IF vol > 200 /\ spread > 150 THEN "stressed"
        ELSE IF vol > 100 THEN "active"
        ELSE IF spread > 150 /\ vol < 0 THEN "illiquid"
        ELSE IF vol < -50 /\ spread < 0 THEN "quiet"
        ELSE "normal"

FreshArms == [a \in Arms |-> [alpha |-> 0, beta |-> 0, pulls |-> 0, fills |-> 0]]
NoCycle == <<>>

\* A regime that is met for the first time starts from what all have taught, uncounted.
Opened(regime) == [a \in Arms |-> [bnGlobal[a] EXCEPT !.pulls = 0, !.fills = 0]]
BucketsWith(regime) ==
    IF regime = Unseen \/ regime \in DOMAIN bnRegimes THEN bnRegimes
    ELSE [r \in DOMAIN bnRegimes \cup {regime} |-> IF r = regime THEN Opened(regime) ELSE bnRegimes[r]]
MetWith(regime) ==
    IF regime = Unseen \/ regime \in DOMAIN bnMet THEN bnMet
    ELSE [r \in DOMAIN bnMet \cup {regime} |-> IF r = regime THEN Len(bnOutcomes) ELSE bnMet[r]]

\* Any arm can be drawn, by its posterior or by the floor.
SelectArm(regime) ==
    /\ bnPending = NoCycle /\ Len(bnOutcomes) < MaxOutcomes
    /\ bnRegimes' = BucketsWith(regime) /\ bnMet' = MetWith(regime)
    /\ \E arm \in Arms : bnPending' = <<arm, regime>>
    /\ UNCHANGED <<bnGlobal, bnSaved, bnOutcomes, bnCrashes>>

\* Refused further on, or raised: the arm hears nothing.
CycleDropped ==
    /\ bnPending # NoCycle /\ bnPending' = NoCycle
    /\ UNCHANGED <<bnGlobal, bnRegimes, bnSaved, bnOutcomes, bnMet, bnCrashes>>

Taught(arms, arm, filled) ==
    [arms EXCEPT ![arm] = IF filled THEN [@ EXCEPT !.pulls = @ + 1, !.alpha = @ + 1, !.fills = @ + 1]
                          ELSE [@ EXCEPT !.pulls = @ + 1, !.beta = @ + 1]]

\* Mutant of TaughtGlobal: the arms and the regime's are not known to be the same ones.
TaughtTwice(arm, regime, filled) ==
    IF regime = Unseen THEN Taught(Taught(bnGlobal, arm, filled), arm, filled) ELSE Taught(bnGlobal, arm, filled)

\* The arms and, where there is one, the regime's; without a regime they are the same
\* arms, and told once.
TaughtGlobal(arm, regime, filled) == Taught(bnGlobal, arm, filled)
TellOutcome(filled) ==
    /\ bnPending # NoCycle
    /\ LET arm == bnPending[1]
           regime == bnPending[2]
       IN  /\ bnGlobal' = TaughtGlobal(arm, regime, filled)
           /\ bnRegimes' = [r \in DOMAIN bnRegimes |->
                              IF r = regime THEN Taught(bnRegimes[r], arm, filled) ELSE bnRegimes[r]]
           /\ bnOutcomes' = Append(bnOutcomes, <<arm, regime, filled>>)
    /\ bnPending' = NoCycle
    /\ UNCHANGED <<bnSaved, bnMet, bnCrashes>>

\* load_state takes up the arms that were stored and none of the regimes.
RestartBandit(stored) ==
    /\ bnCrashes < MaxCrashes
    /\ bnSaved' = IF stored THEN [arms |-> bnGlobal, knows |-> Len(bnOutcomes)] ELSE bnSaved
    /\ bnGlobal' = bnSaved'.arms
    /\ bnOutcomes' = SubSeq(bnOutcomes, 1, bnSaved'.knows)
    /\ bnRegimes' = << >> /\ bnMet' = << >> /\ bnPending' = NoCycle
    /\ bnCrashes' = bnCrashes + 1

BanditInit ==
    /\ bnGlobal = FreshArms /\ bnRegimes = << >> /\ bnMet = << >>
    /\ bnPending = NoCycle /\ bnOutcomes = << >> /\ bnCrashes = 0
    /\ bnSaved = [arms |-> FreshArms, knows |-> 0]

BanditNext ==
    \/ \E regime \in {Unseen} \cup {Regime(m) : m \in Market} : SelectArm(regime)
    \/ CycleDropped
    \/ \E filled \in BOOLEAN : TellOutcome(filled)
    \/ \E stored \in BOOLEAN : RestartBandit(stored)

-----------------------------------------------------------------------------
\* Each outcome that was told is in an arm's posterior once: in the arm's own, and in a
\* regime's either as part of what it started from or because it came in that regime.
Told(arm, filled, Which(_, _)) ==
    Cardinality({i \in DOMAIN bnOutcomes :
        bnOutcomes[i][1] = arm /\ bnOutcomes[i][3] = filled /\ Which(i, bnOutcomes[i][2])})
EveryOutcomeCountsOnce ==
    /\ \A arm \in Arms : LET any(i, r) == TRUE
                         IN  /\ bnGlobal[arm].alpha = Told(arm, TRUE, any)
                             /\ bnGlobal[arm].beta = Told(arm, FALSE, any)
                             /\ bnGlobal[arm].pulls = bnGlobal[arm].alpha + bnGlobal[arm].beta
    /\ \A regime \in DOMAIN bnRegimes, arm \in Arms :
         LET known(i, r) == i <= bnMet[regime] \/ r = regime
             own(i, r)   == i > bnMet[regime] /\ r = regime
         IN  /\ bnRegimes[regime][arm].alpha = Told(arm, TRUE, known)
             /\ bnRegimes[regime][arm].beta = Told(arm, FALSE, known)
             /\ bnRegimes[regime][arm].pulls = Told(arm, TRUE, own) + Told(arm, FALSE, own)

\* A restart that stored everything has every regime it had.
RegimesAreKept == [][bnCrashes' > bnCrashes /\ bnSaved'.knows = Len(bnOutcomes) => DOMAIN bnRegimes' = DOMAIN bnRegimes]_bnVars

=============================================================================
