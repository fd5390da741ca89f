----------------------- MODULE TradingEngine_proofs -----------------------
(***************************************************************************)
(* Proofs about TradingEngine, for every limit, capital and concurrency.   *)
(***************************************************************************)
EXTENDS TradingEngine, SequenceTheorems, TLAPS

-----------------------------------------------------------------------------
(* The inductive invariant, by subject. *)

\* A scan that is going on has an opportunity in hand.
InHand == task \in {"considering", "passed", "cycle"} => queue \in 1 .. MaxConcurrent

\* Only a plan that passed before the halt can still start.
Halted ==
    /\ sinceHalt <= 1
    /\ ~engaged => sinceHalt = 0
    /\ engaged /\ task = "passed" => sinceHalt = 0

\* A plan that passed the check found the streak, the minute and the losses below their
\* limits, and nothing moves them before its cycle ends.
Streak ==
    /\ losses <= MaxLosses
    /\ task \in {"passed", "cycle"} => losses < MaxLosses

Window == task = "passed" => Len(recent) < MaxCycles

Bounded ==
    /\ peak > 0
    /\ LossesAreBounded
    /\ held = 0 /\ task \in {"passed", "cycle"} => ~DailyLossHit /\ ~DrawdownHit

EInv ==
    TypeOK /\ InHand /\ SlotsAreReturned /\ Halted /\ StuckHalts /\ Streak /\ Window /\ Bounded

-----------------------------------------------------------------------------
(* Being at a percentage limit. *)

LEMMA NoLossIsNoHit ==
  ASSUME NEW lost \in Int, lost <= 0, NEW base \in Nat, NEW pct \in Nat \ {0}
  PROVE  ~AtLimit(lost, base, pct)
  <1> SUFFICES ASSUME base > 0 PROVE lost * 100 < pct * base
    BY DEF AtLimit
  <1>1. pct * base > 0
    OBVIOUS
  <1>2. lost * 100 <= 0
    OBVIOUS
  <1>3. pct * base \in Int /\ lost * 100 \in Int
    OBVIOUS
  <1> DEFINE p == pct * base
             l == lost * 100
  <1> HIDE DEF p, l
  <1>4. p > 0 /\ l <= 0 /\ p \in Int /\ l \in Int
    BY <1>1, <1>2, <1>3 DEF p, l
  <1>5. l < p
    BY <1>4
  <1> QED BY <1>5 DEF p, l

LEMMA LessIsNoHit ==
  ASSUME NEW lost \in Int, NEW more \in Int, lost <= more, NEW base \in Nat,
         NEW pct \in Nat, ~AtLimit(more, base, pct)
  PROVE  ~AtLimit(lost, base, pct)
  <1> SUFFICES ASSUME base > 0, more * 100 < pct * base PROVE lost * 100 < pct * base
    BY DEF AtLimit
  <1> DEFINE p == pct * base
  <1>1. p \in Int
    OBVIOUS
  <1> HIDE DEF p
  <1>2. more * 100 < p
    BY DEF p
  <1>3. lost * 100 < p
    BY <1>1, <1>2
  <1> QED BY <1>3 DEF p

-----------------------------------------------------------------------------
(* What the end of a cycle does, whichever of the three ends it is. *)

CycleEnds == CycleAborts \/ CycleCloses \/ CycleSticks

LEMMA CycleEndFacts ==
  ASSUME EInv, CycleEnds
  PROVE  /\ task = "cycle"
         /\ \E d \in Int, newDay \in BOOLEAN :
              /\ d >= 0 - CycleLoss
              /\ equity + d \in 0 .. TopEquity
              /\ UpdateEquity(equity + d, newDay)
         /\ \E n \in CycleOrders : Sent(n)
         /\ held' \in Nat /\ held' >= held
         /\ NextOpportunity
         /\ inFlight' = IF inFlight > 0 THEN inFlight - 1 ELSE 0
         /\ losses' \in {losses, 0, losses + 1}
         /\ UNCHANGED <<raised, sinceHalt, asked>>
  <1>1. CASE CycleAborts
    <2>1. PICK n \in CycleOrders : Settle(n, 0, 0)
      BY <1>1 DEF CycleAborts
    <2>2. 0 \in Int /\ 0 >= 0 - CycleLoss
      BY EngineAssumption
    <2> QED BY <1>1, <2>1, <2>2 DEF CycleAborts, Settle, OnCycleFinished, EInv, TypeOK
  <1>2. CASE CycleCloses
    <2>1. PICK n \in CycleOrders, d \in (0 - CycleLoss) .. CycleGain, units \in {0, 1} :
            Settle(n, d, units) /\ OnCycleFinished(TRUE, d)
      BY <1>2 DEF CycleCloses
    <2>2. d \in Int /\ d >= 0 - CycleLoss /\ units \in Nat
      BY EngineAssumption
    <2> QED BY <2>1, <2>2 DEF Settle, OnCycleFinished, EInv, TypeOK
  <1>3. CASE CycleSticks
    <2>1. PICK n \in CycleOrders, d \in (0 - CycleLoss) .. 0 : Settle(n, d, 1)
      BY <1>3 DEF CycleSticks
    <2>2. d \in Int /\ d >= 0 - CycleLoss
      BY EngineAssumption
    <2> QED BY <1>3, <2>1, <2>2 DEF CycleSticks, Settle, OnCycleFinished, EInv, TypeOK
  <1> QED BY <1>1, <1>2, <1>3 DEF CycleEnds

\* The switch after a cycle's end is where it was, or engaged by a stuck cycle.
LEMMA CycleEndSwitch ==
  ASSUME EInv, CycleEnds
  PROVE  \/ engaged' = engaged /\ reason' = reason /\ stuck' = stuck
         \/ engaged' = TRUE /\ reason' \in Reasons /\ stuck' = "open"
  BY DEF CycleEnds, CycleAborts, CycleCloses, CycleSticks, EngageKillSwitch, switch,
         EInv, TypeOK, Reasons

LEMMA SentType ==
  ASSUME EInv, NEW n \in CycleOrders, Sent(n)
  PROVE  recent' \in Seq(Nat) /\ Len(recent') = Len(recent)
  <1>1. n \in Nat /\ recent \in Seq(Nat)
    BY GuardrailsAssumption, EngineAssumption DEF CycleOrders, EInv, TypeOK
  <1>2. CASE recent = <<>>
    BY <1>1, <1>2 DEF Sent
  <1>3. CASE recent # <<>>
    <2>1. Len(recent) \in 1 .. Len(recent)
      BY <1>1, <1>3
    <2>2. recent' = [recent EXCEPT ![Len(recent)] = n]
      BY <1>3 DEF Sent
    <2> QED BY <1>1, <2>1, <2>2, ExceptSeq
  <1> QED BY <1>2, <1>3

LEMMA NextOpportunityType ==
  ASSUME EInv, task \in {"considering", "cycle"}, NextOpportunity
  PROVE  /\ queue' \in 0 .. MaxConcurrent
         /\ task' \in {"considering", "idle"}
         /\ InHand'
  BY GuardrailsAssumption DEF EInv, TypeOK, InHand, NextOpportunity

\* A new equity within bounds keeps the three marks natural, and the peak above nothing.
LEMMA UpdateEquityType ==
  ASSUME EInv, NEW e \in Nat, NEW newDay \in BOOLEAN, UpdateEquity(e, newDay)
  PROVE  /\ equity' = e
         /\ equity' \in Nat /\ peak' \in Nat /\ dayStart' \in Nat
         /\ peak' > 0
         /\ peak' = peak \/ peak' = e
         /\ dayStart' = dayStart \/ dayStart' = e
  BY DEF EInv, TypeOK, Bounded, UpdateEquity

-----------------------------------------------------------------------------
(* Types. *)

LEMMA InitEInv == Init => EInv
  <1> SUFFICES ASSUME Init PROVE EInv
    OBVIOUS
  <1>1. TypeOK
    <2>1. recent \in Seq(Nat) /\ Len(recent) = 0
      BY DEF Init, InitGuardrails
    <2>2. engaged \in BOOLEAN /\ asked \in BOOLEAN /\ raised \in BOOLEAN
      BY DEF Init, InitGuardrails
    <2>3. queue \in 0 .. MaxConcurrent
      BY GuardrailsAssumption DEF Init
    <2> QED
      BY <2>1, <2>2, <2>3, GuardrailsAssumption
      DEF Init, InitGuardrails, TypeOK, Reasons
  <1>2. Bounded
    <2>1. /\ peak = Capital /\ equity = Capital /\ dayStart = Capital /\ Capital \in Nat
          /\ Capital > 0 /\ task = "idle"
      BY GuardrailsAssumption DEF Init, InitGuardrails
    <2>2. /\ peak - equity - CycleLoss \in Int /\ peak - equity - CycleLoss <= 0
          /\ dayStart - equity - CycleLoss \in Int /\ dayStart - equity - CycleLoss <= 0
      BY <2>1, EngineAssumption
    <2>3. /\ ~AtLimit(peak - equity - CycleLoss, peak, MaxDrawdownPct)
          /\ ~AtLimit(dayStart - equity - CycleLoss, dayStart, MaxDailyLossPct)
      BY <2>1, <2>2, NoLossIsNoHit, GuardrailsAssumption
    <2> QED BY <2>1, <2>3 DEF Bounded, LossesAreBounded
  <1>3. InHand /\ SlotsAreReturned /\ Halted /\ StuckHalts /\ Streak /\ Window
    BY GuardrailsAssumption
    DEF Init, InitGuardrails, InHand, SlotsAreReturned, Halted, StuckHalts, Streak, Window
  <1> QED BY <1>1, <1>2, <1>3 DEF EInv

LEMMA ScanTaskType ==
  ASSUME EInv, Scan \/ Drop \/ Pass \/ StartCycle
  PROVE  TypeOK'
  <1>1. CASE Scan
    BY <1>1, GuardrailsAssumption DEF Scan, EInv, TypeOK, rails
  <1>2. CASE Drop
    <2>1. engaged' \in BOOLEAN
      BY <1>2 DEF Drop, CheckAll, EngageKillSwitch, switch, EInv, TypeOK
    <2>2. reason' \in Reasons
      BY <1>2 DEF Drop, CheckAll, EngageKillSwitch, switch, EInv, TypeOK, Reasons
    <2>3. queue' \in 0 .. MaxConcurrent /\ task' \in {"considering", "idle"}
      BY <1>2, NextOpportunityType DEF Drop
    <2> QED BY <1>2, <2>1, <2>2, <2>3 DEF Drop, marks, EInv, TypeOK
  <1>3. CASE Pass
    BY <1>3 DEF Pass, EInv, TypeOK, rails
  <1>4. CASE StartCycle
    <2>1. recent' \in Seq(Nat) /\ Len(recent') <= MaxCycles
      BY <1>4, GuardrailsAssumption DEF StartCycle, OnCycleStarted, EInv, TypeOK, Window
    <2>2. inFlight' \in Nat /\ sinceHalt' \in Nat
      BY <1>4 DEF StartCycle, OnCycleStarted, EInv, TypeOK
    <2> QED BY <1>4, <2>1, <2>2 DEF StartCycle, switch, marks, EInv, TypeOK
  <1> QED BY <1>1, <1>2, <1>3, <1>4

LEMMA CycleEndType ==
  ASSUME EInv, CycleEnds \/ CycleRaises
  PROVE  TypeOK'
  <1>1. CASE CycleEnds
    <2>1. recent' \in Seq(Nat) /\ Len(recent') <= MaxCycles
      <3>1. PICK n \in CycleOrders : Sent(n)
        BY <1>1, CycleEndFacts
      <3> QED BY <3>1, SentType DEF EInv, TypeOK
    <2>2. equity' \in Nat /\ peak' \in Nat /\ dayStart' \in Nat
      <3>1. PICK d \in Int, newDay \in BOOLEAN :
              equity + d \in 0 .. TopEquity /\ UpdateEquity(equity + d, newDay)
        BY <1>1, CycleEndFacts
      <3>2. equity + d \in Nat
        BY <3>1, EngineAssumption
      <3> QED BY <3>1, <3>2, UpdateEquityType
    <2>3. queue' \in 0 .. MaxConcurrent /\ task' \in {"considering", "idle"}
      BY <1>1, CycleEndFacts, NextOpportunityType
    <2>4. engaged' \in BOOLEAN
      BY <1>1, CycleEndSwitch DEF EInv, TypeOK
    <2>5. reason' \in Reasons /\ stuck' \in {"none", "open", "known", "lost"}
      BY <1>1, CycleEndSwitch DEF EInv, TypeOK
    <2>6. inFlight' \in Nat /\ losses' \in Nat /\ held' \in Nat
      BY <1>1, CycleEndFacts DEF EInv, TypeOK
    <2>7. sinceHalt' \in Nat /\ asked' \in BOOLEAN /\ raised' \in BOOLEAN
      BY <1>1, CycleEndFacts DEF EInv, TypeOK
    <2> QED BY <2>1, <2>2, <2>3, <2>4, <2>5, <2>6, <2>7 DEF TypeOK
  <1>2. CASE CycleRaises
    <2>1. raised' \in BOOLEAN
      BY <1>2 DEF CycleRaises
    <2> QED BY <1>2, <2>1, GuardrailsAssumption DEF CycleRaises, rails, EInv, TypeOK
  <1> QED BY <1>1, <1>2

LEMMA AroundType ==
  ASSUME EInv,
         MarkEquity \/ MinutePasses \/ OperatorHalts \/ OperatorReleases
         \/ AssistantHalts \/ Stop
  PROVE  TypeOK'
  <1>1. CASE MarkEquity
    <2>1. PICK d \in {-1, 0, 1}, newDay \in BOOLEAN :
            equity + d \in 0 .. TopEquity /\ UpdateEquity(equity + d, newDay)
      BY <1>1 DEF MarkEquity
    <2>2. equity + d \in Nat
      BY <2>1, EngineAssumption
    <2> QED
      BY <1>1, <2>1, <2>2, UpdateEquityType DEF MarkEquity, switch, engine, EInv, TypeOK
  <1>2. CASE MinutePasses
    <2>1. recent' \in Seq(Nat) /\ Len(recent') <= MaxCycles
      <3>1. recent \in Seq(Nat) /\ recent # <<>> /\ Len(recent) <= MaxCycles
        BY <1>2 DEF MinutePasses, EInv, TypeOK
      <3>2. recent' \in Seq(Nat) /\ Len(recent') = Len(recent) - 1
        BY <1>2, <3>1, HeadTailProperties DEF MinutePasses
      <3> QED BY <3>1, <3>2, LenProperties, GuardrailsAssumption
    <2> QED BY <1>2, <2>1 DEF MinutePasses, switch, marks, engine, EInv, TypeOK
  <1>3. CASE OperatorHalts
    <2>1. engaged' \in BOOLEAN
      BY <1>3 DEF OperatorHalts, EngageKillSwitch
    <2>2. reason' \in Reasons
      BY <1>3 DEF OperatorHalts, EngageKillSwitch, EInv, TypeOK, Reasons
    <2> QED BY <1>3, <2>1, <2>2 DEF OperatorHalts, marks, engine, EInv, TypeOK
  <1>4. CASE OperatorReleases
    <2>1. engaged' \in BOOLEAN /\ asked' \in BOOLEAN
      BY <1>4 DEF OperatorReleases, ReleaseKillSwitch
    <2>2. reason' \in Reasons /\ losses' \in Nat /\ stuck' \in {"none", "open", "known", "lost"}
      BY <1>4 DEF OperatorReleases, ReleaseKillSwitch, EInv, TypeOK, Reasons
    <2> QED BY <1>4, <2>1, <2>2 DEF OperatorReleases, marks, EInv, TypeOK
  <1>5. CASE AssistantHalts
    <2>1. asked' \in BOOLEAN
      BY <1>5 DEF AssistantHalts
    <2> QED BY <1>5, <2>1 DEF AssistantHalts, rails, engine, EInv, TypeOK
  <1>6. CASE Stop
    BY <1>6, GuardrailsAssumption DEF Stop, rails, EInv, TypeOK
  <1> QED BY <1>1, <1>2, <1>3, <1>4, <1>5, <1>6

-----------------------------------------------------------------------------
(* Each part of the invariant, kept by every step. *)

LEMMA InHandKept == EInv /\ [Next]_vars => InHand'
  <1> SUFFICES ASSUME EInv, [Next]_vars PROVE InHand'
    OBVIOUS
  <1>1. CASE Scan
    BY <1>1, GuardrailsAssumption DEF Scan, InHand
  <1>2. CASE Drop
    BY <1>2, NextOpportunityType DEF Drop
  <1>3. CASE Pass \/ StartCycle
    BY <1>3 DEF Pass, StartCycle, EInv, InHand
  <1>4. CASE CycleEnds
    BY <1>4, CycleEndFacts, NextOpportunityType
  <1>5. CASE CycleRaises \/ Stop
    BY <1>5 DEF CycleRaises, Stop, InHand
  <1>6. CASE MarkEquity \/ MinutePasses \/ OperatorHalts \/ OperatorReleases \/ AssistantHalts
    BY <1>6 DEF MarkEquity, MinutePasses, OperatorHalts, OperatorReleases, AssistantHalts,
                engine, EInv, InHand
  <1>7. CASE UNCHANGED vars
    BY <1>7 DEF vars, EInv, InHand
  <1> QED BY <1>1, <1>2, <1>3, <1>4, <1>5, <1>6, <1>7 DEF Next, CycleEnds

LEMMA SlotsKept == EInv /\ [Next]_vars => SlotsAreReturned'
  <1> SUFFICES ASSUME EInv, [Next]_vars PROVE SlotsAreReturned'
    OBVIOUS
  <1>a. SlotsAreReturned
    BY DEF EInv
  <1>1. CASE Scan \/ Pass
    BY <1>1, <1>a DEF Scan, Pass, rails, SlotsAreReturned
  <1>2. CASE Drop
    <2>1. task' \in {"considering", "idle"}
      BY <1>2, NextOpportunityType DEF Drop
    <2> QED BY <1>2, <1>a, <2>1 DEF Drop, SlotsAreReturned
  <1>3. CASE StartCycle
    BY <1>3, <1>a DEF StartCycle, OnCycleStarted, SlotsAreReturned
  <1>4. CASE CycleEnds
    <2>1. /\ task = "cycle" /\ raised' = raised
          /\ inFlight' = IF inFlight > 0 THEN inFlight - 1 ELSE 0
      BY <1>4, CycleEndFacts
    <2>2. task' \in {"considering", "idle"}
      BY <1>4, CycleEndFacts, NextOpportunityType
    <2> QED BY <1>a, <2>1, <2>2 DEF SlotsAreReturned
  <1>5. CASE CycleRaises
    BY <1>5 DEF CycleRaises, SlotsAreReturned
  <1>6. CASE MarkEquity \/ MinutePasses \/ OperatorHalts \/ OperatorReleases \/ AssistantHalts
    BY <1>6, <1>a DEF MarkEquity, MinutePasses, OperatorHalts, OperatorReleases,
                      AssistantHalts, rails, engine, SlotsAreReturned
  <1>7. CASE Stop
    BY <1>7 DEF Stop, SlotsAreReturned
  <1>8. CASE UNCHANGED vars
    BY <1>8, <1>a DEF vars, SlotsAreReturned
  <1> QED BY <1>1, <1>2, <1>3, <1>4, <1>5, <1>6, <1>7, <1>8 DEF Next, CycleEnds

LEMMA HaltedKept == EInv /\ [Next]_vars => Halted'
  <1> SUFFICES ASSUME EInv, [Next]_vars PROVE Halted'
    OBVIOUS
  <1>a. Halted
    BY DEF EInv
  <1>b. sinceHalt \in Nat
    BY DEF EInv, TypeOK
  <1>1. CASE Scan
    BY <1>1, <1>a DEF Scan, rails, Halted
  <1>2. CASE Drop
    <2>1. task' # "passed"
      BY <1>2, NextOpportunityType DEF Drop
    <2>2. engaged => engaged'
      BY <1>2 DEF Drop, CheckAll, EngageKillSwitch, switch
    <2> QED BY <1>2, <1>a, <2>1, <2>2 DEF Drop, Halted
  <1>3. CASE Pass
    BY <1>3, <1>a DEF Pass, Clear, rails, Halted
  <1>4. CASE StartCycle
    BY <1>4, <1>a, <1>b DEF StartCycle, switch, Halted
  <1>5. CASE CycleEnds
    <2>1. task' # "passed" /\ sinceHalt' = sinceHalt
      BY <1>5, CycleEndFacts, NextOpportunityType
    <2>2. engaged => engaged'
      BY <1>5, CycleEndSwitch
    <2> QED BY <1>a, <2>1, <2>2 DEF Halted
  <1>6. CASE CycleRaises \/ AssistantHalts \/ Stop
    BY <1>6, <1>a DEF CycleRaises, AssistantHalts, Stop, rails, engine, Halted
  <1>7. CASE MarkEquity \/ MinutePasses
    BY <1>7, <1>a DEF MarkEquity, MinutePasses, switch, engine, Halted
  <1>8. CASE OperatorHalts
    BY <1>8, <1>a DEF OperatorHalts, EngageKillSwitch, engine, Halted
  <1>9. CASE OperatorReleases
    BY <1>9 DEF OperatorReleases, Halted
  <1>10. CASE UNCHANGED vars
    BY <1>10, <1>a DEF vars, Halted
  <1> QED
    BY <1>1, <1>2, <1>3, <1>4, <1>5, <1>6, <1>7, <1>8, <1>9, <1>10 DEF Next, CycleEnds

LEMMA StuckKept == EInv /\ [Next]_vars => StuckHalts'
  <1> SUFFICES ASSUME EInv, [Next]_vars PROVE StuckHalts'
    OBVIOUS
  <1>a. StuckHalts
    BY DEF EInv
  <1>1. CASE Scan \/ Pass \/ AssistantHalts \/ Stop
    <2>1. stuck' = stuck /\ engaged' = engaged
      BY <1>1 DEF Scan, Pass, AssistantHalts, Stop, rails, engine
    <2> QED BY <1>a, <2>1 DEF StuckHalts
  <1>2. CASE Drop
    <2>1. stuck' = stuck
      BY <1>2 DEF Drop
    <2>2. engaged => engaged'
      BY <1>2 DEF Drop, CheckAll, EngageKillSwitch, switch
    <2> QED BY <1>a, <2>1, <2>2 DEF StuckHalts
  <1>3. CASE StartCycle \/ MarkEquity \/ MinutePasses
    <2>1. stuck' = stuck /\ engaged' = engaged
      BY <1>3 DEF StartCycle, MarkEquity, MinutePasses, switch, engine
    <2> QED BY <1>a, <2>1 DEF StuckHalts
  <1>4. CASE CycleEnds
    BY <1>4, <1>a, CycleEndSwitch DEF StuckHalts
  <1>5. CASE CycleRaises
    BY <1>5 DEF CycleRaises, StuckHalts
  <1>6. CASE OperatorHalts
    BY <1>6 DEF OperatorHalts, EngageKillSwitch, StuckHalts
  <1>7. CASE OperatorReleases
    <2>1. stuck' # "open"
      BY <1>7, <1>a DEF OperatorReleases, StuckHalts
    <2> QED BY <2>1 DEF StuckHalts
  <1>8. CASE UNCHANGED vars
    <2>1. stuck' = stuck /\ engaged' = engaged
      BY <1>8 DEF vars
    <2> QED BY <1>a, <2>1 DEF StuckHalts
  <1> QED BY <1>1, <1>2, <1>3, <1>4, <1>5, <1>6, <1>7, <1>8 DEF Next, CycleEnds

LEMMA StreakKept == EInv /\ [Next]_vars => Streak'
  <1> SUFFICES ASSUME EInv, [Next]_vars PROVE Streak'
    OBVIOUS
  <1>a. Streak /\ losses \in Nat /\ MaxLosses \in Nat /\ MaxLosses > 0
    BY GuardrailsAssumption DEF EInv, TypeOK
  <1>1. CASE Scan
    BY <1>1, <1>a DEF Scan, rails, Streak
  <1>2. CASE Drop
    <2>1. task' \in {"considering", "idle"}
      BY <1>2, NextOpportunityType DEF Drop
    <2> QED BY <1>2, <1>a, <2>1 DEF Drop, Streak
  <1>3. CASE Pass
    BY <1>3, <1>a DEF Pass, Clear, TooManyLosses, rails, Streak
  <1>4. CASE StartCycle
    BY <1>4, <1>a DEF StartCycle, Streak
  <1>5. CASE CycleEnds
    <2>1. task = "cycle" /\ losses' \in {losses, 0, losses + 1}
      BY <1>5, CycleEndFacts
    <2>2. task' \in {"considering", "idle"}
      BY <1>5, CycleEndFacts, NextOpportunityType
    <2> QED BY <1>a, <2>1, <2>2 DEF Streak
  <1>6. CASE CycleRaises \/ AssistantHalts \/ Stop
    BY <1>6, <1>a DEF CycleRaises, AssistantHalts, Stop, rails, engine, Streak
  <1>7. CASE MarkEquity \/ MinutePasses \/ OperatorHalts
    BY <1>7, <1>a DEF MarkEquity, MinutePasses, OperatorHalts, engine, Streak
  <1>8. CASE OperatorReleases
    BY <1>8, <1>a DEF OperatorReleases, ReleaseKillSwitch, Streak
  <1>9. CASE UNCHANGED vars
    BY <1>9, <1>a DEF vars, Streak
  <1> QED BY <1>1, <1>2, <1>3, <1>4, <1>5, <1>6, <1>7, <1>8, <1>9 DEF Next, CycleEnds

LEMMA WindowKept == EInv /\ [Next]_vars => Window'
  <1> SUFFICES ASSUME EInv, [Next]_vars PROVE Window'
    OBVIOUS
  <1>a. Window /\ recent \in Seq(Nat) /\ MaxCycles \in Nat
    BY GuardrailsAssumption DEF EInv, TypeOK
  <1>1. CASE Scan \/ StartCycle \/ CycleRaises \/ Stop
    BY <1>1 DEF Scan, StartCycle, CycleRaises, Stop, Window
  <1>2. CASE Drop
    BY <1>2, NextOpportunityType DEF Drop, Window
  <1>3. CASE Pass
    <2>1. Len(recent) \in Nat /\ ~(Len(recent) >= MaxCycles)
      BY <1>3, <1>a, LenProperties DEF Pass, Clear, RatesHit
    <2>2. recent' = recent
      BY <1>3 DEF Pass, rails
    <2> QED BY <1>a, <2>1, <2>2 DEF Window
  <1>4. CASE CycleEnds
    BY <1>4, CycleEndFacts, NextOpportunityType DEF Window
  <1>5. CASE MinutePasses
    <2>1. task' = task /\ recent # <<>> /\ recent' = Tail(recent)
      BY <1>5 DEF MinutePasses, engine
    <2>2. Len(recent') = Len(recent) - 1 /\ Len(recent) \in Nat
      BY <1>a, <2>1, HeadTailProperties, LenProperties
    <2> QED BY <1>a, <2>1, <2>2 DEF Window
  <1>6. CASE MarkEquity \/ OperatorHalts \/ OperatorReleases \/ AssistantHalts
    BY <1>6, <1>a DEF MarkEquity, OperatorHalts, OperatorReleases, AssistantHalts, rails,
                      engine, Window
  <1>7. CASE UNCHANGED vars
    BY <1>7, <1>a DEF vars, Window
  <1> QED BY <1>1, <1>2, <1>3, <1>4, <1>5, <1>6, <1>7 DEF Next, CycleEnds

-----------------------------------------------------------------------------
(* The losses. *)

\* A step that leaves the three marks and the holding alone, and starts no plan past the
\* check, keeps the bound.
LEMMA BoundedIfStill ==
  ASSUME EInv, UNCHANGED marks, held' = held,
         task' \in {"passed", "cycle"} => task \in {"passed", "cycle"}
  PROVE  Bounded'
  <1>1. Bounded
    BY DEF EInv
  <1>2. equity' = equity /\ peak' = peak /\ dayStart' = dayStart
    BY DEF marks
  <1>3. peak' > 0 /\ LossesAreBounded'
    BY <1>1, <1>2 DEF Bounded, LossesAreBounded
  <1>4. held' = 0 /\ task' \in {"passed", "cycle"} => ~DailyLossHit' /\ ~DrawdownHit'
    BY <1>1, <1>2 DEF Bounded, DailyLossHit, DrawdownHit
  <1> QED BY <1>3, <1>4 DEF Bounded

\* One mark of equity that loses no more than a cycle may from where no limit is hit.
LEMMA OneCycleFurther ==
  ASSUME NEW before \in Nat, NEW after \in Nat, after >= before - CycleLoss,
         NEW base \in Nat, NEW baseAfter \in {base, after}, NEW pct \in Nat \ {0},
         NEW lost, lost = base - before, ~AtLimit(lost, base, pct),
         NEW lostAfter, lostAfter = baseAfter - after - CycleLoss
  PROVE  ~AtLimit(lostAfter, baseAfter, pct)
  <1>a. CycleLoss \in Nat
    BY EngineAssumption
  <1>1. CASE baseAfter = base
    <2>1. lostAfter \in Int /\ lost \in Int /\ lostAfter <= lost
      BY <1>1, <1>a
    <2> QED BY <1>1, <2>1, LessIsNoHit
  <1>2. CASE baseAfter = after
    <2>1. lostAfter \in Int /\ lostAfter <= 0
      BY <1>2, <1>a
    <2> QED BY <1>2, <2>1, NoLossIsNoHit
  <1> QED BY <1>1, <1>2

LEMMA BoundedKept == EInv /\ [Next]_vars => Bounded'
  <1> SUFFICES ASSUME EInv, [Next]_vars PROVE Bounded'
    OBVIOUS
  <1>a. Bounded
    BY DEF EInv
  <1>b. /\ equity \in Nat /\ peak \in Nat /\ dayStart \in Nat /\ held \in Nat
        /\ CycleLoss \in Nat
        /\ MaxDrawdownPct \in Nat \ {0} /\ MaxDailyLossPct \in Nat \ {0}
    BY GuardrailsAssumption, EngineAssumption DEF EInv, TypeOK
  <1>1. CASE Scan \/ CycleRaises \/ Stop
    BY <1>1, BoundedIfStill DEF Scan, CycleRaises, Stop, rails, marks
  <1>2. CASE Drop
    <2>1. task' \in {"considering", "idle"}
      BY <1>2, NextOpportunityType DEF Drop
    <2> QED BY <1>2, <2>1, BoundedIfStill DEF Drop
  <1>3. CASE Pass
    <2>1. /\ equity' = equity /\ peak' = peak /\ dayStart' = dayStart /\ held' = held
          /\ ~DailyLossHit /\ ~DrawdownHit
      BY <1>3 DEF Pass, Clear, rails
    <2>2. LossesAreBounded' /\ peak' > 0
      BY <1>a, <2>1 DEF Bounded, LossesAreBounded
    <2>3. ~DailyLossHit' /\ ~DrawdownHit'
      BY <2>1 DEF DailyLossHit, DrawdownHit
    <2> QED BY <2>2, <2>3 DEF Bounded
  <1>4. CASE StartCycle
    <2>1. UNCHANGED marks /\ held' = held /\ task = "passed"
      BY <1>4 DEF StartCycle
    <2> QED BY <2>1, BoundedIfStill
  <1>5. CASE CycleEnds
    <2>1. PICK d \in Int, newDay \in BOOLEAN :
            /\ d >= 0 - CycleLoss
            /\ equity + d \in 0 .. TopEquity
            /\ UpdateEquity(equity + d, newDay)
      BY <1>5, CycleEndFacts
    <2>2. equity + d \in Nat /\ equity + d >= equity - CycleLoss
      BY <1>b, <2>1, EngineAssumption
    <2>3. /\ equity' = equity + d /\ peak' > 0
          /\ peak' \in Nat /\ dayStart' \in Nat
          /\ peak' \in {peak, equity'} /\ dayStart' \in {dayStart, equity'}
      BY <2>1, <2>2, UpdateEquityType
    <2>4. task = "cycle" /\ task' \in {"considering", "idle"} /\ held' >= held /\ held' \in Nat
      BY <1>5, CycleEndFacts, NextOpportunityType
    <2>5. ASSUME held' = 0
          PROVE  /\ ~AtLimit(peak' - equity' - CycleLoss, peak', MaxDrawdownPct)
                 /\ ~AtLimit(dayStart' - equity' - CycleLoss, dayStart', MaxDailyLossPct)
      <3>1. held = 0
        BY <1>b, <2>4, <2>5
      <3>2. ~DailyLossHit /\ ~DrawdownHit
        BY <1>a, <2>4, <3>1 DEF Bounded
      <3>3. ~AtLimit(peak - equity, peak, MaxDrawdownPct)
        BY <3>2 DEF DrawdownHit
      <3>4. ~AtLimit(dayStart - equity, dayStart, MaxDailyLossPct)
        BY <3>2 DEF DailyLossHit
      <3>5. equity' \in Nat /\ equity' >= equity - CycleLoss
        BY <2>2, <2>3
      <3> DEFINE down == peak - equity
                 downAfter == peak' - equity' - CycleLoss
                 lost == dayStart - equity
                 lostAfter == dayStart' - equity' - CycleLoss
      <3>6. ~AtLimit(downAfter, peak', MaxDrawdownPct)
        <4>1. down = peak - equity /\ downAfter = peak' - equity' - CycleLoss
          OBVIOUS
        <4>2. ~AtLimit(down, peak, MaxDrawdownPct)
          BY <3>3
        <4>3. /\ equity' \in Nat /\ equity' >= equity - CycleLoss /\ peak' \in {peak, equity'}
              /\ equity \in Nat /\ peak \in Nat /\ MaxDrawdownPct \in Nat \ {0}
          BY <1>b, <2>3, <3>5
        <4> HIDE DEF down, downAfter
        <4> QED BY <4>1, <4>2, <4>3, OneCycleFurther
      <3>7. ~AtLimit(lostAfter, dayStart', MaxDailyLossPct)
        <4>1. lost = dayStart - equity /\ lostAfter = dayStart' - equity' - CycleLoss
          OBVIOUS
        <4>2. ~AtLimit(lost, dayStart, MaxDailyLossPct)
          BY <3>4
        <4>3. /\ equity' \in Nat /\ equity' >= equity - CycleLoss
              /\ dayStart' \in {dayStart, equity'}
              /\ equity \in Nat /\ dayStart \in Nat /\ MaxDailyLossPct \in Nat \ {0}
          BY <1>b, <2>3, <3>5
        <4> HIDE DEF lost, lostAfter
        <4> QED BY <4>1, <4>2, <4>3, OneCycleFurther
      <3> QED BY <3>6, <3>7
    <2> QED BY <2>3, <2>4, <2>5 DEF Bounded, LossesAreBounded
  <1>6. CASE MarkEquity
    <2>1. PICK d \in {-1, 0, 1}, newDay \in BOOLEAN :
            /\ d # 0 => held > 0
            /\ equity + d \in 0 .. TopEquity
            /\ UpdateEquity(equity + d, newDay)
      BY <1>6 DEF MarkEquity
    <2>2. task' = "idle" /\ held' = held
      BY <1>6 DEF MarkEquity, engine
    <2>3. equity + d \in Nat
      BY <2>1, EngineAssumption
    <2>4. /\ equity' = equity + d /\ peak' > 0
          /\ peak' \in Nat /\ dayStart' \in Nat
          /\ peak' \in {peak, equity'} /\ dayStart' \in {dayStart, equity'}
      BY <2>1, <2>3, UpdateEquityType
    <2>5. ASSUME held' = 0
          PROVE  /\ ~AtLimit(peak' - equity' - CycleLoss, peak', MaxDrawdownPct)
                 /\ ~AtLimit(dayStart' - equity' - CycleLoss, dayStart', MaxDailyLossPct)
      <3>1. equity' = equity
        BY <1>b, <2>1, <2>2, <2>4, <2>5
      <3>2. /\ ~AtLimit(peak - equity - CycleLoss, peak, MaxDrawdownPct)
            /\ ~AtLimit(dayStart - equity - CycleLoss, dayStart, MaxDailyLossPct)
        BY <1>a, <2>2, <2>5 DEF Bounded, LossesAreBounded
      <3>3. equity - equity - CycleLoss \in Int /\ equity - equity - CycleLoss <= 0
        BY <1>b
      <3>4. /\ ~AtLimit(equity - equity - CycleLoss, equity, MaxDrawdownPct)
            /\ ~AtLimit(equity - equity - CycleLoss, equity, MaxDailyLossPct)
        BY <1>b, <3>3, NoLossIsNoHit
      <3> QED BY <2>4, <3>1, <3>2, <3>4
    <2> QED BY <2>2, <2>4, <2>5 DEF Bounded, LossesAreBounded
  <1>7. CASE MinutePasses \/ OperatorHalts \/ AssistantHalts
    <2>1. UNCHANGED marks /\ held' = held /\ task' = task
      BY <1>7 DEF MinutePasses, OperatorHalts, AssistantHalts, rails, marks, engine
    <2> QED BY <2>1, BoundedIfStill
  <1>8. CASE OperatorReleases
    <2>1. UNCHANGED marks /\ held' = held /\ task' = task
      BY <1>8 DEF OperatorReleases
    <2> QED BY <2>1, BoundedIfStill
  <1>9. CASE UNCHANGED vars
    <2>1. UNCHANGED marks /\ held' = held /\ task' = task
      BY <1>9 DEF vars, marks
    <2> QED BY <2>1, BoundedIfStill
  <1> QED BY <1>1, <1>2, <1>3, <1>4, <1>5, <1>6, <1>7, <1>8, <1>9 DEF Next, CycleEnds

-----------------------------------------------------------------------------
(* The invariant, and what follows from it. *)

LEMMA TypeKept == EInv /\ [Next]_vars => TypeOK'
  <1> SUFFICES ASSUME EInv, [Next]_vars PROVE TypeOK'
    OBVIOUS
  <1>1. CASE Scan \/ Drop \/ Pass \/ StartCycle
    BY <1>1, ScanTaskType
  <1>2. CASE CycleEnds \/ CycleRaises
    BY <1>2, CycleEndType
  <1>3. CASE MarkEquity \/ MinutePasses \/ OperatorHalts \/ OperatorReleases
             \/ AssistantHalts \/ Stop
    BY <1>3, AroundType
  <1>4. CASE UNCHANGED vars
    BY <1>4 DEF vars, EInv, TypeOK
  <1> QED BY <1>1, <1>2, <1>3, <1>4 DEF Next, CycleEnds

LEMMA StepEInv == EInv /\ [Next]_vars => EInv'
  BY TypeKept, InHandKept, SlotsKept, HaltedKept, StuckKept, StreakKept, WindowKept,
     BoundedKept
  DEF EInv

LEMMA Invariant == Spec => []EInv
  BY InitEInv, StepEInv, PTL DEF Spec

\* The state keeps its shapes, and no minute sees more cycles than its limit.
THEOREM TypeCorrect == Spec => []TypeOK
  <1>1. EInv => TypeOK
    BY DEF EInv
  <1> QED BY <1>1, Invariant, PTL

\* A halt stops all cycles but the one whose plan had passed the guardrails before it.
THEOREM HaltCorrect == Spec => []HaltStopsAllButOne
  <1>1. EInv => HaltStopsAllButOne
    BY DEF EInv, Halted, HaltStopsAllButOne
  <1> QED BY <1>1, Invariant, PTL

\* A position reported as stuck keeps the engine halted until somebody releases it.
THEOREM StuckCorrect == Spec => []StuckHalts
  <1>1. EInv => StuckHalts
    BY DEF EInv
  <1> QED BY <1>1, Invariant, PTL

\* As long as no cycle raises, every slot of the concurrency limit comes back.
THEOREM SlotsCorrect == Spec => []SlotsAreReturned
  <1>1. EInv => SlotsAreReturned
    BY DEF EInv
  <1> QED BY <1>1, Invariant, PTL

\* The breakers overshoot by one cycle at the most: whatever the limits, an engine that
\* holds nothing has lost less than the limit and one cycle's loss.
THEOREM LossCorrect == Spec => []LossesAreBounded
  <1>1. EInv => LossesAreBounded
    BY DEF EInv, Bounded
  <1> QED BY <1>1, Invariant, PTL

\* The streak never passes its limit.
THEOREM StreakCorrect == Spec => []StreakIsBounded
  <1>1. EInv => StreakIsBounded
    BY DEF EInv, Streak, StreakIsBounded
  <1> QED BY <1>1, Invariant, PTL

=============================================================================
