--------------------------- MODULE Vault_proofs ---------------------------
(***************************************************************************)
(* Proofs about the vault: the chain of calls for any number of threads,   *)
(* the verdicts of the grader for every market, the hashes of the journal  *)
(* whatever is torn or edited, the folds a model is fitted on, what a     *)
(* trade that is called locked pays, and the fit of the recalibration.     *)
(***************************************************************************)
EXTENDS VaultCycle, Grading, ThesisJournal, WalkForward, Baskets, CapitalGate,
        SequenceTheorems, FiniteSetTheorems, Inductions

VaultSpec == VaultInit /\ [][VaultNext]_vaultVars

-----------------------------------------------------------------------------
(* What a thread holds, and the journal. *)

Stages == {"idle", "scan", "resolve", "score", "macro", "flow", "bias", "gate", "learn"}
Hands ==
    [at : Stages, failed : BOOLEAN, due : SUBSET Nat, score : SUBSET Nat, scored : BOOLEAN,
     informed : BOOLEAN, head : Nat, basis : {"none", "live", "fixture"},
     answered : {"not asked", "no", "unpriced", "call"}]
Calls ==
    [due : Nat, basis : {"none", "live", "fixture"}, after : Nat,
     resolved : {"no", "none", "live", "fixture"}, informed : BOOLEAN]

VaultTypes ==
    /\ vDay \in Nat /\ vCalls \in Seq(Calls) /\ vSeries \in {"none", "live", "fixture"}
    /\ vLock \in BOOLEAN /\ vAt \in [Runners -> Hands]

\* Whoever is not idle holds the lock, and nobody else does.
OneAtWork ==
    /\ \A t \in Runners : vAt[t].at # "idle" => vLock
    /\ \A t, u \in Runners : vAt[t].at # "idle" /\ vAt[u].at # "idle" => t = u

\* The call a thread has in hand was chained to the last one there is, until it is made.
ChainedToTheLast ==
    \A t \in Runners : vAt[t].answered = "call" =>
        /\ vAt[t].at \in {"bias", "gate"}
        /\ vAt[t].at = "bias" => vAt[t].head = Len(vCalls)

VaultInv == VaultTypes /\ OneAtWork /\ ChainedToTheLast /\ CallsFormOneLine

-----------------------------------------------------------------------------
(* The steps. *)

LEMMA RestingHands == Resting \in Hands /\ Resting.at = "idle" /\ Resting.answered = "not asked"
  BY DEF Resting, Hands, Stages

\* A thread that is at work goes on: the others are idle, before and after.
LEMMA GoesOn ==
    ASSUME VaultInv, NEW t \in Runners, vAt[t].at # "idle",
           NEW mine \in Hands, NEW stage \in Stages, GoTo(t, mine, stage)
    PROVE  /\ vLock' \in BOOLEAN /\ vAt' \in [Runners -> Hands] /\ OneAtWork'
           /\ vAt'[t] = Resting \/ vAt'[t] = [mine EXCEPT !.at = stage]
           /\ \A u \in Runners \ {t} : vAt'[u] = vAt[u] /\ vAt[u].at = "idle"
  <1>1. Resting \in Hands /\ Resting.at = "idle"
    BY RestingHands
  <1>2. [mine EXCEPT !.at = stage] \in Hands /\ [mine EXCEPT !.at = stage].at = stage
    BY DEF Hands
  <1>3. vAt \in [Runners -> Hands] /\ vLock \in BOOLEAN
    BY DEF VaultInv, VaultTypes
  <1>4. /\ vAt' = [vAt EXCEPT ![t] = IF stage = "idle" THEN Resting ELSE [mine EXCEPT !.at = stage]]
        /\ vLock' = (vLock /\ stage # "idle")
    BY DEF GoTo
  <1>5. \A u \in Runners \ {t} : vAt[u].at = "idle"
    BY DEF VaultInv, OneAtWork
  <1>6. vLock = TRUE
    BY <1>3 DEF VaultInv, OneAtWork
  <1>7. vAt'[t] = IF stage = "idle" THEN Resting ELSE [mine EXCEPT !.at = stage]
    BY <1>3, <1>4
  <1>8. \A u \in Runners \ {t} : vAt'[u] = vAt[u]
    BY <1>3, <1>4
  <1>9. vAt' \in [Runners -> Hands] /\ vLock' \in BOOLEAN
    BY <1>1, <1>2, <1>3, <1>4
  <1>10. vAt'[t].at # "idle" => vLock'
    <2>1. CASE stage = "idle"
      BY <1>1, <1>7, <2>1
    <2>2. CASE stage # "idle"
      BY <1>4, <1>6, <2>2
    <2> QED BY <2>1, <2>2
  <1>11. OneAtWork'
    BY <1>5, <1>8, <1>10 DEF OneAtWork
  <1> QED BY <1>5, <1>7, <1>8, <1>9, <1>11

\* A stage that leaves the journal alone and takes no answer.
LEMMA StageKeeps ==
    ASSUME VaultInv, NEW t \in Runners, vAt[t].at # "idle",
           NEW mine \in Hands, NEW stage \in Stages, GoTo(t, mine, stage),
           mine.answered = "call" /\ stage # "idle" =>
               stage \in {"bias", "gate"} /\ (stage = "bias" => mine.head = Len(vCalls)),
           vDay' = vDay, vCalls' = vCalls, vSeries' \in {"none", "live", "fixture"}
    PROVE  VaultInv'
  <1>1. /\ vLock' \in BOOLEAN /\ vAt' \in [Runners -> Hands] /\ OneAtWork'
        /\ vAt'[t] = Resting \/ vAt'[t] = [mine EXCEPT !.at = stage]
        /\ \A u \in Runners \ {t} : vAt'[u] = vAt[u] /\ vAt[u].at = "idle"
    BY GoesOn
  <1>2. VaultTypes'
    BY <1>1 DEF VaultInv, VaultTypes
  <1>3. ChainedToTheLast'
    <2>1. CASE vAt'[t] = Resting
      BY <1>1, <2>1, RestingHands DEF ChainedToTheLast, VaultInv
    <2>2. CASE vAt'[t] = [mine EXCEPT !.at = stage] /\ stage # "idle"
      <3>1. vAt'[t].at = stage /\ vAt'[t].answered = mine.answered /\ vAt'[t].head = mine.head
        BY <2>2 DEF Hands
      <3> QED BY <1>1, <2>2, <3>1 DEF ChainedToTheLast, VaultInv
    <2>3. CASE stage = "idle"
      <3>1. vAt'[t] = Resting
        BY <2>3 DEF GoTo, VaultInv, VaultTypes
      <3> QED BY <2>1, <3>1
    <2> QED BY <1>1, <2>1, <2>2, <2>3
  <1>4. CallsFormOneLine'
    BY DEF VaultInv, CallsFormOneLine
  <1> QED BY <1>1, <1>2, <1>3, <1>4 DEF VaultInv

\* The hands a stage works with.
LEMMA HandsAt ==
    ASSUME VaultInv, NEW t \in Runners
    PROVE  vAt[t] \in Hands /\ vSeries \in {"none", "live", "fixture"} /\ vCalls \in Seq(Calls)
  BY DEF VaultInv, VaultTypes

LEMMA AskKeeps ==
    ASSUME VaultInv, NEW t \in Runners, Ask(t)
    PROVE  VaultInv'
  <1>1. /\ vAt \in [Runners -> Hands] /\ vLock = FALSE
        /\ \A u \in Runners : vAt[u].at = "idle"
    BY DEF VaultInv, VaultTypes, OneAtWork, Ask, Acquire
  <1>2. PICK wants \in {"scan", "learn"} : vAt' = [vAt EXCEPT ![t].at = wants]
    BY DEF Ask
  <1>3. /\ vAt' \in [Runners -> Hands] /\ vAt'[t].at = wants
        /\ vAt'[t].answered = vAt[t].answered
    <2>1. /\ [vAt[t] EXCEPT !.at = wants] \in Hands /\ [vAt[t] EXCEPT !.at = wants].at = wants
          /\ [vAt[t] EXCEPT !.at = wants].answered = vAt[t].answered
      BY <1>1 DEF Hands, Stages
    <2> QED BY <1>1, <1>2, <2>1
  <1>4. \A u \in Runners \ {t} : vAt'[u] = vAt[u]
    BY <1>1, <1>2
  <1>5. VaultTypes'
    BY <1>3 DEF VaultInv, VaultTypes, Ask
  <1>6. OneAtWork'
    BY <1>1, <1>4 DEF OneAtWork, Ask
  <1>7. ChainedToTheLast'
    BY <1>1, <1>3, <1>4 DEF ChainedToTheLast, VaultInv, Ask
  <1>8. CallsFormOneLine'
    BY DEF VaultInv, CallsFormOneLine, Ask
  <1> QED BY <1>5, <1>6, <1>7, <1>8 DEF VaultInv

\* Grading marks calls, and moves none of them.
LEMMA ResolveStageKeeps ==
    ASSUME VaultInv, NEW t \in Runners, ResolveStage(t)
    PROVE  VaultInv'
  <1>1. /\ vAt[t] \in Hands /\ vSeries \in {"none", "live", "fixture"} /\ vCalls \in Seq(Calls)
        /\ vAt[t].at = "resolve"
    BY HandsAt DEF ResolveStage
  <1>2. Due \in SUBSET Nat
    BY <1>1 DEF Due
  <1>3. /\ [vAt[t] EXCEPT !.due = Due] \in Hands
        /\ Failing([vAt[t] EXCEPT !.due = Due]) \in Hands
    BY <1>1, <1>2 DEF Hands, Failing
  <1>4. ASSUME NEW open, NEW upTo
        PROVE  /\ Graded(open, upTo) \in Seq(Calls) /\ Len(Graded(open, upTo)) = Len(vCalls)
               /\ \A i \in DOMAIN vCalls : Graded(open, upTo)[i].after = vCalls[i].after
    <2> DEFINE graded == Graded(open, upTo)
    <2>1. \A i \in DOMAIN vCalls : vCalls[i] \in Calls
      BY <1>1
    <2>2. \A i \in DOMAIN vCalls : graded[i] \in Calls /\ graded[i].after = vCalls[i].after
      BY <1>1, <2>1 DEF Graded, Calls
    <2>3. /\ graded = [i \in DOMAIN vCalls |-> graded[i]]
          /\ DOMAIN vCalls = 1 .. Len(vCalls) /\ Len(vCalls) \in Nat
      BY <1>1 DEF Graded
    <2>4. graded \in Seq(Calls) /\ Len(graded) = Len(vCalls)
      BY <2>2, <2>3
    <2> QED BY <2>2, <2>4
  <1>4a. ASSUME NEW mine \in {[vAt[t] EXCEPT !.due = Due], Failing([vAt[t] EXCEPT !.due = Due])}
         PROVE  mine.answered # "call"
    BY <1>1 DEF Failing, Hands, VaultInv, ChainedToTheLast
  <1>5. PICK mine \in Hands : GoTo(t, mine, "score") /\ mine.answered # "call"
    BY <1>3, <1>4a DEF ResolveStage, After
  <1>6. /\ vCalls' \in Seq(Calls) /\ Len(vCalls') = Len(vCalls)
        /\ \A i \in DOMAIN vCalls : vCalls'[i].after = vCalls[i].after
    <2>1. \E open, upTo : vCalls' = Graded(open, upTo)
      BY DEF ResolveStage
    <2> QED BY <1>4, <2>1
  <1>7. /\ vLock' \in BOOLEAN /\ vAt' \in [Runners -> Hands] /\ OneAtWork'
        /\ vAt'[t] = Resting \/ vAt'[t] = [mine EXCEPT !.at = "score"]
        /\ \A u \in Runners \ {t} : vAt'[u] = vAt[u] /\ vAt[u].at = "idle"
    BY <1>1, <1>5, GoesOn DEF Stages
  <1>8. VaultTypes'
    BY <1>6, <1>7 DEF VaultInv, VaultTypes, ResolveStage
  <1>9. ChainedToTheLast'
    <2>1. vAt'[t].answered # "call"
      BY <1>5, <1>7, RestingHands DEF Hands
    <2> QED BY <1>6, <1>7, <2>1 DEF ChainedToTheLast, VaultInv
  <1>10. CallsFormOneLine'
    BY <1>1, <1>6 DEF VaultInv, CallsFormOneLine
  <1> QED BY <1>7, <1>8, <1>9, <1>10 DEF VaultInv

\* The call is appended after the one it was chained to.
LEMMA CommitCallKeeps ==
    ASSUME VaultInv, NEW t \in Runners, CommitCall(t)
    PROVE  VaultInv'
  <1>1. /\ vAt[t] \in Hands /\ vCalls \in Seq(Calls) /\ vDay \in Nat
        /\ vAt[t].at = "bias" /\ vAt[t].head = Len(vCalls)
    BY HandsAt DEF CommitCall, VaultInv, VaultTypes, ChainedToTheLast
  <1>2. CASE vCalls' = vCalls
    <2>1. PICK stage \in {"gate", "idle"} : GoTo(t, vAt[t], stage)
      BY DEF CommitCall, After
    <2> QED BY <1>1, <1>2, <2>1, StageKeeps, HandsAt DEF CommitCall, Stages
  <1>3. CASE /\ GoTo(t, vAt[t], "gate")
             /\ \E days \in Horizons :
                  vCalls' = Append(vCalls, [due |-> vDay + days, basis |-> vAt[t].basis,
                                            after |-> vAt[t].head, resolved |-> "no",
                                            informed |-> vAt[t].informed])
    <2>1. PICK days \in Horizons :
            vCalls' = Append(vCalls, [due |-> vDay + days, basis |-> vAt[t].basis,
                                      after |-> vAt[t].head, resolved |-> "no",
                                      informed |-> vAt[t].informed])
      BY <1>3
    <2>2. vDay + days \in Nat
      BY <1>1, VaultAssumption
    <2> DEFINE call == [due |-> vDay + days, basis |-> vAt[t].basis, after |-> vAt[t].head,
                        resolved |-> "no", informed |-> vAt[t].informed]
    <2>3. call \in Calls /\ call.after = Len(vCalls) /\ vCalls' = Append(vCalls, call)
      BY <1>1, <2>1, <2>2 DEF Hands, Calls
    <2> HIDE DEF call
    <2>4. /\ vCalls' \in Seq(Calls) /\ Len(vCalls') = Len(vCalls) + 1
          /\ vCalls'[Len(vCalls) + 1] = call
          /\ \A i \in 1 .. Len(vCalls) : vCalls'[i] = vCalls[i]
      BY <1>1, <2>3
    <2>5. /\ vLock' \in BOOLEAN /\ vAt' \in [Runners -> Hands] /\ OneAtWork'
          /\ vAt'[t] = Resting \/ vAt'[t] = [vAt[t] EXCEPT !.at = "gate"]
          /\ \A u \in Runners \ {t} : vAt'[u] = vAt[u] /\ vAt[u].at = "idle"
      BY <1>1, <1>3, GoesOn DEF Stages
    <2>6. VaultTypes'
      BY <2>4, <2>5 DEF VaultInv, VaultTypes, CommitCall
    <2>7. ChainedToTheLast'
      <3>1. vAt'[t].at # "bias" /\ vAt'[t].at \in {"idle", "gate"}
        BY <1>1, <2>5, RestingHands DEF Hands
      <3>2. vAt'[t].answered = "call" => vAt'[t].at = "gate"
        BY <2>5, <3>1, RestingHands DEF Hands
      <3> QED BY <2>5, <3>1, <3>2 DEF ChainedToTheLast, VaultInv
    <2>8. CallsFormOneLine'
      <3>1. \A i \in 1 .. Len(vCalls) : vCalls[i].after = i - 1
        BY <1>1 DEF VaultInv, CallsFormOneLine
      <3>2. DOMAIN vCalls' = 1 .. Len(vCalls) + 1 /\ Len(vCalls) \in Nat
        BY <1>1, <2>4
      <3>3. ASSUME NEW i \in DOMAIN vCalls' PROVE vCalls'[i].after = i - 1
        BY <2>3, <2>4, <3>1, <3>2
      <3> QED BY <3>3 DEF CallsFormOneLine
    <2> QED BY <2>5, <2>6, <2>7, <2>8 DEF VaultInv
  <1> QED BY <1>2, <1>3 DEF CommitCall, After

LEMMA WorkKeeps ==
    ASSUME VaultInv, NEW t \in Runners, Cycle(t)
    PROVE  VaultInv'
  <1>1. vAt[t] \in Hands /\ vSeries \in {"none", "live", "fixture"} /\ vCalls \in Seq(Calls)
    BY HandsAt
  <1>2. Failing(vAt[t]) \in Hands
    BY <1>1 DEF Hands, Failing
  <1>3. ASSUME NEW answers, Loaded(answers) PROVE vSeries' \in {"none", "live", "fixture"}
    BY <1>1, <1>3 DEF Loaded
  <1>0. vAt[t].answered = "call" => vAt[t].at \in {"bias", "gate"}
    BY DEF VaultInv, ChainedToTheLast
  <1>4. CASE Scan(t)
    <2>1. PICK stage \in {"resolve", "idle"} : GoTo(t, vAt[t], stage)
      BY <1>4 DEF Scan, After
    <2>2. vAt[t].at # "idle" /\ vSeries' \in {"none", "live", "fixture"}
      BY <1>1, <1>3, <1>4 DEF Scan
    <2> QED BY <1>0, <1>1, <1>4, <2>1, <2>2, StageKeeps DEF Scan, Stages
  <1>5. CASE ResolveStage(t)
    BY <1>5, ResolveStageKeeps
  <1>6. CASE ScoreStage(t)
    <2>1. Resolved \in SUBSET Nat
      BY <1>1 DEF Resolved
    <2>2. [vAt[t] EXCEPT !.score = Resolved, !.scored = TRUE] \in Hands
      BY <1>1, <2>1 DEF Hands
    <2>3. PICK mine \in Hands : GoTo(t, mine, "macro") /\ mine.answered = vAt[t].answered
      BY <1>1, <1>2, <1>6, <2>2 DEF ScoreStage, After, Failing, Hands
    <2> QED BY <1>0, <1>1, <1>3, <1>6, <2>3, StageKeeps DEF ScoreStage, Stages
  <1>7. CASE MacroStage(t)
    <2>1. PICK stage \in {"flow", "idle"} : GoTo(t, vAt[t], stage)
      BY <1>7 DEF MacroStage, After
    <2> QED BY <1>0, <1>1, <1>3, <1>7, <2>1, StageKeeps DEF MacroStage, Stages
  <1>8. CASE FlowStage(t)
    <2>1. PICK mine \in Hands : GoTo(t, mine, "bias") /\ mine.answered = vAt[t].answered
      BY <1>1, <1>2, <1>8 DEF FlowStage, After, Failing, Hands
    <2> QED BY <1>0, <1>1, <1>3, <1>8, <2>1, StageKeeps DEF FlowStage, Stages
  <1>9. CASE AskModel(t)
    <2>1. CASE GoTo(t, vAt[t], "idle")
      BY <1>1, <1>9, <2>1, StageKeeps DEF AskModel, Stages
    <2>2. CASE \E mine \in Hands : GoTo(t, mine, "bias") /\ mine.answered = "no"
      BY <1>1, <1>9, <2>2, StageKeeps DEF AskModel, Stages
    <2>3. [vAt[t] EXCEPT !.answered = "no", !.basis = vSeries, !.due = {}, !.score = {},
                         !.informed = vAt[t].failed \/ vAt[t].due \subseteq vAt[t].score] \in Hands
      BY <1>1 DEF Hands
    <2> QED BY <1>1, <1>9, <2>1, <2>2, <2>3 DEF AskModel, Hands
  <1>10. CASE ModelAnswers(t)
    <2>1. CASE GoTo(t, vAt[t], "gate")
      BY <1>1, <1>10, <2>1, StageKeeps DEF ModelAnswers, Stages
    <2>2. CASE GoTo(t, [vAt[t] EXCEPT !.answered = "unpriced"], "gate")
      <3>1. /\ [vAt[t] EXCEPT !.answered = "unpriced"] \in Hands
            /\ [vAt[t] EXCEPT !.answered = "unpriced"].answered = "unpriced"
        BY <1>1 DEF Hands
      <3> QED BY <1>1, <1>10, <2>2, <3>1, StageKeeps DEF ModelAnswers, Stages
    <2>3. CASE GoTo(t, [vAt[t] EXCEPT !.answered = "call", !.head = Len(vCalls)], "bias")
      <3>1. /\ [vAt[t] EXCEPT !.answered = "call", !.head = Len(vCalls)] \in Hands
            /\ [vAt[t] EXCEPT !.answered = "call", !.head = Len(vCalls)].head = Len(vCalls)
        <4>1. Len(vCalls) \in Nat
          BY <1>1
        <4> QED BY <1>1, <4>1 DEF Hands
      <3> QED BY <1>1, <1>10, <2>3, <3>1, StageKeeps DEF ModelAnswers, Stages
    <2> QED BY <1>10, <2>1, <2>2, <2>3 DEF ModelAnswers, After
  <1>11. CASE CommitCall(t)
    BY <1>11, CommitCallKeeps
  <1>12. CASE GateStage(t)
    BY <1>0, <1>1, <1>3, <1>12, StageKeeps DEF GateStage, Stages
  <1>13. CASE LearnPass(t)
    <2>1. vSeries' \in {"none", "live", "fixture"}
      BY <1>1, <1>3, <1>13 DEF LearnPass
    <2> QED BY <1>0, <1>1, <1>13, <2>1, StageKeeps DEF LearnPass, Stages
  <1> QED
    BY <1>4, <1>5, <1>6, <1>7, <1>8, <1>9, <1>10, <1>11, <1>12, <1>13 DEF Cycle

-----------------------------------------------------------------------------

LEMMA VaultInvInit == VaultInit => VaultInv
  <1> SUFFICES ASSUME VaultInit PROVE VaultInv
    OBVIOUS
  <1>1. /\ vAt \in [Runners -> Hands] /\ \A t \in Runners : vAt[t] = Resting
        /\ vCalls = << >> /\ vCalls \in Seq(Calls)
    <2>1. vAt = [t \in Runners |-> Resting] /\ vCalls = << >>
      BY DEF VaultInit
    <2>2. << >> \in Seq(Calls)
      OBVIOUS
    <2> QED BY <2>1, <2>2, RestingHands
  <1>2. VaultTypes
    BY <1>1 DEF VaultInit, VaultTypes
  <1>3. OneAtWork /\ ChainedToTheLast
    BY <1>1, RestingHands DEF OneAtWork, ChainedToTheLast
  <1>4. CallsFormOneLine
    BY <1>1 DEF CallsFormOneLine
  <1> QED BY <1>2, <1>3, <1>4 DEF VaultInv

LEMMA VaultStepKeeps == VaultInv /\ [VaultNext]_vaultVars => VaultInv'
  <1> SUFFICES ASSUME VaultInv, [VaultNext]_vaultVars PROVE VaultInv'
    OBVIOUS
  <1>1. ASSUME vCalls' = vCalls, vAt' = vAt, vLock' = vLock, vSeries' = vSeries, vDay' \in Nat
        PROVE  VaultInv'
    BY <1>1 DEF VaultInv, VaultTypes, OneAtWork, ChainedToTheLast, CallsFormOneLine
  <1>2. vDay \in Nat
    BY DEF VaultInv, VaultTypes
  <1>3. CASE Snapshot \/ UNCHANGED vaultVars
    BY <1>1, <1>2, <1>3 DEF Snapshot, vaultVars
  <1>4. CASE Midnight
    BY <1>1, <1>2, <1>4 DEF Midnight
  <1>5. ASSUME NEW t \in Runners, Ask(t) \/ Cycle(t) PROVE VaultInv'
    BY <1>5, AskKeeps, WorkKeeps
  <1> QED BY <1>3, <1>4, <1>5 DEF VaultNext

\* However many threads post runs and learning passes, and wherever each is when days pass,
\* stages raise or the page is read, every call was made knowing the one before it.
THEOREM CallsAreOneLine == VaultSpec => []CallsFormOneLine
  <1>1. VaultInv => CallsFormOneLine
    BY DEF VaultInv
  <1> QED BY <1>1, VaultInvInit, VaultStepKeeps, PTL DEF VaultSpec
-----------------------------------------------------------------------------
(* The grading of one call. *)

GradeSpec == GradeInit /\ [][GradeNext]_gradeVars

\* What is known of the days: closes up to today, published up to a day that is past, and
\* a copy, if there is one, of a series that was published.
GradeTypes ==
    /\ gDay \in Nat /\ gClose \in [0 .. gDay -> Nat] /\ gClose[0] = EntryPrice
    /\ gPublished \in 0 .. gDay /\ gSign \in {1, -1}
    /\ gCache.upTo \in -1 .. gPublished
    /\ gSeen \in -1 .. gPublished

GradeInv == GradeTypes /\ VerdictIsWhatBecame

\* A horizon that is past looks the same in every series that reaches it.
LEMMA HorizonIsSettled ==
    ASSUME GradeTypes, NEW upTo \in HorizonDays .. gDay
    PROVE  /\ Window(upTo, gDay) = {d \in 1 .. HorizonDays : gClose[d] # None}
           /\ ValueOn(upTo, HorizonDays) = ValueOn(HorizonDays, HorizonDays)
  <1>1. HorizonDays \in Nat /\ gDay \in Nat
    BY GradingAssumption DEF GradeTypes
  <1>2. Window(upTo, gDay) = {d \in 1 .. HorizonDays : gClose[d] # None}
    BY <1>1 DEF Window, Observed
  <1>3. {d \in Observed(upTo) : d <= HorizonDays} = {d \in Observed(HorizonDays) : d <= HorizonDays}
    BY <1>1 DEF Observed
  <1>4. ValueOn(upTo, HorizonDays) = ValueOn(HorizonDays, HorizonDays)
    BY <1>3, Zenon DEF ValueOn
  <1> QED BY <1>2, <1>4

\* A later day's close does not change what became of a call whose horizon is past.
LEMMA ThePastStays ==
    ASSUME GradeTypes, HorizonDays <= gDay, gSign' = gSign,
           \A d \in 0 .. gDay : gClose'[d] = gClose[d]
    PROVE  WhatBecame' = WhatBecame
  <1>1. HorizonDays \in Nat /\ gDay \in Nat /\ 0 .. HorizonDays \subseteq 0 .. gDay
    BY GradingAssumption DEF GradeTypes
  <1>2. \A d \in 0 .. HorizonDays : gClose'[d] = gClose[d]
    BY <1>1
  <1> DEFINE before == {d \in Observed(HorizonDays) : d <= HorizonDays}
  <1>3. before' = before
    BY <1>1, <1>2 DEF Observed
  <1>4. before \in SUBSET Int /\ \A d \in before : d <= HorizonDays /\ d \in 0 .. HorizonDays
    BY <1>1 DEF Observed
  <1>5. before # {} => Max(before) \in 0 .. HorizonDays
    <2> SUFFICES ASSUME before # {} PROVE Max(before) \in 0 .. HorizonDays
      OBVIOUS
    <2> HIDE DEF before
    <2>1. before \in SUBSET Int /\ HorizonDays \in Int /\ \A d \in before : d <= HorizonDays
      BY <1>1, <1>4
    <2>2. Max(before) \in before
      BY <2>1, MaxIsIn
    <2> QED BY <1>4, <2>2
  <1>6. before # {} => gClose'[Max(before)] = gClose[Max(before)]
    BY <1>2, <1>5
  <1>7. ValueOn(HorizonDays, HorizonDays) =
            IF before = {} \/ HorizonDays - Max(before) > Tolerance THEN None ELSE gClose[Max(before)]
    BY DEF ValueOn
  <1>8. ValueOn(HorizonDays, HorizonDays)' =
            IF before = {} \/ HorizonDays - Max(before) > Tolerance THEN None ELSE gClose'[Max(before)]
    BY <1>3, Zenon DEF ValueOn
  <1>9. ValueOn(HorizonDays, HorizonDays)' = ValueOn(HorizonDays, HorizonDays)
    <2> HIDE DEF before
    <2> QED BY <1>6, <1>7, <1>8
  <1>10. \A price : Breached(price)' <=> Breached(price)
    BY DEF Breached
  <1>11. (\E d \in 1 .. HorizonDays : gClose[d] # None /\ Breached(gClose[d]))'
             <=> \E d \in 1 .. HorizonDays : gClose[d] # None /\ Breached(gClose[d])
    BY <1>1, <1>2 DEF Breached
  <1>12. AtHorizon(ValueOn(HorizonDays, HorizonDays))' = AtHorizon(ValueOn(HorizonDays, HorizonDays))
    BY <1>9, Zenon DEF AtHorizon
  <1> QED BY <1>11, <1>12, Zenon DEF WhatBecame

\* What a run of the resolver says of the call, whichever copy of the series it has.
LEMMA ARunIsRight ==
    ASSUME GradeTypes, NEW upTo \in -1 .. gPublished
    PROVE  /\ Verdict(upTo, gDay) = "invalidated" =>
                \E d \in 1 .. HorizonDays : d \in DOMAIN gClose /\ gClose[d] # None /\ Breached(gClose[d])
           /\ Verdict(upTo, gDay) \notin {"pending", "invalidated"} /\ upTo >= HorizonDays =>
                Verdict(upTo, gDay) = WhatBecame
  <1>1. /\ HorizonDays \in Nat \ {0} /\ gDay \in Nat /\ upTo \in Int /\ upTo <= gDay
        /\ gClose[0] # None /\ DOMAIN gClose = 0 .. gDay
    BY GradingAssumption DEF GradeTypes, None
  <1>2. \A exit : AtHorizon(exit) \in {"unresolvable", "correct", "wrong"}
    BY DEF AtHorizon
  <1>3. ASSUME Verdict(upTo, gDay) = "invalidated"
        PROVE  \E d \in 1 .. HorizonDays : d \in DOMAIN gClose /\ gClose[d] # None /\ Breached(gClose[d])
    <2>1. PICK d \in Window(upTo, gDay) : Breached(gClose[d])
      BY <1>2, <1>3 DEF Verdict, ResolveOne
    <2>2. d \in 1 .. HorizonDays /\ d \in 0 .. gDay /\ gClose[d] # None
      BY <1>1, <2>1 DEF Window, Observed
    <2> QED BY <1>1, <2>1, <2>2
  <1>4. ASSUME Verdict(upTo, gDay) \notin {"pending", "invalidated"}, upTo >= HorizonDays
        PROVE  Verdict(upTo, gDay) = WhatBecame
    <2>1. upTo # NoSeries /\ 0 \in Observed(upTo)
      BY <1>1, <1>4 DEF NoSeries, Observed
    <2>2. Verdict(upTo, gDay) = ResolveOne(upTo, gDay)
      BY <2>1 DEF Verdict
    <2>3. /\ ~\E d \in Window(upTo, gDay) : Breached(gClose[d])
          /\ ResolveOne(upTo, gDay) = AtHorizon(ValueOn(upTo, HorizonDays))
      BY <1>4, <2>2 DEF ResolveOne
    <2>4. /\ Window(upTo, gDay) = {d \in 1 .. HorizonDays : gClose[d] # None}
          /\ ValueOn(upTo, HorizonDays) = ValueOn(HorizonDays, HorizonDays)
      <3>1. upTo \in HorizonDays .. gDay
        BY <1>1, <1>4
      <3> QED BY <3>1, HorizonIsSettled
    <2> QED BY <2>2, <2>3, <2>4 DEF WhatBecame
  <1> QED BY <1>3, <1>4

LEMMA GradeInvInit == GradeInit => GradeInv
  BY GradingAssumption DEF GradeInit, GradeInv, GradeTypes, VerdictIsWhatBecame, NoEntry, NoSeries

LEMMA GradeStepKeeps == GradeInv /\ [GradeNext]_gradeVars => GradeInv'
  <1> SUFFICES ASSUME GradeInv, [GradeNext]_gradeVars PROVE GradeInv'
    OBVIOUS
  <1>1. /\ gDay \in Nat /\ gClose \in [0 .. gDay -> Nat] /\ gClose[0] = EntryPrice
        /\ gPublished \in 0 .. gDay /\ gCache.upTo \in -1 .. gPublished
        /\ gSeen \in -1 .. gPublished /\ HorizonDays \in Nat \ {0} /\ DayPrices \subseteq Nat
    BY GradingAssumption DEF GradeInv, GradeTypes
  <1>2. ASSUME gClose' = gClose, gSign' = gSign, gVerdict' = gVerdict, gSeen' = gSeen
        PROVE  VerdictIsWhatBecame'
    <2>1. gSeen >= HorizonDays => WhatBecame' = WhatBecame
      BY <1>1, <1>2, ThePastStays DEF GradeInv
    <2> QED BY <1>2, <2>1 DEF GradeInv, VerdictIsWhatBecame, Breached
  <1>3. CASE NextDay
    <2>1. PICK close \in DayPrices \cup {None} :
            gClose' = [d \in 0 .. gDay + 1 |-> IF d = gDay + 1 THEN close ELSE gClose[d]]
      BY <1>3 DEF NextDay
    <2>2. close \in Nat
      BY <1>1 DEF None
    <2>3. /\ gDay' = gDay + 1 /\ gClose' \in [0 .. gDay' -> Nat]
          /\ \A d \in 0 .. gDay : gClose'[d] = gClose[d]
          /\ gPublished' = gPublished /\ gCache' = gCache /\ gSign' = gSign
          /\ gVerdict' = gVerdict /\ gSeen' = gSeen
      BY <1>1, <1>3, <2>1, <2>2 DEF NextDay
    <2>4. GradeTypes'
      BY <1>1, <2>3 DEF GradeInv, GradeTypes
    <2>5. gSeen >= HorizonDays => WhatBecame' = WhatBecame
      BY <1>1, <2>3, ThePastStays DEF GradeInv
    <2>6. gVerdict = "invalidated" =>
            \E d \in 1 .. HorizonDays :
                d \in DOMAIN gClose' /\ gClose'[d] # None /\ Breached(gClose[d])'
      <3> SUFFICES ASSUME gVerdict = "invalidated"
                   PROVE  \E d \in 1 .. HorizonDays :
                            d \in DOMAIN gClose' /\ gClose'[d] # None /\ Breached(gClose[d])'
        OBVIOUS
      <3>1. PICK d \in 1 .. HorizonDays : d \in DOMAIN gClose /\ gClose[d] # None /\ Breached(gClose[d])
        BY DEF GradeInv, VerdictIsWhatBecame
      <3>2. d \in 0 .. gDay /\ d \in DOMAIN gClose' /\ gClose'[d] = gClose[d]
        BY <1>1, <2>3, <3>1
      <3> QED BY <2>3, <3>1, <3>2 DEF Breached
    <2>7. VerdictIsWhatBecame'
      BY <1>1, <2>3, <2>5, <2>6 DEF GradeInv, VerdictIsWhatBecame, Breached
    <2> QED BY <2>4, <2>7 DEF GradeInv
  <1>4. CASE Publish
    <2>1. GradeTypes'
      BY <1>1, <1>4 DEF GradeInv, GradeTypes, Publish
    <2> QED BY <1>2, <1>4, <2>1 DEF GradeInv, Publish
  <1>5. CASE CacheSpoils
    <2>1. GradeTypes'
      BY <1>1, <1>5 DEF GradeInv, GradeTypes, CacheSpoils, NoEntry
    <2> QED BY <1>2, <1>5, <2>1 DEF GradeInv, CacheSpoils
  <1>6. ASSUME NEW fetched \in BOOLEAN, NEW kept \in BOOLEAN, RunResolver(fetched, kept)
        PROVE  GradeInv'
    <2> DEFINE upTo == CASE Fresh -> gCache.upTo
                         [] ~Fresh /\ fetched -> gPublished
                         [] OTHER -> gCache.upTo
    <2>1. upTo \in -1 .. gPublished
      BY <1>1
    <2> HIDE DEF upTo
    <2>2. /\ gCache' = IF ~Fresh /\ fetched /\ kept THEN [upTo |-> gPublished, fetched |-> gDay]
                       ELSE gCache
          /\ gVerdict' = IF gVerdict = "pending" THEN Verdict(upTo, gDay) ELSE gVerdict
          /\ gSeen' = IF gVerdict = "pending" /\ Verdict(upTo, gDay) # "pending" THEN upTo ELSE gSeen
          /\ gDay' = gDay /\ gClose' = gClose /\ gPublished' = gPublished /\ gSign' = gSign
      BY <1>6 DEF RunResolver, upTo
    <2>3. GradeTypes'
      <3>1. gCache'.upTo \in -1 .. gPublished
        BY <1>1, <2>2
      <3>2. gSeen' \in -1 .. gPublished
        BY <1>1, <2>1, <2>2
      <3> QED BY <1>1, <2>2, <3>1, <3>2 DEF GradeInv, GradeTypes
    <2>4. CASE gVerdict # "pending" \/ Verdict(upTo, gDay) = "pending"
      <3>1. gVerdict' = gVerdict /\ gSeen' = gSeen
        BY <2>2, <2>4
      <3> QED BY <1>2, <2>2, <2>3, <3>1 DEF GradeInv
    <2>5. CASE gVerdict = "pending" /\ Verdict(upTo, gDay) # "pending"
      <3>1. gVerdict' = Verdict(upTo, gDay) /\ gSeen' = upTo
        BY <2>2, <2>5
      <3>2. upTo >= HorizonDays => WhatBecame' = WhatBecame
        BY <1>1, <2>1, <2>2, ThePastStays DEF GradeInv
      <3>3. \A price : Breached(price)' <=> Breached(price)
        BY <2>2 DEF Breached
      <3>4. VerdictIsWhatBecame'
        BY <2>1, <2>2, <3>1, <3>2, ARunIsRight DEF GradeInv, VerdictIsWhatBecame, Breached
      <3> QED BY <2>3, <3>4 DEF GradeInv
    <2> QED BY <2>4, <2>5
  <1>7. CASE UNCHANGED gradeVars
    <2>1. GradeTypes'
      BY <1>7 DEF GradeInv, GradeTypes, gradeVars
    <2> QED BY <1>2, <1>7, <2>1 DEF GradeInv, gradeVars
  <1> QED BY <1>3, <1>4, <1>5, <1>6, <1>7 DEF GradeNext

\* For every horizon, stop, tolerance and time to live, and however the source, the cache and
\* the days interleave: a stop that is reported was touched, and a verdict that had the
\* horizon before it is what became of the call.
THEOREM VerdictsAreRight == GradeSpec => []VerdictIsWhatBecame
  <1>1. GradeInv => VerdictIsWhatBecame
    BY DEF GradeInv
  <1> QED BY <1>1, GradeInvInit, GradeStepKeeps, PTL DEF GradeSpec

-----------------------------------------------------------------------------
(* The journal: every hash on a line is that of a call that was made. *)

JournalSpec == JournalInit /\ [][JournalNext]_jVars

Ids == Nat \X Nat
Hashes(made) == made \cup {Genesis}
Records(made) == [id : Ids, says : Theses, prev : Hashes(made), hash : made]
Lines(made) ==
    [kind : {"thesis"}, record : Records(made)]
    \cup [kind : {"resolution"}, id : Ids, outcome : Verdicts] \cup {Corrupt}

\* What a scribe has in memory, closed or read from lines.
Remembers(mem, made) ==
    /\ mem = [open |-> mem.open, order |-> mem.order, records |-> mem.records,
              outcome |-> mem.outcome, head |-> mem.head]
    /\ mem.order \in Seq(Ids) /\ mem.head \in Hashes(made)
    /\ \A i \in 1 .. Len(mem.order) : mem.order[i] \in DOMAIN mem.records
    /\ \A id \in DOMAIN mem.records : id \in Ids /\ mem.records[id].hash \in made

JournalInv ==
    /\ jFile \in Seq(Lines(jMade)) /\ jSecond \in Nat
    /\ jMem = [p \in Scribes |-> jMem[p]]
    /\ \A p \in Scribes : Remembers(jMem[p], jMade)

LEMMA LinesGrow ==
    ASSUME NEW made, NEW more, made \subseteq more
    PROVE  /\ Lines(made) \subseteq Lines(more)
           /\ \A mem : Remembers(mem, made) => Remembers(mem, more)
  <1>1. Lines(made) \subseteq Lines(more)
    BY DEF Lines, Records, Hashes
  <1>2. ASSUME NEW mem, Remembers(mem, made) PROVE Remembers(mem, more)
    BY <1>2 DEF Remembers, Hashes
  <1> QED BY <1>1, <1>2

LEMMA NothingRemembered ==
    ASSUME NEW made
    PROVE  Remembers(Closed, made) /\ Remembers(Emptied, made)
  <1>1. << >> \in Seq(Ids) /\ Len(<< >>) = 0 /\ 1 .. 0 = {} /\ DOMAIN << >> = {}
    OBVIOUS
  <1>2. ASSUME NEW mem, mem = Closed \/ mem = Emptied PROVE Remembers(mem, made)
    <2>1. /\ mem = [open |-> mem.open, order |-> mem.order, records |-> mem.records,
                    outcome |-> mem.outcome, head |-> mem.head]
          /\ mem.order = << >> /\ mem.records = << >> /\ mem.head = Genesis
      BY <1>2 DEF Closed, Emptied
    <2> QED BY <1>1, <2>1 DEF Remembers, Hashes
  <1> QED BY <1>2

LEMMA TakeCallRemembers ==
    ASSUME NEW made, NEW mem, Remembers(mem, made), NEW record \in Records(made)
    PROVE  Remembers(TakeCall(mem, record), made)
  <1> DEFINE n == TakeCall(mem, record)
  <1>0. record.id \in Ids /\ record.hash \in made
    BY DEF Records
  <1>1. /\ mem = [open |-> mem.open, order |-> mem.order, records |-> mem.records,
                  outcome |-> mem.outcome, head |-> mem.head]
        /\ mem.order \in Seq(Ids)
    BY DEF Remembers
  <1>2. n = [open |-> mem.open, order |-> Append(mem.order, record.id),
             records |-> Put(mem.records, record.id, record),
             outcome |-> Put(mem.outcome, record.id, Pending), head |-> record.hash]
    <2> DEFINE o == Append(mem.order, record.id)  r == Put(mem.records, record.id, record)
               u == Put(mem.outcome, record.id, Pending)  h == record.hash
    <2>1. n = [mem EXCEPT !.order = o, !.records = r, !.outcome = u, !.head = h]
      BY DEF TakeCall
    <2> HIDE DEF o, r, u, h, n
    <2>2. n = [open |-> mem.open, order |-> o, records |-> r, outcome |-> u, head |-> h]
      BY <1>1, <2>1
    <2> QED BY <2>2 DEF o, r, u, h
  <1>3. /\ n.order = Append(mem.order, record.id) /\ n.records = Put(mem.records, record.id, record)
        /\ n.head = record.hash
        /\ n = [open |-> n.open, order |-> n.order, records |-> n.records, outcome |-> n.outcome, head |-> n.head]
    BY <1>2
  <1> HIDE DEF n
  <1>4. /\ DOMAIN n.records = DOMAIN mem.records \cup {record.id} /\ n.records[record.id] = record
        /\ \A id \in DOMAIN mem.records : id # record.id => n.records[id] = mem.records[id]
    BY <1>3 DEF Put
  <1>5. /\ n.order \in Seq(Ids) /\ Len(n.order) = Len(mem.order) + 1 /\ Len(mem.order) \in Nat
        /\ \A i \in 1 .. Len(mem.order) : n.order[i] = mem.order[i]
        /\ n.order[Len(mem.order) + 1] = record.id
    BY <1>0, <1>1, <1>3
  <1>6. ASSUME NEW i \in 1 .. Len(n.order) PROVE n.order[i] \in DOMAIN n.records
    <2>1. i \in 1 .. Len(mem.order) \/ i = Len(mem.order) + 1
      BY <1>5
    <2> QED BY <1>4, <1>5, <2>1 DEF Remembers
  <1>7. \A id \in DOMAIN n.records : id \in Ids /\ n.records[id].hash \in made
    BY <1>0, <1>4 DEF Remembers
  <1> QED BY <1>0, <1>3, <1>5, <1>6, <1>7 DEF Remembers, Hashes, n

LEMMA ResolutionRemembers ==
    ASSUME NEW made, NEW mem, Remembers(mem, made), NEW line
    PROVE  Remembers(ApplyResolution(mem, line), made)
  <1>1. CASE line.id \notin DOMAIN mem.records
    BY <1>1 DEF ApplyResolution
  <1>2. CASE line.id \in DOMAIN mem.records
    <2> DEFINE n == ApplyResolution(mem, line)
    <2>1. mem = [open |-> mem.open, order |-> mem.order, records |-> mem.records,
                 outcome |-> mem.outcome, head |-> mem.head]
      BY DEF Remembers
    <2>2. n = [open |-> mem.open, order |-> mem.order, records |-> mem.records,
               outcome |-> [mem.outcome EXCEPT ![line.id] = line.outcome], head |-> mem.head]
      BY <1>2, <2>1 DEF ApplyResolution
    <2>3. /\ n.order = mem.order /\ n.records = mem.records /\ n.head = mem.head
          /\ n = [open |-> n.open, order |-> n.order, records |-> n.records, outcome |-> n.outcome, head |-> n.head]
      BY <2>2
    <2> HIDE DEF n
    <2>4. Remembers(n, made)
      BY <2>3 DEF Remembers
    <2> QED BY <2>4 DEF n
  <1> QED BY <1>1, <1>2

LEMMA ReadLineRemembers ==
    ASSUME NEW made, NEW mem, Remembers(mem, made), NEW line \in Lines(made)
    PROVE  Remembers(ReadLine(mem, line), made)
  <1>1. CASE line.kind = "thesis"
    <2>1. line.record \in Records(made)
      BY <1>1 DEF Lines, Corrupt
    <2>2. ReadLine(mem, line) = TakeCall(mem, line.record)
      BY <1>1 DEF ReadLine
    <2> QED BY <2>1, <2>2, TakeCallRemembers
  <1>2. CASE line.kind = "resolution"
    <2>1. ReadLine(mem, line) = ApplyResolution(mem, line)
      BY <1>2 DEF ReadLine
    <2> QED BY <2>1, ResolutionRemembers
  <1>3. CASE line.kind = "corrupt"
    <2>1. ReadLine(mem, line) = mem
      BY <1>3 DEF ReadLine
    <2> QED BY <2>1
  <1> QED BY <1>1, <1>2, <1>3 DEF Lines, Corrupt

LEMMA LoadRemembers ==
    ASSUME NEW made, NEW lines \in Seq(Lines(made))
    PROVE  Remembers(Load(lines), made)
  <1> DEFINE Loop(f, n) == f = [i \in 0 .. n |-> IF i = 0 THEN Emptied ELSE ReadLine(f[i - 1], lines[i])]
             Looped == {n \in Nat : \E f : Loop(f, n)}
             read == CHOOSE f : Loop(f, Len(lines))
  <1>1. Len(lines) \in Nat /\ \A i \in 1 .. Len(lines) : lines[i] \in Lines(made)
    BY LenProperties, ElementOfSeq
  <1>2. 0 \in Looped
    <2>1. Loop([i \in 0 .. 0 |-> Emptied], 0)
      OBVIOUS
    <2> QED BY <2>1
  <1>3. ASSUME NEW n \in 0 .. Len(lines), n < Len(lines), n \in Looped PROVE n + 1 \in Looped
    <2>1. PICK f : Loop(f, n)
      BY <1>3
    <2> DEFINE g == [i \in 0 .. n + 1 |-> IF i = n + 1 THEN ReadLine(f[n], lines[n + 1]) ELSE f[i]]
    <2>2. Loop(g, n + 1)
      <3>1. ASSUME NEW i \in 0 .. n + 1
            PROVE  g[i] = IF i = 0 THEN Emptied ELSE ReadLine(g[i - 1], lines[i])
        <4>1. CASE i = n + 1
          <5>1. n + 1 - 1 = n /\ g[n] = f[n] /\ n + 1 # 0
            BY <1>1
          <5> QED BY <4>1, <5>1
        <4>2. CASE i \in 0 .. n /\ i # 0
          <5>1. g[i] = f[i] /\ i - 1 \in 0 .. n /\ g[i - 1] = f[i - 1]
            BY <1>1, <4>2
          <5> QED BY <2>1, <4>2, <5>1
        <4>3. CASE i = 0
          <5>1. g[0] = f[0]
            BY <1>1
          <5> QED BY <2>1, <4>3, <5>1
        <4> QED BY <4>1, <4>2, <4>3
      <3>2. g = [i \in 0 .. n + 1 |-> g[i]]
        OBVIOUS
      <3> HIDE DEF g
      <3> QED BY <3>1, <3>2
    <2> HIDE DEF g, Loop
    <2>3. n + 1 \in Nat
      BY <1>1
    <2> QED BY <2>2, <2>3
  <1>4. Len(lines) \in Looped
    <2> HIDE DEF Looped
    <2>1. \A n \in 0 .. Len(lines) : n \in Looped
      BY <1>1, <1>2, <1>3, IntervalInduction
    <2> QED BY <1>1, <2>1
  <1>5. Loop(read, Len(lines))
    <2> HIDE DEF Loop
    <2> QED BY <1>4
  <1>6. Load(lines) = read[Len(lines)]
    BY DEF Load
  <1> DEFINE Good == {i \in Nat : Remembers(read[i], made)}
  <1>7. 0 \in Good
    <2>1. read[0] = Emptied
      <3> HIDE DEF read
      <3> QED BY <1>1, <1>5
    <2> HIDE DEF read
    <2> QED BY <2>1, NothingRemembered
  <1>8. ASSUME NEW n \in 0 .. Len(lines), n < Len(lines), n \in Good PROVE n + 1 \in Good
    <2>1. read[n + 1] = ReadLine(read[n], lines[n + 1])
      <3> HIDE DEF read
      <3>1. n + 1 \in 0 .. Len(lines) /\ n + 1 # 0 /\ n + 1 - 1 = n
        BY <1>1, <1>8
      <3> QED BY <1>5, <3>1
    <2> HIDE DEF read
    <2>2. n \in Nat /\ n + 1 \in Nat /\ n + 1 \in 1 .. Len(lines) /\ Remembers(read[n], made)
      BY <1>1, <1>8
    <2>3. Remembers(read[n + 1], made)
      BY <1>1, <2>1, <2>2, ReadLineRemembers
    <2> QED BY <2>2, <2>3
  <1>9. Len(lines) \in Good
    <2> HIDE DEF Good
    <2>1. \A n \in 0 .. Len(lines) : n \in Good
      BY <1>1, <1>7, <1>8, IntervalInduction
    <2> QED BY <1>1, <2>1
  <1> QED BY <1>6, <1>9

LEMMA JournalStarts == JournalInit => JournalInv
  <1> SUFFICES ASSUME JournalInit PROVE JournalInv
    OBVIOUS
  <1>1. jFile \in Seq(Lines(jMade))
    BY EmptySeq DEF JournalInit
  <1> QED BY <1>1, NothingRemembered DEF JournalInit, JournalInv

\* A line appended, whole, torn or joined to a torn one.
LEMMA AppendedLines ==
    ASSUME NEW made, jFile \in Seq(Lines(made)), NEW line \in Lines(made), NEW whole \in BOOLEAN
    PROVE  Appended(line, whole) \in Seq(Lines(made))
  <1>1. Corrupt \in Lines(made)
    BY DEF Lines
  <1>2. Len(jFile) \in Nat /\ DOMAIN jFile = 1 .. Len(jFile)
    BY LenProperties
  <1>3. CASE ~jTorn
    BY <1>1, <1>3 DEF Appended
  <1>4. CASE jTorn /\ Len(jFile) \in 1 .. Len(jFile)
    <2>1. [jFile EXCEPT ![Len(jFile)] = Corrupt] \in Seq(Lines(made))
      BY <1>1, <1>4, ExceptSeq
    <2> QED BY <1>4, <2>1 DEF Appended
  <1>5. CASE jTorn /\ Len(jFile) \notin 1 .. Len(jFile)
    <2>1. [jFile EXCEPT ![Len(jFile)] = Corrupt] = jFile
      BY <1>2, <1>5
    <2> QED BY <1>5, <2>1 DEF Appended
  <1> QED BY <1>3, <1>4, <1>5

LEMMA CommitKeeps ==
    ASSUME JournalInv, NEW p \in Scribes, NEW thesis \in Theses, NEW how \in {"done", "failed", "torn"},
           Commit(p, thesis, how)
    PROVE  JournalInv'
  <1> DEFINE mem == jMem[p]
             id == <<jSecond, Len(mem.order)>>
             hash == <<id, thesis, mem.head>>
             made == [id |-> id, says |-> thesis, prev |-> mem.head, hash |-> Genesis]
             record == [made EXCEPT !.hash = HashOf(made)]
             line == [kind |-> "thesis", record |-> record]
  <1>1. /\ HashOf(made) = hash
        /\ record = [id |-> id, says |-> thesis, prev |-> mem.head, hash |-> hash]
    BY DEF HashOf
  <1>2. /\ jFile' = Appended(line, how # "torn")
        /\ jMade' = jMade \cup {hash} /\ jSecond' = jSecond
        /\ jMem' = IF how = "done" THEN [jMem EXCEPT ![p] = TakeCall(mem, record)] ELSE jMem
    BY <1>1 DEF Commit
  <1>3. id \in Ids /\ mem.head \in Hashes(jMade)
    BY DEF JournalInv, Remembers, Ids
  <1> HIDE DEF id, hash
  <1>4. record \in Records(jMade') /\ line \in Lines(jMade')
    BY <1>1, <1>2, <1>3 DEF Records, Lines, Hashes
  <1>5. jMade \subseteq jMade'
    BY <1>2
  <1>6. jFile \in Seq(Lines(jMade'))
    BY <1>5, LinesGrow, SeqMonotonic DEF JournalInv
  <1>7. \A q \in Scribes : Remembers(jMem[q], jMade')
    BY <1>5, LinesGrow DEF JournalInv
  <1>8. Remembers(TakeCall(mem, record), jMade')
    BY <1>4, <1>7, TakeCallRemembers
  <1> HIDE DEF mem, record, line
  <1>9. jFile' \in Seq(Lines(jMade'))
    BY <1>2, <1>4, <1>6, AppendedLines
  <1>10. jMem' = [q \in Scribes |-> jMem'[q]] /\ \A q \in Scribes : Remembers(jMem'[q], jMade')
    BY <1>2, <1>7, <1>8 DEF JournalInv
  <1> QED BY <1>2, <1>9, <1>10 DEF JournalInv

LEMMA ResolveKeeps ==
    ASSUME JournalInv, NEW p \in Scribes, NEW id \in DOMAIN jMem[p].records, NEW outcome \in Verdicts,
           NEW how \in {"done", "failed", "torn"}, Resolve(p, id, outcome, how)
    PROVE  JournalInv'
  <1> DEFINE mem == jMem[p]
             line == [kind |-> "resolution", id |-> id, outcome |-> outcome]
  <1>1. /\ jFile' = Appended(line, how # "torn") /\ jMade' = jMade /\ jSecond' = jSecond
        /\ jMem' = IF how = "done" THEN [jMem EXCEPT ![p] = ApplyResolution(mem, line)] ELSE jMem
    BY DEF Resolve
  <1>2. id \in Ids
    BY DEF JournalInv, Remembers
  <1>3. line \in Lines(jMade)
    BY <1>2 DEF Lines
  <1>4. Remembers(ApplyResolution(mem, line), jMade)
    BY ResolutionRemembers DEF JournalInv
  <1> HIDE DEF mem, line
  <1>5. jFile' \in Seq(Lines(jMade))
    BY <1>1, <1>3, AppendedLines DEF JournalInv
  <1>6. jMem' = [q \in Scribes |-> jMem'[q]] /\ \A q \in Scribes : Remembers(jMem'[q], jMade)
    BY <1>1, <1>4 DEF JournalInv
  <1> QED BY <1>1, <1>5, <1>6 DEF JournalInv

LEMMA TamperKeeps ==
    ASSUME JournalInv, NEW i \in DOMAIN jFile, Tamper(i)
    PROVE  JournalInv'
  <1>1. UNCHANGED <<jMade, jMem, jSecond>>
    BY DEF Tamper
  <1>2. i \in 1 .. Len(jFile) /\ Len(jFile) \in Nat /\ jFile[i] \in Lines(jMade)
    BY LenProperties, ElementOfSeq DEF JournalInv
  <1>3. ASSUME NEW thesis \in Theses, jFile' = [jFile EXCEPT ![i].record.says = thesis]
        PROVE  jFile' \in Seq(Lines(jMade))
    <2> DEFINE line == jFile[i]  r == line.record
               edited == [line EXCEPT !.record.says = thesis]
    <2>1. line.kind = "thesis"
      BY DEF Tamper
    <2>2. line = [kind |-> "thesis", record |-> r] /\ r \in Records(jMade)
      BY <1>2, <2>1 DEF Lines, Corrupt
    <2>3. edited = [kind |-> "thesis", record |-> [r EXCEPT !.says = thesis]]
      <3> HIDE DEF line
      <3> QED BY <2>2
    <2>4. [r EXCEPT !.says = thesis] \in Records(jMade)
      BY <2>2 DEF Records
    <2>5. edited \in Lines(jMade)
      BY <2>3, <2>4 DEF Lines
    <2>6. jFile' = [jFile EXCEPT ![i] = edited]
      BY <1>3
    <2> HIDE DEF edited
    <2> QED BY <1>2, <2>5, <2>6, ExceptSeq DEF JournalInv
  <1>4. ASSUME jFile' = RemoveAt(jFile, i) PROVE jFile' \in Seq(Lines(jMade))
    <2>1. \A j \in 1 .. Len(jFile) : jFile[j] \in Lines(jMade)
      BY ElementOfSeq DEF JournalInv
    <2>2. /\ SubSeq(jFile, 1, i - 1) \in Seq(Lines(jMade))
          /\ SubSeq(jFile, i + 1, Len(jFile)) \in Seq(Lines(jMade))
      <3>1. /\ \A j \in 1 .. i - 1 : jFile[j] \in Lines(jMade)
            /\ \A j \in i + 1 .. Len(jFile) : jFile[j] \in Lines(jMade)
        BY <1>2, <2>1
      <3>2. 1 \in Int /\ i - 1 \in Int /\ i + 1 \in Int /\ Len(jFile) \in Int
        BY <1>2
      <3> QED BY <3>1, <3>2, SubSeqProperties
    <2> QED BY <1>4, <2>2, ConcatProperties DEF RemoveAt
  <1>5. jFile' \in Seq(Lines(jMade))
    BY <1>3, <1>4 DEF Tamper
  <1> QED BY <1>1, <1>5 DEF JournalInv

LEMMA JournalStep == JournalInv /\ [JournalNext]_jVars => JournalInv'
  <1> SUFFICES ASSUME JournalInv, [JournalNext]_jVars PROVE JournalInv'
    OBVIOUS
  <1>1. ASSUME NEW p \in Scribes, OpenJournal(p) PROVE JournalInv'
    BY <1>1, LoadRemembers DEF OpenJournal, JournalInv
  <1>2. ASSUME NEW p \in Scribes, ScribeEnds(p) PROVE JournalInv'
    BY <1>2, NothingRemembered DEF ScribeEnds, JournalInv
  <1>3. CASE SecondPasses
    BY <1>3 DEF SecondPasses, JournalInv
  <1>4. CASE UNCHANGED jVars
    BY <1>4 DEF jVars, JournalInv
  <1> QED BY <1>1, <1>2, <1>3, <1>4, CommitKeeps, ResolveKeeps, TamperKeeps DEF JournalNext

\* In any file, whatever was edited or taken out of it, torn, or written by several scribes
\* at once: the calls of a chain that verifies are calls that were made, and each is chained
\* to the one that stands before it.
THEOREM IntactChainsAreAsMade == JournalSpec => []IntactMeansAsMade
  <1>1. JournalInv => IntactMeansAsMade
    <2> SUFFICES ASSUME JournalInv, NEW p \in Scribes, ChainHolds(jMem[p]),
                        NEW i \in DOMAIN jMem[p].order
                 PROVE  LET mem == jMem[p]  record == mem.records[mem.order[i]] IN
                        /\ HashOf(record) \in jMade
                        /\ i > 1 => record.prev = HashOf(mem.records[mem.order[i - 1]])
      BY DEF IntactMeansAsMade
    <2> DEFINE mem == jMem[p]
    <2>1. Remembers(mem, jMade)
      BY DEF JournalInv
    <2>2. DOMAIN mem.order = 1 .. Len(mem.order) /\ Len(mem.order) \in Nat
      BY <2>1, LenProperties DEF Remembers
    <2>3. ASSUME NEW k \in 1 .. Len(mem.order)
          PROVE  /\ HashOf(mem.records[mem.order[k]]) = mem.records[mem.order[k]].hash
                 /\ mem.records[mem.order[k]].hash \in jMade
                 /\ k # 1 => mem.records[mem.order[k]].prev = mem.records[mem.order[k - 1]].hash
      BY <2>1, <2>2, <2>3 DEF ChainHolds, Verified, Remembers
    <2>4. i > 1 => i - 1 \in 1 .. Len(mem.order) /\ i # 1
      BY <2>2
    <2> QED BY <2>2, <2>3, <2>4
  <1> QED BY JournalStarts, JournalStep, <1>1, PTL DEF JournalSpec

-----------------------------------------------------------------------------
(* The learning pass: what its folds are fitted and tested on. *)

WalkSpec == WalkInit /\ [][WalkNext]_wfVars

Readings == [usable : BOOLEAN, strength : {-1, 0, 1}]
Samples == [on : Nat, features : Readings \X Readings, label : BOOLEAN, ends : Nat]

\* A sample over two series that have reached a day: priced on its day and when its outcome
\* is due, which is over, and what would be made of its day from the two.
Made(sample, close, curve, reached) ==
    /\ sample.ends = sample.on + Horizon /\ sample.ends <= reached
    /\ Priced(close, sample.on) /\ sample = SampleOn(close, curve, sample.on)

\* The samples of the days before n, in the order of the days.
Chronological(data, n) ==
    /\ data \in Seq(Samples)
    /\ \A i \in 1 .. Len(data) : data[i].on < n
    /\ \A i, j \in 1 .. Len(data) : i < j => data[i].on < data[j].on

AllMade(data, close, curve, reached) == \A i \in 1 .. Len(data) : Made(data[i], close, curve, reached)

WalkInv ==
    \E n \in Nat :
        /\ wfClose \in [0 .. n -> Nat]
        /\ \E m \in Nat : Chronological(wfData, m)
        /\ AllMade(wfData, wfClose, Curve, n)

\* A cut at a day leaves what could be read up to the day before it as it was,
LEMMA CutKeepsReadings ==
    ASSUME NEW series, DOMAIN series \subseteq Int, NEW cut \in Int, NEW day \in Int, day < cut
    PROVE  Until(Before(series, cut), day) = Until(series, day)
  <1> DEFINE short == Before(series, cut)
             early == {d \in DOMAIN series : d <= day}
             shortEarly == {d \in DOMAIN short : d <= day}
  <1>1. short = [d \in {e \in DOMAIN series : e < cut} |-> series[d]]
    BY DEF Before
  <1>2. DOMAIN short = {e \in DOMAIN series : e < cut} /\ \A d \in DOMAIN short : short[d] = series[d]
    BY <1>1
  <1> HIDE DEF short
  <1>3. shortEarly = early
    BY <1>2
  <1>4. \A d \in early : short[d] = series[d]
    BY <1>2
  <1> HIDE DEF early, shortEarly
  <1>5. [d \in shortEarly |-> short[d]] = [d \in early |-> series[d]]
    BY <1>3, <1>4
  <1> QED BY <1>5 DEF Until, shortEarly, early, short

\* and the point that any of those days takes its value from.
LEMMA CutKeepsPoints ==
    ASSUME NEW series, DOMAIN series \subseteq Int, NEW cut \in Int, NEW day \in Int, day < cut
    PROVE  /\ PointFor(Before(series, cut), day) = PointFor(series, day)
           /\ \A e \in PointFor(series, day) : Before(series, cut)[e] = series[e]
  <1> DEFINE short == Before(series, cut)
  <1>1. short = [d \in {e \in DOMAIN series : e < cut} |-> series[d]]
    BY DEF Before
  <1>2. DOMAIN short = {e \in DOMAIN series : e < cut} /\ \A d \in DOMAIN short : short[d] = series[d]
    BY <1>1
  <1> HIDE DEF short
  <1>3. /\ Points(short) = {e \in Points(series) : e < cut}
        /\ Points(series) \subseteq Int
        /\ \A e \in Points(series) : e \in DOMAIN series
    BY <1>2 DEF Points
  <1>4. \A e \in Points(series) : e <= day => e \in Points(short)
    BY <1>3
  <1>5. \A e \in Points(short) : e \in Points(series)
    BY <1>3
  <1>6. PointFor(short, day) = PointFor(series, day)
    BY <1>3, <1>4, <1>5 DEF PointFor
  <1>7. ASSUME NEW e \in PointFor(series, day) PROVE short[e] = series[e]
    <2>1. e \in Points(series) /\ e <= day
      BY DEF PointFor
    <2>2. e \in DOMAIN short
      BY <1>2, <1>3, <2>1
    <2> QED BY <1>2, <2>2
  <1> QED BY <1>6, <1>7 DEF short

\* So a day whose outcome was over before the cut makes the same sample from what is left.
LEMMA CutKeepsSamples ==
    ASSUME NEW close, NEW curve, DOMAIN close \subseteq Int, DOMAIN curve \subseteq Int,
           NEW cut \in Int, NEW d \in Int, d + Horizon < cut
    PROVE  /\ Priced(Before(close, cut), d) <=> Priced(close, d)
           /\ Priced(close, d) =>
                SampleOn(Before(close, cut), Before(curve, cut), d) = SampleOn(close, curve, d)
  <1> DEFINE short == Before(close, cut)  due == d + Horizon
  <1>1. d < cut /\ due \in Int /\ due < cut
    BY WalkAssumption
  <1> HIDE DEF due
  <1>2. /\ PointFor(short, d) = PointFor(close, d)
        /\ \A e \in PointFor(close, d) : short[e] = close[e]
    BY <1>1, CutKeepsPoints
  <1>3. /\ PointFor(short, due) = PointFor(close, due)
        /\ \A e \in PointFor(close, due) : short[e] = close[e]
    BY <1>1, CutKeepsPoints
  <1>4. Until(short, d) = Until(close, d) /\ Until(Before(curve, cut), d) = Until(curve, d)
    BY <1>1, CutKeepsReadings
  <1> HIDE DEF short
  <1>5. Priced(short, d) <=> Priced(close, d)
    BY <1>2, <1>3 DEF Priced, due
  <1>6. ASSUME Priced(close, d) PROVE Forward(short, d) = Forward(close, d)
    <2>1. Entry(short, d) = Entry(close, d) /\ Exit(short, d) = Exit(close, d)
      BY <1>2, <1>3 DEF Entry, Exit, due
    <2>2. Entry(close, d) \in PointFor(close, d) /\ Exit(close, d) \in PointFor(close, due)
      BY <1>6 DEF Priced, Entry, Exit, due
    <2>3. short[Entry(close, d)] = close[Entry(close, d)] /\ short[Exit(close, d)] = close[Exit(close, d)]
      BY <1>2, <1>3, <2>2
    <2> QED BY <2>1, <2>3 DEF Forward
  <1>7. ASSUME Priced(close, d)
        PROVE  SampleOn(short, Before(curve, cut), d) = SampleOn(close, curve, d)
    <2>1. Features(short, Before(curve, cut), d) = Features(close, curve, d)
      BY <1>4 DEF Features
    <2> QED BY <1>6, <1>7, <2>1 DEF SampleOn
  <1> QED BY <1>5, <1>7 DEF short

LEMMA SampleIsTyped ==
    ASSUME NEW close, NEW curve, NEW d \in Nat
    PROVE  /\ SampleOn(close, curve, d) \in Samples
           /\ SampleOn(close, curve, d).on = d /\ SampleOn(close, curve, d).ends = d + Horizon
           /\ SampleOn(close, curve, d).features = Features(close, curve, d)
  <1>1. \A history, day : Reading(history, day) \in Readings
    <2> TAKE history, day
    <2> DEFINE idle == Cardinality(Points(history)) < 2 \/ day - Max(Points(history)) >= StaleAfter
               change == history[Max(Points(history))] - history[Max(Points(history) \ {Max(Points(history))})]
    <2>1. Reading(history, day) =
            IF idle THEN [usable |-> FALSE, strength |-> 0]
            ELSE [usable |-> TRUE, strength |-> IF change > 0 THEN 1 ELSE IF change < 0 THEN -1 ELSE 0]
      BY DEF Reading
    <2> HIDE DEF idle, change
    <2>2. (IF change > 0 THEN 1 ELSE IF change < 0 THEN -1 ELSE 0) \in {-1, 0, 1}
      OBVIOUS
    <2> QED BY <2>1, <2>2 DEF Readings
  <1>2. Features(close, curve, d) \in Readings \X Readings
    BY <1>1 DEF Features
  <1>3. d + Horizon \in Nat
    BY WalkAssumption
  <1>4. /\ SampleOn(close, curve, d) = [on |-> d, features |-> Features(close, curve, d),
                                        label |-> Forward(close, d) > 0, ends |-> d + Horizon]
        /\ (Forward(close, d) > 0) \in BOOLEAN
    BY DEF SampleOn
  <1> QED BY <1>2, <1>3, <1>4 DEF Samples

LEMMA DayKeepsOrder ==
    ASSUME NEW n \in Nat, NEW data, Chronological(data, n), NEW s \in Samples, s.on = n
    PROVE  Chronological(Append(data, s), n + 1)
  <1> DEFINE r == Append(data, s)
  <1>1. data \in Seq(Samples) /\ Len(data) \in Nat
    BY DEF Chronological
  <1>2. /\ r \in Seq(Samples) /\ Len(r) = Len(data) + 1 /\ r[Len(data) + 1] = s
        /\ \A i \in 1 .. Len(data) : r[i] = data[i]
    BY <1>1
  <1>3. ASSUME NEW i \in 1 .. Len(data) PROVE data[i].on < n /\ data[i].on \in Nat
    <2>1. data[i] \in Samples
      BY <1>1
    <2> QED BY <2>1 DEF Chronological, Samples
  <1> HIDE DEF r
  <1>4. \A i \in 1 .. Len(r) : i \in 1 .. Len(data) \/ i = Len(data) + 1
    BY <1>1, <1>2
  <1>5. ASSUME NEW i \in 1 .. Len(r) PROVE r[i].on < n + 1
    <2>1. CASE i \in 1 .. Len(data)
      BY <1>2, <1>3, <2>1
    <2>2. CASE i = Len(data) + 1
      BY <1>2, <2>2
    <2> QED BY <1>4, <2>1, <2>2
  <1>6. ASSUME NEW i \in 1 .. Len(r), NEW j \in 1 .. Len(r), i < j PROVE r[i].on < r[j].on
    <2>1. i \in 1 .. Len(data)
      BY <1>1, <1>2, <1>6
    <2>2. CASE j \in 1 .. Len(data)
      BY <1>2, <1>6, <2>1, <2>2 DEF Chronological
    <2>3. CASE j = Len(data) + 1
      BY <1>2, <1>3, <2>1, <2>3
    <2> QED BY <1>4, <2>2, <2>3
  <1> QED BY <1>2, <1>5, <1>6 DEF Chronological, r

LEMMA LaterIsLooser ==
    ASSUME NEW n \in Nat, NEW data, Chronological(data, n)
    PROVE  Chronological(data, n + 1)
  <1>1. ASSUME NEW i \in 1 .. Len(data) PROVE data[i].on < n + 1
    <2>1. data[i] \in Samples /\ data[i].on < n
      BY ElementOfSeq DEF Chronological
    <2>2. data[i].on \in Nat
      BY <2>1 DEF Samples
    <2> QED BY <2>1, <2>2
  <1> QED BY <1>1 DEF Chronological

LEMMA LastPointIsADay ==
    ASSUME NEW n \in Nat, DOMAIN wfClose = 0 .. n, Points(wfClose) # {}
    PROVE  LastPoint(wfClose) \in 0 .. n
  <1>1. Points(wfClose) \subseteq Int /\ Points(wfClose) \subseteq Nat /\ n \in Int
        /\ \A x \in Points(wfClose) : x <= n
    BY DEF Points
  <1>2. Max(Points(wfClose)) \in Points(wfClose)
    BY <1>1, MaxIsIn
  <1> QED BY <1>1, <1>2 DEF LastPoint

\* The outcome of a day that a pass looks at is over.
LEMMA StepsAreOver ==
    ASSUME NEW n \in Nat, DOMAIN wfClose = 0 .. n, Points(wfClose) # {}, NEW d \in Steps
    PROVE  d + Horizon <= n
  <1> DEFINE start == Max({Min(Points(wfClose)), LastDecision - Lookback})
  <1>1. d \in start .. LastDecision
    BY DEF Steps
  <1>2. LastPoint(wfClose) \in 0 .. n
    BY LastPointIsADay
  <1>3. Horizon \in Nat /\ Lookback \in Nat
    BY WalkAssumption
  <1> HIDE DEF start
  <1>4. d \in Int /\ d <= LastDecision
    BY <1>1
  <1> QED BY <1>2, <1>3, <1>4 DEF LastDecision

LEMMA AllMadeKeepsUp ==
    ASSUME NEW data \in Seq(Samples), NEW s, NEW close, NEW curve, NEW n,
           AllMade(data, close, curve, n), Made(s, close, curve, n)
    PROVE  AllMade(Append(data, s), close, curve, n)
  <1> DEFINE r == Append(data, s)
  <1>1. /\ Len(data) \in Nat /\ Len(r) = Len(data) + 1 /\ r[Len(data) + 1] = s
        /\ \A i \in 1 .. Len(data) : r[i] = data[i]
    OBVIOUS
  <1> HIDE DEF r
  <1>2. ASSUME NEW i \in 1 .. Len(r) PROVE Made(r[i], close, curve, n)
    <2>1. i \in 1 .. Len(data) \/ i = Len(data) + 1
      BY <1>1
    <2>2. CASE i \in 1 .. Len(data)
      <3>1. Made(data[i], close, curve, n)
        BY <2>2 DEF AllMade
      <3> QED BY <1>1, <2>2, <3>1
    <2>3. CASE i = Len(data) + 1
      BY <1>1, <2>3
    <2> QED BY <2>1, <2>2, <2>3
  <1> QED BY <1>2 DEF AllMade, r

LEMMA DatasetIsMade ==
    ASSUME NEW days \in Nat, DOMAIN wfClose = 0 .. days
    PROVE  /\ \E n \in Nat : Chronological(BuildDataset, n)
           /\ AllMade(BuildDataset, wfClose, Curve, days)
  <1> DEFINE last == LastPoint(wfClose)
             One(n) == SampleOn(wfClose, Curve, n)
             OneDay(data, n) == IF n \in Steps /\ Priced(wfClose, n) THEN Append(data, One(n)) ELSE data
             Loop(f, n) == f = [i \in 0 .. n |-> IF i = 0 THEN << >> ELSE OneDay(f[i - 1], i - 1)]
             Looped == {n \in Nat : \E f : Loop(f, n)}
             upTo == CHOOSE f : f = [i \in 0 .. last |->
                        IF i = 0 THEN << >>
                        ELSE IF i - 1 \in Steps /\ Priced(wfClose, i - 1)
                             THEN Append(f[i - 1], SampleOn(wfClose, Curve, i - 1))
                        ELSE f[i - 1]]
  <1>0. Chronological(<< >>, 0) /\ AllMade(<< >>, wfClose, Curve, days)
    <2>1. << >> \in Seq(Samples) /\ Len(<< >>) = 0 /\ 1 .. 0 = {}
      OBVIOUS
    <2> QED BY <2>1 DEF Chronological, AllMade
  <1>1. CASE Cardinality(Points(wfClose)) < 2
    <2>1. BuildDataset = << >>
      BY <1>1 DEF BuildDataset
    <2> QED BY <1>0, <2>1
  <1>2. CASE ~(Cardinality(Points(wfClose)) < 2)
    <2>1. Points(wfClose) # {}
      BY <1>2, FS_EmptySet
    <2>2. last \in Nat
      BY <2>1, LastPointIsADay
    <2>3. BuildDataset = upTo[last]
      BY <1>2 DEF BuildDataset
    <2> HIDE DEF last
    <2>4. 0 \in Looped
      <3>1. Loop([i \in 0 .. 0 |-> << >>], 0)
        <4> HIDE DEF OneDay
        <4> QED OBVIOUS
      <3> QED BY <3>1
    <2>5. ASSUME NEW n \in 0 .. last, n < last, n \in Looped PROVE n + 1 \in Looped
      <3>1. PICK f : Loop(f, n)
        BY <2>5
      <3> DEFINE g == [i \in 0 .. n + 1 |-> IF i = n + 1 THEN OneDay(f[n], n) ELSE f[i]]
      <3> HIDE DEF OneDay
      <3>2. Loop(g, n + 1)
        <4>1. ASSUME NEW i \in 0 .. n + 1
              PROVE  g[i] = IF i = 0 THEN << >> ELSE OneDay(g[i - 1], i - 1)
          <5>1. CASE i = n + 1
            <6>1. n + 1 - 1 = n /\ g[n] = f[n] /\ n + 1 # 0
              BY <2>2
            <6> QED BY <5>1, <6>1
          <5>2. CASE i \in 0 .. n /\ i # 0
            <6>1. g[i] = f[i] /\ i - 1 \in 0 .. n /\ g[i - 1] = f[i - 1]
              BY <2>2, <5>2
            <6> QED BY <3>1, <5>2, <6>1
          <5>3. CASE i = 0
            <6>1. g[0] = f[0]
              BY <2>2
            <6> QED BY <3>1, <5>3, <6>1
          <5> QED BY <5>1, <5>2, <5>3
        <4>2. g = [i \in 0 .. n + 1 |-> g[i]]
          OBVIOUS
        <4> HIDE DEF g
        <4> QED BY <4>1, <4>2
      <3> HIDE DEF g, Loop
      <3>3. n + 1 \in Nat
        BY <2>2
      <3> QED BY <3>2, <3>3
    <2>6. last \in Looped
      <3> HIDE DEF Looped
      <3>1. \A n \in 0 .. last : n \in Looped
        BY <2>2, <2>4, <2>5, IntervalInduction
      <3> QED BY <2>2, <3>1
    <2>7. Loop(upTo, last)
      BY <2>6
    <2> HIDE DEF upTo
    <2> DEFINE Good == {i \in Nat : Chronological(upTo[i], i) /\ AllMade(upTo[i], wfClose, Curve, days)}
    <2>8. 0 \in Good
      <3>1. upTo[0] = << >>
        <4> HIDE DEF OneDay
        <4> QED BY <2>2, <2>7
      <3> QED BY <1>0, <3>1
    <2>9. ASSUME NEW n \in 0 .. last, n < last, n \in Good PROVE n + 1 \in Good
      <3>1. upTo[n + 1] = OneDay(upTo[n], n)
        <4> HIDE DEF OneDay
        <4>1. n + 1 \in 0 .. last /\ n + 1 # 0 /\ n + 1 - 1 = n
          BY <2>2, <2>9
        <4> QED BY <2>7, <4>1
      <3>2. /\ n \in Nat /\ n + 1 \in Nat
            /\ Chronological(upTo[n], n) /\ AllMade(upTo[n], wfClose, Curve, days)
        BY <2>2, <2>9
      <3>3. CASE n \in Steps /\ Priced(wfClose, n)
        <4>1. One(n) \in Samples /\ One(n).on = n /\ One(n).ends = n + Horizon
          BY <3>2, SampleIsTyped
        <4>2. Chronological(Append(upTo[n], One(n)), n + 1)
          <5> HIDE DEF One
          <5> QED BY <3>2, <4>1, DayKeepsOrder
        <4>3. n + Horizon <= days
          BY <2>1, <3>3, StepsAreOver
        <4>4. Made(One(n), wfClose, Curve, days)
          BY <3>3, <4>1, <4>3 DEF Made
        <4>5. upTo[n] \in Seq(Samples)
          BY <3>2 DEF Chronological
        <4>6. AllMade(Append(upTo[n], One(n)), wfClose, Curve, days)
          <5> HIDE DEF One
          <5> QED BY <3>2, <4>4, <4>5, AllMadeKeepsUp
        <4> QED BY <3>1, <3>2, <3>3, <4>2, <4>6
      <3>4. CASE ~(n \in Steps /\ Priced(wfClose, n))
        <4>1. Chronological(upTo[n], n + 1)
          BY <3>2, LaterIsLooser
        <4> QED BY <3>1, <3>2, <3>4, <4>1
      <3> QED BY <3>3, <3>4
    <2>10. last \in Good
      <3> HIDE DEF Good
      <3>1. \A n \in 0 .. last : n \in Good
        BY <2>2, <2>8, <2>9, IntervalInduction
      <3> QED BY <2>2, <3>1
    <2> QED BY <2>2, <2>3, <2>10
  <1> QED BY <1>1, <1>2

LEMMA WalkStarts == WalkInit => WalkInv
  <1> SUFFICES ASSUME WalkInit PROVE WalkInv
    OBVIOUS
  <1>1. wfClose \in [0 .. 0 -> Nat]
    BY WalkAssumption DEF WalkInit
  <1>2. << >> \in Seq(Samples) /\ Len(<< >>) = 0 /\ 1 .. 0 = {}
    OBVIOUS
  <1>3. Chronological(wfData, 0) /\ AllMade(wfData, wfClose, Curve, 0)
    BY <1>2 DEF WalkInit, Chronological, AllMade
  <1> QED BY <1>1, <1>3 DEF WalkInv

\* What the series have become cuts back to what they were, so no sample changes.
LEMMA WalkStep == WalkInv /\ [WalkNext]_wfVars => WalkInv'
  <1> SUFFICES ASSUME WalkInv, [WalkNext]_wfVars PROVE WalkInv'
    OBVIOUS
  <1>1. PICK n \in Nat :
          /\ wfClose \in [0 .. n -> Nat]
          /\ \E m \in Nat : Chronological(wfData, m)
          /\ AllMade(wfData, wfClose, Curve, n)
    BY DEF WalkInv
  <1>2. CASE TradingDay
    <2>1. Cardinality(0 .. n) = n + 1 /\ n + 1 \in Nat /\ Horizon \in Nat
      BY FS_Interval, WalkAssumption
    <2>2. /\ wfClose' \in [0 .. n + 1 -> Nat] /\ wfData' = wfData
          /\ \A d \in 0 .. n : wfClose'[d] = wfClose[d]
          /\ wfClose = [d \in 0 .. n |-> wfClose[d]]
      <3>1. PICK c \in TargetCloses \cup {Missing} :
              wfClose' = [d \in 0 .. n + 1 |-> IF d \in 0 .. n THEN wfClose[d] ELSE c]
        BY <1>1, <1>2, <2>1 DEF TradingDay
      <3>2. c \in Nat
        BY WalkAssumption DEF Missing
      <3>3. \A d \in 0 .. n : wfClose[d] \in Nat
        BY <1>1
      <3>4. wfClose' \in [0 .. n + 1 -> Nat]
        BY <3>1, <3>2, <3>3
      <3>5. 0 .. n \subseteq 0 .. n + 1
        BY <2>1
      <3>6. \A d \in 0 .. n : wfClose'[d] = wfClose[d]
        BY <3>1, <3>5
      <3>7. wfClose = [d \in 0 .. n |-> wfClose[d]]
        BY <1>1
      <3>8. wfData' = wfData
        BY <1>2 DEF TradingDay
      <3> QED BY <3>4, <3>6, <3>7, <3>8
    <2>3. Before(wfClose', n + 1) = wfClose /\ Before(Curve', n + 1) = Curve
      <3>1. {d \in DOMAIN wfClose' : d < n + 1} = 0 .. n
        BY <2>2
      <3>2. [d \in 0 .. n |-> wfClose'[d]] = [d \in 0 .. n |-> wfClose[d]]
        BY <2>2
      <3>3. /\ Curve = [d \in 0 .. n |-> CurveCloses[d]]
            /\ Curve' = [d \in 0 .. n + 1 |-> CurveCloses[d]]
        BY <1>1, <2>2 DEF Curve
      <3>4. {d \in DOMAIN Curve' : d < n + 1} = 0 .. n /\ \A d \in 0 .. n : Curve'[d] = CurveCloses[d]
        BY <3>3
      <3>5. [d \in 0 .. n |-> Curve'[d]] = Curve
        BY <3>3, <3>4
      <3> QED BY <2>2, <3>1, <3>2, <3>4, <3>5 DEF Before
    <2>4. ASSUME NEW i \in 1 .. Len(wfData) PROVE Made(wfData[i], wfClose', Curve', n + 1)
      <3> DEFINE d == wfData[i].on
      <3>1. Made(wfData[i], wfClose, Curve, n)
        BY <1>1 DEF AllMade
      <3>2. wfData[i] \in Samples
        BY <1>1, ElementOfSeq DEF Chronological
      <3>3. d \in Nat /\ wfData[i].ends = d + Horizon /\ d + Horizon <= n
        BY <3>1, <3>2 DEF Samples, Made
      <3>4. /\ DOMAIN wfClose' \subseteq Int /\ DOMAIN Curve' \subseteq Int
            /\ n + 1 \in Int /\ d \in Int /\ d + Horizon < n + 1
        <4>1. DOMAIN Curve' = DOMAIN wfClose'
          BY DEF Curve
        <4> HIDE DEF d
        <4> QED BY <2>1, <2>2, <3>3, <4>1
      <3> HIDE DEF d
      <3>5. /\ Priced(wfClose, d) <=> Priced(wfClose', d)
            /\ Priced(wfClose', d) => SampleOn(wfClose, Curve, d) = SampleOn(wfClose', Curve', d)
        BY <2>3, <3>4, CutKeepsSamples
      <3>6. /\ wfData[i].ends = d + Horizon /\ wfData[i].ends <= n /\ wfData[i].ends <= n + 1
            /\ Priced(wfClose, d) /\ wfData[i] = SampleOn(wfClose, Curve, d)
        BY <1>1, <2>1, <3>1, <3>3 DEF Made, d
      <3>7. Priced(wfClose', d) /\ wfData[i] = SampleOn(wfClose', Curve', d)
        BY <3>5, <3>6
      <3> QED BY <3>6, <3>7 DEF Made, d
    <2>5. AllMade(wfData', wfClose', Curve', n + 1)
      BY <2>2, <2>4 DEF AllMade
    <2>6. \E m \in Nat : Chronological(wfData', m)
      BY <1>1, <2>2
    <2> QED BY <2>1, <2>2, <2>5, <2>6 DEF WalkInv
  <1>3. CASE LearnAgain
    <2>1. wfData' = BuildDataset /\ wfClose' = wfClose
      BY <1>3 DEF LearnAgain
    <2>2. (\E m \in Nat : Chronological(wfData', m)) /\ AllMade(wfData', wfClose, Curve, n)
      BY <1>1, <2>1, DatasetIsMade
    <2>3. Curve' = Curve
      BY <2>1 DEF Curve
    <2> QED BY <1>1, <2>1, <2>2, <2>3 DEF WalkInv
  <1>4. CASE UNCHANGED wfVars
    <2>1. wfClose' = wfClose /\ wfData' = wfData /\ Curve' = Curve
      BY <1>4 DEF wfVars, Curve
    <2> QED BY <1>1, <2>1 DEF WalkInv
  <1> QED BY <1>2, <1>3, <1>4 DEF WalkNext

\* The blocks the samples are cut into.
LEMMA FoldsFit ==
    ASSUME NEW n \in Nat, NEW k \in 0 .. Folds - 1, n \div (Folds + 1) >= 1
    PROVE  LET block == n \div (Folds + 1)  first == block * (k + 1) + 1 IN
           block \in Nat /\ first \in 1 .. n
  <1> DEFINE block == n \div (Folds + 1)
  <1>1. Folds \in Nat \ {0} /\ k + 1 \in 1 .. Folds
    BY WalkAssumption
  <1>2. block \in Nat /\ block * (Folds + 1) <= n
    BY <1>1
  <1> HIDE DEF block
  <1>3. block * (Folds + 1) = block * Folds + block /\ block * Folds \in Nat
    BY <1>1, <1>2
  <1>4. block * (k + 1) \in Nat /\ block * (k + 1) <= block * Folds
    BY <1>1, <1>2
  <1>5. block >= 1
    BY DEF block
  <1> QED BY <1>2, <1>3, <1>4, <1>5 DEF block

\* A fold: where its test opens and what the purge leaves of the samples before that.
LEMMA SplitsOpen ==
    ASSUME NEW data, Len(data) \in Nat, NEW split \in Splits(data)
    PROVE  \E first \in 1 .. Len(data) :
               /\ Min(split.test) = first
               /\ split.train = {i \in 1 .. first - 1 : Kept(data[i], data[first].on)}
  <1> DEFINE n == Len(data)  block == n \div (Folds + 1)
  <1>1. PICK k \in 0 .. Folds - 1 :
          LET first == block * (k + 1) + 1 IN
          /\ block >= 1
          /\ split = [train |-> {i \in 1 .. first - 1 : Kept(data[i], data[first].on)},
                      test |-> first .. Min({n, first + block - 1})]
    <2>1. PICK k \in 0 .. Folds - 1 : split = Fold(data, k)
      BY DEF Splits
    <2>2. Block(data) >= 1
      <3>1. Block(data) \in Int
        BY WalkAssumption DEF Block
      <3>2. ~(Block(data) < 1)
        BY DEF Splits
      <3> QED BY <3>1, <3>2
    <2> QED BY <2>1, <2>2 DEF Fold, Block
  <1> DEFINE first == block * (k + 1) + 1
  <1>2. block \in Nat /\ block >= 1 /\ first \in 1 .. n
    BY <1>1, FoldsFit
  <1>3. /\ split.train = {i \in 1 .. first - 1 : Kept(data[i], data[first].on)}
        /\ split.test = first .. Min({n, first + block - 1})
    BY <1>1
  <1> HIDE DEF first, block, n
  <1>4. n \in Nat
    BY DEF n
  <1>5. Min({n, first + block - 1}) \in first .. n
    <2> DEFINE other == first + block - 1
    <2>1. other \in Int /\ first <= other /\ first \in Int /\ first <= n
      BY <1>2, <1>4
    <2> HIDE DEF other
    <2>2. CASE n <= other
      <3>1. Min({n, other}) = n
        BY <1>4, <2>1, <2>2 DEF Min
      <3> QED BY <1>4, <2>1, <3>1 DEF other
    <2>3. CASE other < n
      <3>1. Min({n, other}) = other
        BY <1>4, <2>1, <2>3 DEF Min
      <3> QED BY <1>4, <2>1, <2>3, <3>1 DEF other
    <2> QED BY <1>4, <2>1, <2>2, <2>3
  <1> DEFINE end == Min({n, first + block - 1})
  <1>6. first \in split.test /\ split.test \subseteq first .. n
    <2>1. end \in first .. n /\ split.test = first .. end
      BY <1>3, <1>5
    <2> HIDE DEF end
    <2> QED BY <1>2, <1>4, <2>1
  <1>7. Min(split.test) \in split.test /\ Min(split.test) <= first
    BY <1>2, <1>6 DEF Min
  <1>8. Min(split.test) = first
    BY <1>2, <1>6, <1>7
  <1> QED BY <1>2, <1>3, <1>8 DEF n

\* For every series, horizon, step, look-back, tolerance and number of folds: a fold is
\* fitted on what the series held before its test opened, and no feature on more than what
\* they held on its day, by the days that points are about.
THEOREM FoldsAreFair == WalkSpec => []FoldsKnowNoFuture
  <1>1. WalkInv => FoldsKnowNoFuture
    <2> SUFFICES ASSUME WalkInv PROVE FoldsKnowNoFuture
      OBVIOUS
    <2> DEFINE n == Len(wfData)
    <2>1. PICK days \in Nat :
            /\ wfClose \in [0 .. days -> Nat]
            /\ \E m \in Nat : Chronological(wfData, m)
            /\ AllMade(wfData, wfClose, Curve, days)
      BY DEF WalkInv
    <2>2. /\ n \in Nat /\ DOMAIN wfData = 1 .. n
          /\ \A i \in 1 .. n : wfData[i] \in Samples /\ Made(wfData[i], wfClose, Curve, days)
      BY <2>1, LenProperties, ElementOfSeq DEF Chronological, AllMade
    <2>3. DOMAIN wfClose \subseteq Int /\ DOMAIN Curve \subseteq Int
      BY <2>1 DEF Curve
    <2> HIDE DEF n
    <2>4. ASSUME NEW i \in 1 .. n
          PROVE  wfData[i].features = Features(Before(wfClose, wfData[i].on + 1), Before(Curve, wfData[i].on + 1), wfData[i].on)
      <3> DEFINE on == wfData[i].on
      <3>1. on \in Nat /\ wfData[i] = SampleOn(wfClose, Curve, on)
        BY <2>2 DEF Samples, Made
      <3> HIDE DEF on
      <3>2. wfData[i].features = Features(wfClose, Curve, on)
        BY <3>1, SampleIsTyped
      <3>3. on \in Int /\ on + 1 \in Int /\ on < on + 1
        BY <3>1
      <3>4. Until(Before(wfClose, on + 1), on) = Until(wfClose, on)
        BY <2>3, <3>3, CutKeepsReadings
      <3>5. Until(Before(Curve, on + 1), on) = Until(Curve, on)
        BY <2>3, <3>3, CutKeepsReadings
      <3> QED BY <3>2, <3>4, <3>5 DEF Features, on
    <2>5. ASSUME NEW split \in Splits(wfData), NEW i \in FittedOn(split)
          PROVE  LET opens == wfData[Min(split.test)].on
                     close == Before(wfClose, opens)
                     curve == Before(Curve, opens)
                 IN  Priced(close, wfData[i].on) /\ wfData[i] = SampleOn(close, curve, wfData[i].on)
      <3>1. PICK first \in 1 .. n :
              /\ Min(split.test) = first
              /\ split.train = {j \in 1 .. first - 1 : Kept(wfData[j], wfData[first].on)}
        BY <2>2, SplitsOpen DEF n
      <3> DEFINE opens == wfData[first].on  on == wfData[i].on
      <3>2. i \in 1 .. first - 1 /\ wfData[i].ends < opens
        BY <3>1 DEF FittedOn, Kept
      <3>3. i \in 1 .. n
        BY <2>2, <3>2
      <3>4. /\ on \in Int /\ opens \in Int /\ wfData[i].ends = on + Horizon
            /\ Priced(wfClose, on) /\ wfData[i] = SampleOn(wfClose, Curve, on)
        BY <2>2, <3>3 DEF Samples, Made
      <3> HIDE DEF opens, on
      <3>5. on + Horizon < opens
        BY <3>2, <3>4
      <3>6. /\ Priced(Before(wfClose, opens), on)
            /\ SampleOn(Before(wfClose, opens), Before(Curve, opens), on) = SampleOn(wfClose, Curve, on)
        BY <2>3, <3>4, <3>5, CutKeepsSamples
      <3> QED BY <3>1, <3>4, <3>6 DEF opens, on
    <2> QED BY <2>2, <2>4, <2>5 DEF FoldsKnowNoFuture
  <1> QED BY WalkStarts, WalkStep, <1>1, PTL DEF WalkSpec

-----------------------------------------------------------------------------
(* What the venues give. *)

Quoted == [price : Int, size : Nat]

LEMMA BookFacts ==
    ASSUME NEW book \in QuotedBooks
    PROVE  /\ book.bids \in Seq(Quoted) /\ book.asks \in Seq(Quoted)
           /\ book.bids # << >> => BestBid(book) \in Int
           /\ book.asks # << >> => BestAsk(book) \in Int
  <1>1. book.bids \in Seq(Quoted) /\ book.asks \in Seq(Quoted)
    BY DEF QuotedBooks, Quoted
  <1>2. ASSUME NEW s \in Seq(Quoted), s # << >> PROVE s[1].price \in Int
    <2>1. Len(s) \in Nat /\ Len(s) # 0
      BY <1>2, LenProperties, EmptySeq
    <2>2. s[1] \in Quoted
      BY <2>1, ElementOfSeq
    <2> QED BY <2>2 DEF Quoted
  <1> QED BY <1>1, <1>2 DEF BestBid, BestAsk

LEMMA MinOfTwo ==
    ASSUME NEW a \in Int, NEW b \in Int
    PROVE  Min({a, b}) \in {a, b} /\ Min({a, b}) <= a /\ Min({a, b}) <= b
  <1>1. \E x \in {a, b} : \A y \in {a, b} : x <= y
    <2>1. a <= b \/ b <= a
      OBVIOUS
    <2> QED BY <2>1
  <1> QED BY <1>1 DEF Min

LEMMA MaxOfTwo ==
    ASSUME NEW a \in Int, NEW b \in Int
    PROVE  Max({a, b}) \in {a, b} /\ a <= Max({a, b}) /\ b <= Max({a, b})
  <1>1. \E x \in {a, b} : \A y \in {a, b} : x >= y
    <2>1. a <= b \/ b <= a
      OBVIOUS
    <2> QED BY <2>1
  <1> QED BY <1>1 DEF Max

LEMMA SumIsNatural ==
    ASSUME NEW s \in Seq(Nat)
    PROVE  SumSeq(s) \in Nat
  <1> DEFINE N == Len(s)
  <1>1. s \in Seq(Int) /\ N \in Nat /\ \A n \in 1 .. N : s[n] \in Nat
    <2>1. N \in Nat /\ \A n \in 1 .. N : s[n] \in Nat
      BY LenProperties, ElementOfSeq
    <2>2. s \in Seq(Int)
      OBVIOUS
    <2> QED BY <2>1, <2>2
  <1>2. PICK f \in [0 .. N -> Int] : SumsUp(f, s) /\ SumSeq(s) = f[N]
    BY <1>1, SumExists
  <1> DEFINE Natural == {n \in Nat : f[n] \in Nat}
  <1>3. 0 \in Natural
    BY <1>2 DEF SumsUp
  <1>4. ASSUME NEW n \in 0 .. N, n < N, n \in Natural PROVE n + 1 \in Natural
    <2>1. n + 1 \in 1 .. N /\ n + 1 - 1 = n /\ n + 1 \in Nat
      BY <1>1, <1>4
    <2>2. f[n + 1] = f[n] + s[n + 1] /\ f[n] \in Nat /\ s[n + 1] \in Nat
      BY <1>1, <1>2, <1>4, <2>1 DEF SumsUp
    <2> QED BY <2>1, <2>2
  <1>5. N \in Natural
    <2> HIDE DEF Natural
    <2>1. \A n \in 0 .. N : n \in Natural
      <3> HIDE DEF N
      <3> QED BY <1>1, <1>3, <1>4, IntervalInduction
    <2>2. N \in 0 .. N
      BY <1>1
    <2> QED BY <2>1, <2>2
  <1> QED BY <1>2, <1>5

LEMMA SizeIsNatural ==
    ASSUME NEW levels \in Seq(Quoted), NEW prices
    PROVE  SizeAt(levels, prices) \in Nat
  <1> DEFINE sizes == [k \in DOMAIN levels |-> IF levels[k].price \in prices THEN levels[k].size ELSE 0]
  <1>1. DOMAIN levels = 1 .. Len(levels) /\ Len(levels) \in Nat /\ \A k \in 1 .. Len(levels) : levels[k].size \in Nat
    <2>1. DOMAIN levels = 1 .. Len(levels) /\ Len(levels) \in Nat
      BY LenProperties
    <2>2. ASSUME NEW k \in 1 .. Len(levels) PROVE levels[k].size \in Nat
      <3>1. levels[k] \in Quoted
        BY ElementOfSeq
      <3> QED BY <3>1 DEF Quoted
    <2> QED BY <2>1, <2>2
  <1>2. sizes \in [1 .. Len(levels) -> Nat]
    BY <1>1
  <1>3. sizes \in Seq(Nat)
    <2> HIDE DEF sizes
    <2> QED BY <1>1, <1>2, SeqDef
  <1> HIDE DEF sizes
  <1>4. SumSeq(sizes) \in Nat
    BY <1>3, SumIsNatural
  <1> QED BY <1>4 DEF SizeAt, sizes

LEMMA SmallestIn ==
    ASSUME NEW T \in SUBSET Nat, T # {}
    PROVE  Smallest(T) \in Nat
  <1>1. \E x \in T : \A y \in T : x <= y
    BY LeastNatural
  <1>2. Smallest(T) \in T
    BY <1>1 DEF Smallest
  <1> QED BY <1>2

\* No more contracts than the budget buys.
LEMMA CappedFacts ==
    ASSUME NEW available \in SUBSET Nat, NEW unit \in Int
    PROVE  Capped(available, unit) \in Nat /\ Capped(available, unit) * unit <= Budget
  <1>1. Budget \in Nat
    BY BasketsAssumption
  <1>2. CASE available = {} \/ unit <= 0
    <2>1. Capped(available, unit) = 0
      BY <1>2 DEF Capped
    <2>2. 0 * unit = 0
      OBVIOUS
    <2> QED BY <1>1, <2>1, <2>2
  <1>3. CASE available # {} /\ ~(unit <= 0)
    <2> DEFINE s == Smallest(available)  most == Budget \div unit  m == Min({s, most})  n == Max({0, m})
    <2>1. s \in Nat
      BY <1>3, SmallestIn
    <2>2. unit \in Nat /\ unit > 0
      BY <1>3
    <2>3. most \in Nat /\ most * unit <= Budget /\ most * unit \in Nat
      <3>1. most \in Nat /\ Budget = unit * most + (Budget % unit) /\ Budget % unit \in 0 .. unit - 1
        BY <1>1, <2>2
      <3> HIDE DEF most
      <3> DEFINE rest == Budget % unit
      <3>2. rest \in Nat /\ Budget = unit * most + rest
        BY <2>2, <3>1
      <3>3. most * unit = unit * most /\ most * unit \in Nat
        BY <2>2, <3>1
      <3> HIDE DEF rest
      <3> QED BY <1>1, <3>1, <3>2, <3>3
    <2> HIDE DEF s, most
    <2>4. m \in {s, most} /\ m <= most
      <3>1. s \in Int /\ most \in Int
        BY <2>1, <2>3
      <3>2. Min({s, most}) \in {s, most} /\ Min({s, most}) <= most
        BY <3>1, MinOfTwo
      <3> QED BY <3>2
    <2> HIDE DEF m
    <2>5. m \in Nat
      BY <2>1, <2>3, <2>4
    <2>6. n \in {0, m} /\ 0 <= n
      BY <2>5, MaxOfTwo
    <2>7. Capped(available, unit) = n
      BY <1>3 DEF Capped, n, m, s, most
    <2> HIDE DEF n
    <2>8. n \in Nat /\ n <= most
      BY <2>3, <2>4, <2>5, <2>6
    <2>9. n * unit <= most * unit /\ n * unit \in Nat
      <3>1. PICK d \in Nat : most = n + d
        <4>1. most - n \in Nat /\ most = n + (most - n)
          BY <2>3, <2>8
        <4> QED BY <4>1
      <3>2. most * unit = n * unit + d * unit /\ d * unit \in Nat /\ n * unit \in Nat
        BY <2>2, <2>8, <3>1
      <3> QED BY <2>3, <3>2
    <2>10. n * unit <= Budget
      <3> DEFINE a == n * unit  b == most * unit
      <3>1. a \in Nat /\ b \in Nat /\ a <= b /\ b <= Budget
        BY <2>3, <2>9
      <3> HIDE DEF a, b
      <3>2. a <= Budget
        BY <1>1, <3>1
      <3> QED BY <3>2 DEF a
    <2> QED BY <2>7, <2>8, <2>10
  <1> QED BY <1>2, <1>3

-----------------------------------------------------------------------------
(* What a trade costs and pays. *)

PaysWhatItSays(o) ==
    /\ Net(o) >= MinEdge /\ o.cost <= Budget * 1000
    /\ \A resolved \in Worlds(o) : Payoff(o, resolved) >= o.pays

\* The legs that pay.
Winning(legs, resolved) == {k \in DOMAIN legs : (legs[k].side = "yes") = (legs[k].market \in resolved)}

\* What is bought within the budget, and of which enough legs pay, pays what it says.
LEMMA TradePays ==
    ASSUME NEW kind, NEW group, NEW legs, NEW n \in Nat, NEW each \in Nat, NEW sound,
           NEW total \in Int, total = SumSeq([k \in DOMAIN legs |-> legs[k].price]), n * total <= Budget,
           Net(Opportunity(kind, group, legs, n, each, sound)) >= MinEdge,
           \A resolved \in Worlds(Opportunity(kind, group, legs, n, each, sound)) :
              Cardinality(Winning(legs, resolved)) \in Nat /\ each <= Cardinality(Winning(legs, resolved))
    PROVE  PaysWhatItSays(Opportunity(kind, group, legs, n, each, sound))
  <1> DEFINE o == Opportunity(kind, group, legs, n, each, sound)
  <1>1. o.cost <= Budget * 1000
    <2> DEFINE spent == n * total
    <2>1. o.cost = spent * 1000
      BY DEF Opportunity
    <2>2. spent \in Int /\ Budget \in Nat /\ spent <= Budget
      BY BasketsAssumption
    <2> HIDE DEF spent, o
    <2> QED BY <2>1, <2>2
  <1>2. ASSUME NEW resolved \in Worlds(o) PROVE Payoff(o, resolved) >= o.pays
    <2> DEFINE m == Cardinality(Winning(legs, resolved))
    <2>1. m \in Nat /\ each <= m
      OBVIOUS
    <2>2. o.pays = n * each * 100 * 1000
      BY DEF Opportunity
    <2>3. Payoff(o, resolved) = n * 100 * 1000 * m
      BY DEF Payoff, Opportunity, Winning
    <2> HIDE DEF m, o
    <2>4. PICK d \in Nat : m = each + d
      <3>1. m - each \in Nat /\ m = each + (m - each)
        BY <2>1
      <3> QED BY <3>1
    <2>5. n * 100 * 1000 * (each + d) = n * each * 100 * 1000 + n * d * 100000
      OBVIOUS
    <2>6. n * each * 100 * 1000 \in Nat /\ n * d * 100000 \in Nat
      OBVIOUS
    <2> QED BY <2>2, <2>3, <2>4, <2>5, <2>6
  <1> HIDE DEF o
  <1> QED BY <1>1, <1>2 DEF PaysWhatItSays, o

\* Contracts with their books.
Contracted(cs) == \E S : cs \in Seq(S) /\ \A c \in S : c.yes \in QuotedBooks /\ c.no \in QuotedBooks

LEMMA ContractFacts ==
    ASSUME NEW cs, Contracted(cs)
    PROVE  /\ Len(cs) \in Nat /\ DOMAIN cs = 1 .. Len(cs)
           /\ \A i \in 1 .. Len(cs) : cs[i].yes \in QuotedBooks /\ cs[i].no \in QuotedBooks
  <1>1. PICK S : cs \in Seq(S) /\ \A c \in S : c.yes \in QuotedBooks /\ c.no \in QuotedBooks
    BY DEF Contracted
  <1> QED BY <1>1, LenProperties, ElementOfSeq

LEMMA WinningIsFinite ==
    ASSUME NEW N \in Nat, NEW legs, DOMAIN legs = 1 .. N, NEW resolved
    PROVE  /\ IsFiniteSet(Winning(legs, resolved)) /\ Cardinality(Winning(legs, resolved)) \in Nat
           /\ Winning(legs, resolved) # {} => 1 <= Cardinality(Winning(legs, resolved))
  <1>1. IsFiniteSet(1 .. N)
    BY FS_Interval
  <1> DEFINE W == Winning(legs, resolved)
  <1>2. W \subseteq 1 .. N
    BY DEF Winning
  <1> HIDE DEF W
  <1>3. IsFiniteSet(W)
    BY <1>1, <1>2, FS_Subset
  <1>4. Cardinality(W) \in Nat
    BY <1>3, FS_CardinalityType
  <1>5. W # {} => Cardinality(W) # 0
    BY <1>3, FS_EmptySet
  <1>6. W # {} => 1 <= Cardinality(W)
    BY <1>4, <1>5
  <1> QED BY <1>3, <1>4, <1>6 DEF W

\* Both sides of one question: one of them pays.
LEMMA ComplementaryPays ==
    ASSUME NEW group, Contracted(group.contracts), NEW i \in DOMAIN group.contracts,
           NEW o \in Complementary(group, i)
    PROVE  PaysWhatItSays(o)
  <1> DEFINE c == group.contracts[i]  yes == c.yes  no == c.no  unit == BestAsk(yes) + BestAsk(no)
             available == {AtAsk(yes), AtAsk(no)}  n == Capped(available, unit)
             legs == <<Leg(i, "yes", BestAsk(yes), c.venue), Leg(i, "no", BestAsk(no), c.venue)>>
             p == Opportunity("complementary", group, legs, n, 1, TRUE)
  <1>1. yes.asks # << >> /\ no.asks # << >> /\ o = p /\ Net(o) >= MinEdge
    <2>1. yes.asks # << >> /\ no.asks # << >>
      BY DEF Complementary
    <2>2. o \in WorthIt({p})
      <3> HIDE DEF p
      <3> QED BY DEF Complementary, p
    <2> HIDE DEF p
    <2>3. o = p /\ Net(o) >= MinEdge
      BY <2>2 DEF WorthIt
    <2> QED BY <2>1, <2>3
  <1>2. yes \in QuotedBooks /\ no \in QuotedBooks
    BY ContractFacts
  <1> DEFINE a == BestAsk(yes)  b == BestAsk(no)
  <1>3. a \in Int /\ b \in Int /\ unit \in Int
    BY <1>1, <1>2, BookFacts
  <1>4. available \in SUBSET Nat
    BY <1>2, BookFacts, SizeIsNatural DEF AtAsk
  <1>5. n \in Nat /\ n * unit <= Budget
    <2> HIDE DEF available, unit
    <2> QED BY <1>3, <1>4, CappedFacts
  <1>6. unit = SumSeq([k \in DOMAIN legs |-> legs[k].price])
    <2> DEFINE s == [k \in DOMAIN legs |-> legs[k].price]  f == [k \in 0 .. 2 |-> IF k = 0 THEN 0 ELSE IF k = 1 THEN a ELSE a + b]
    <2>1. s = <<a, b>>
      BY DEF Leg
    <2>2. s \in Seq(Int) /\ Len(s) = 2 /\ s[1] = a /\ s[2] = b
      BY <1>3, <2>1
    <2> HIDE DEF s, a, b
    <2>3. f[0] = 0 /\ f[1] = a /\ f[2] = a + b
      OBVIOUS
    <2> HIDE DEF f
    <2>4. SumsUp(f, s)
      <3>1. ASSUME NEW k \in 1 .. 2 PROVE f[k] = f[k - 1] + s[k]
        <4>1. k = 1 \/ k = 2
          OBVIOUS
        <4> QED BY <1>3, <2>2, <2>3, <4>1
      <3> QED BY <2>2, <2>3, <3>1 DEF SumsUp
    <2>5. SumSeq(s) = a + b
      BY <2>2, <2>3, <2>4, SumIs
    <2> QED BY <2>5 DEF s, a, b
  <1>7. ASSUME NEW resolved
        PROVE  Cardinality(Winning(legs, resolved)) \in Nat /\ 1 <= Cardinality(Winning(legs, resolved))
    <2>1. DOMAIN legs = 1 .. 2
      OBVIOUS
    <2>2. Winning(legs, resolved) # {}
      <3>1. /\ legs[1].side = "yes" /\ legs[1].market = i /\ legs[2].side = "no" /\ legs[2].market = i
            /\ 1 \in DOMAIN legs /\ 2 \in DOMAIN legs
        BY DEF Leg
      <3> HIDE DEF legs
      <3>2. CASE i \in resolved
        <4>1. 1 \in Winning(legs, resolved)
          BY <3>1, <3>2 DEF Winning
        <4> QED BY <4>1
      <3>3. CASE i \notin resolved
        <4>1. 2 \in Winning(legs, resolved)
          BY <3>1, <3>3 DEF Winning
        <4> QED BY <4>1
      <3> QED BY <3>2, <3>3
    <2> HIDE DEF legs
    <2> QED BY <2>1, <2>2, WinningIsFinite
  <1> HIDE DEF legs, n, unit
  <1>8. PaysWhatItSays(p)
    BY <1>1, <1>3, <1>5, <1>6, <1>7, TradePays
  <1> HIDE DEF p
  <1> QED BY <1>1, <1>8

\* A number for each contract is a sequence of numbers.
LEMMA PerContract ==
    ASSUME NEW N \in Nat, NEW s, s \in [1 .. N -> Int]
    PROVE  s \in Seq(Int) /\ Len(s) = N
  BY SeqDef, LenProperties

\* The depth behind every contract is a number of contracts.
LEMMA DepthIsNatural ==
    ASSUME NEW cs, Contracted(cs)
    PROVE  /\ {AtAsk(cs[i].yes) : i \in DOMAIN cs} \in SUBSET Nat
           /\ {AtBid(cs[i].yes) : i \in DOMAIN cs} \in SUBSET Nat
  <1> SUFFICES ASSUME NEW i \in DOMAIN cs PROVE AtAsk(cs[i].yes) \in Nat /\ AtBid(cs[i].yes) \in Nat
    OBVIOUS
  <1> DEFINE yes == cs[i].yes
  <1>1. yes \in QuotedBooks
    BY ContractFacts
  <1> HIDE DEF yes
  <1>2. AtAsk(yes) \in Nat /\ AtBid(yes) \in Nat
    BY <1>1, BookFacts, SizeIsNatural DEF AtAsk, AtBid
  <1> QED BY <1>2 DEF yes

\* Every YES where one of them must happen: one of them pays.
LEMMA BuyPays ==
    ASSUME NEW group, Contracted(group.contracts), NEW o \in BuyBasket(group), o.locked
    PROVE  PaysWhatItSays(o)
  <1> DEFINE cs == group.contracts  N == Len(cs)
             available == {AtAsk(cs[i].yes) : i \in DOMAIN cs}  n == Capped(available, AsksOf(cs))
             asks == [i \in DOMAIN cs |-> BestAsk(cs[i].yes)]
             legs == [i \in DOMAIN cs |-> Leg(i, "yes", BestAsk(cs[i].yes), group.venue)]
             p == Opportunity("basket_buy", group, legs, n, 1, IsExhaustive(group))
  <1>1. AllAsked(cs) /\ o = p /\ Net(o) >= MinEdge
    <2>1. AllAsked(cs)
      BY DEF BuyBasket, BuyBasketIf
    <2>2. o \in WorthIt({p})
      <3> HIDE DEF p
      <3> QED BY DEF BuyBasket, BuyBasketIf, p
    <2> HIDE DEF p
    <2>3. o = p /\ Net(o) >= MinEdge
      BY <2>2 DEF WorthIt
    <2> QED BY <2>1, <2>3
  <1>2. IsExhaustive(group)
    <2> DEFINE evident == IsExhaustive(group)
    <2>1. p.locked
      <3> HIDE DEF p
      <3> QED BY <1>1
    <2> HIDE DEF legs, n, evident
    <2>2. p.locked = (evident /\ \A k \in DOMAIN legs : VerifiedFees(legs[k].venue))
      BY DEF Opportunity, evident
    <2> HIDE DEF p
    <2> QED BY <2>1, <2>2 DEF evident
  <1>3. N \in Nat /\ DOMAIN cs = 1 .. N /\ \A i \in 1 .. N : cs[i].yes \in QuotedBooks /\ cs[i].yes.asks # << >>
    BY <1>1, ContractFacts DEF AllAsked
  <1>4. asks \in Seq(Int) /\ AsksOf(cs) = SumSeq(asks)
    <2>1. \A i \in 1 .. N : BestAsk(cs[i].yes) \in Int
      BY <1>3, BookFacts
    <2>2. asks \in [1 .. N -> Int]
      BY <1>3, <2>1
    <2> HIDE DEF asks, N
    <2>3. asks \in Seq(Int)
      BY <1>3, <2>2, PerContract
    <2> QED BY <2>3 DEF AsksOf, asks
  <1> DEFINE unit == AsksOf(cs)
  <1>5. unit \in Int
    <2> HIDE DEF asks
    <2>1. \E f \in [0 .. Len(asks) -> Int] : SumSeq(asks) = f[Len(asks)]
      BY <1>4, SumExists
    <2>2. Len(asks) \in Nat
      BY <1>4, LenProperties
    <2> QED BY <1>4, <2>1, <2>2
  <1>6. n \in Nat /\ n * unit <= Budget
    <2>1. available \in SUBSET Nat
      BY DepthIsNatural
    <2> HIDE DEF available, unit
    <2>2. Capped(available, unit) \in Nat /\ Capped(available, unit) * unit <= Budget
      BY <1>5, <2>1, CappedFacts
    <2> QED BY <2>2 DEF unit
  <1>7. unit = SumSeq([k \in DOMAIN legs |-> legs[k].price])
    <2>1. [k \in DOMAIN legs |-> legs[k].price] = asks
      BY DEF Leg
    <2> QED BY <1>4, <2>1
  <1>8. ASSUME NEW resolved \in Worlds(p)
        PROVE  Cardinality(Winning(legs, resolved)) \in Nat /\ 1 <= Cardinality(Winning(legs, resolved))
    <2>1. resolved \in SUBSET DOMAIN cs /\ resolved # {}
      BY <1>2 DEF Worlds, Opportunity
    <2>2. PICK r \in DOMAIN cs : r \in resolved
      BY <2>1
    <2>3. legs[r].side = "yes" /\ legs[r].market = r /\ DOMAIN legs = DOMAIN cs
      BY DEF Leg
    <2> HIDE DEF legs, cs
    <2>4. r \in Winning(legs, resolved)
      BY <2>2, <2>3 DEF Winning
    <2> HIDE DEF N
    <2> QED BY <1>3, <2>3, <2>4, WinningIsFinite
  <1> HIDE DEF legs, n, unit
  <1>9. PaysWhatItSays(p)
    BY <1>1, <1>5, <1>6, <1>7, <1>8, TradePays
  <1> HIDE DEF p
  <1> QED BY <1>1, <1>9

\* The bids' distances from a dollar add up to the dollars less the bids.
LEMMA Distances ==
    ASSUME NEW N \in Nat, NEW bids \in [1 .. N -> Int]
    PROVE  SumSeq([i \in 1 .. N |-> 100 - bids[i]]) = 100 * N - SumSeq(bids) /\ SumSeq(bids) \in Int
  <1> DEFINE away == [i \in 1 .. N |-> 100 - bids[i]]
  <1>1. bids \in Seq(Int) /\ Len(bids) = N
    BY PerContract
  <1>2. away \in Seq(Int) /\ Len(away) = N
    <2>1. away \in [1 .. N -> Int]
      OBVIOUS
    <2> HIDE DEF away
    <2> QED BY <2>1, PerContract
  <1>3. PICK f \in [0 .. N -> Int] : SumsUp(f, bids) /\ SumSeq(bids) = f[N]
    BY <1>1, SumExists
  <1> DEFINE g == [k \in 0 .. N |-> 100 * k - f[k]]
  <1>4. g[0] = 0
    BY <1>3 DEF SumsUp
  <1>5. ASSUME NEW k \in 1 .. N PROVE g[k] = g[k - 1] + away[k]
    <2>1. k - 1 \in 0 .. N /\ k \in 0 .. N /\ k \in Int
      OBVIOUS
    <2>2. g[k] = 100 * k - f[k] /\ g[k - 1] = 100 * (k - 1) - f[k - 1] /\ away[k] = 100 - bids[k]
      BY <2>1
    <2>3. f[k] = f[k - 1] + bids[k] /\ f[k - 1] \in Int /\ bids[k] \in Int
      BY <1>1, <1>3, <2>1 DEF SumsUp
    <2> HIDE DEF g, away
    <2> QED BY <2>1, <2>2, <2>3
  <1>6. g[N] = 100 * N - f[N] /\ f[N] \in Int
    <2>1. N \in 0 .. N
      OBVIOUS
    <2> QED BY <1>3, <2>1
  <1> HIDE DEF g, away
  <1>7. SumsUp(g, away)
    BY <1>2, <1>4, <1>5 DEF SumsUp
  <1>8. SumSeq(away) = g[N]
    BY <1>2, <1>7, SumIs
  <1> QED BY <1>3, <1>6, <1>8 DEF away

\* Every NO where no two can happen: all but one of them pay.
LEMMA SellPays ==
    ASSUME NEW group, Contracted(group.contracts), NEW o \in SellBasket(group)
    PROVE  PaysWhatItSays(o)
  <1> DEFINE cs == group.contracts  N == Len(cs)  unit == 100 * N - BidsOf(cs)
             available == {AtBid(cs[i].yes) : i \in DOMAIN cs}  n == Capped(available, unit)
             bids == [i \in DOMAIN cs |-> BestBid(cs[i].yes)]
             legs == [i \in DOMAIN cs |-> Leg(i, "no", 100 - BestBid(cs[i].yes), group.venue)]
             p == Opportunity("basket_sell", group, legs, n, N - 1, TRUE)
  <1>1. AllBid(cs) /\ Tradeable(group) /\ o = p /\ Net(o) >= MinEdge
    <2>1. AllBid(cs) /\ Tradeable(group)
      BY DEF SellBasket
    <2>2. o \in WorthIt({p})
      <3> HIDE DEF p
      <3> QED BY DEF SellBasket, p
    <2> HIDE DEF p
    <2>3. o = p /\ Net(o) >= MinEdge
      BY <2>2 DEF WorthIt
    <2> QED BY <2>1, <2>3
  <1>2. N \in Nat /\ DOMAIN cs = 1 .. N /\ \A i \in 1 .. N : cs[i].yes \in QuotedBooks /\ cs[i].yes.bids # << >>
    BY <1>1, ContractFacts DEF AllBid
  <1>3. group.exclusive /\ N >= 2
    BY <1>1 DEF Tradeable
  <1>4. bids \in [1 .. N -> Int] /\ BidsOf(cs) = SumSeq(bids)
    <2>1. \A i \in 1 .. N : BestBid(cs[i].yes) \in Int
      BY <1>2, BookFacts
    <2>2. bids \in [1 .. N -> Int]
      BY <1>2, <2>1
    <2> QED BY <2>2 DEF BidsOf
  <1>5. SumSeq([i \in 1 .. N |-> 100 - bids[i]]) = unit /\ unit \in Int
    <2> HIDE DEF bids, N
    <2>1. SumSeq([i \in 1 .. N |-> 100 - bids[i]]) = 100 * N - SumSeq(bids) /\ SumSeq(bids) \in Int
      BY <1>2, <1>4, Distances
    <2> QED BY <1>2, <1>4, <2>1
  <1>6. n \in Nat /\ n * unit <= Budget
    <2>1. available \in SUBSET Nat
      BY DepthIsNatural
    <2> HIDE DEF available, unit
    <2> QED BY <1>5, <2>1, CappedFacts
  <1>7. unit = SumSeq([k \in DOMAIN legs |-> legs[k].price])
    <2>1. [k \in DOMAIN legs |-> legs[k].price] = [i \in 1 .. N |-> 100 - bids[i]]
      BY <1>2 DEF Leg
    <2> HIDE DEF unit
    <2> QED BY <1>5, <2>1
  <1>8. ASSUME NEW resolved \in Worlds(p)
        PROVE  Cardinality(Winning(legs, resolved)) \in Nat /\ N - 1 <= Cardinality(Winning(legs, resolved))
    <2>1. resolved \in SUBSET (1 .. N) /\ Cardinality(resolved) <= 1
      BY <1>2, <1>3 DEF Worlds, Opportunity
    <2>2. DOMAIN legs = 1 .. N /\ \A k \in 1 .. N : legs[k].side = "no" /\ legs[k].market = k
      BY <1>2 DEF Leg
    <2> HIDE DEF legs, N
    <2>3. Winning(legs, resolved) = (1 .. N) \ resolved
      BY <2>2 DEF Winning
    <2>4. IsFiniteSet(1 .. N) /\ Cardinality(1 .. N) = N
      <3>1. N \in Int /\ ~(1 > N) /\ N - 1 + 1 = N
        BY <1>2, <1>3
      <3>2. IsFiniteSet(1 .. N) /\ Cardinality(1 .. N) = IF 1 > N THEN 0 ELSE N - 1 + 1
        BY <3>1, FS_Interval
      <3> QED BY <3>1, <3>2
    <2>5. IsFiniteSet(resolved) /\ Cardinality(resolved) \in Nat
      BY <2>1, <2>4, FS_Subset, FS_CardinalityType
    <2>6. (1 .. N) \cap resolved = resolved
      BY <2>1
    <2>7. Cardinality((1 .. N) \ resolved) = N - Cardinality(resolved)
      <3> DEFINE all == 1 .. N  rest == all \ resolved
      <3>1. all \cap resolved = resolved /\ IsFiniteSet(all) /\ Cardinality(all) = N
        BY <2>4, <2>6
      <3> HIDE DEF all
      <3>2. Cardinality(rest) = Cardinality(all) - Cardinality(all \cap resolved)
        BY <2>5, <3>1, FS_Difference
      <3> HIDE DEF rest
      <3>3. Cardinality(rest) = N - Cardinality(resolved)
        BY <3>1, <3>2
      <3> QED BY <3>3 DEF rest, all
    <2>8. Cardinality(Winning(legs, resolved)) \in Nat
      BY <1>2, <2>2, WinningIsFinite
    <2> QED BY <1>2, <2>1, <2>3, <2>5, <2>7, <2>8
  <1>9. N - 1 \in Nat
    BY <1>2, <1>3
  <1> DEFINE each == N - 1
  <1> HIDE DEF legs, n, unit, N, each
  <1>10. PaysWhatItSays(Opportunity("basket_sell", group, legs, n, each, TRUE))
    BY <1>1, <1>5, <1>6, <1>7, <1>8, <1>9, TradePays DEF each
  <1> HIDE DEF p
  <1> QED BY <1>1, <1>10 DEF p, each

\* The same words on two venues are never called locked.
LEMMA CrossVenueIsOpen ==
    ASSUME NEW g, NEW h, NEW o \in CrossVenue(g, h)
    PROVE  ~o.locked
  <1>1. ASSUME NEW kind, NEW group, NEW legs, NEW n, NEW each
        PROVE  ~Opportunity(kind, group, legs, n, each, FALSE).locked
    BY DEF Opportunity
  <1>2. \E kind, group, legs, n, each : o = Opportunity(kind, group, legs, n, each, FALSE)
    <2> DEFINE Found(i, j) ==
                 LET a == g.contracts[i]  b == h.contracts[j] IN
                 IF <<a.title, b.title>> \notin Similar \/ a.yes = NoBook \/ b.yes = NoBook
                    \/ a.yes.asks = << >> \/ b.no.asks = << >> THEN {}
                 ELSE LET unit == BestAsk(a.yes) + BestAsk(b.no)
                          n == Capped({AtAsk(a.yes), AtAsk(b.no)}, unit)
                      IN  IF unit >= 100 \/ n < MinContracts THEN {}
                          ELSE WorthIt({Opportunity("cross_venue", g,
                                          <<Leg(i, "yes", BestAsk(a.yes), a.venue), Leg(j, "no", BestAsk(b.no), b.venue)>>,
                                          n, 1, FALSE)})
    <2>1. PICK i, j : o \in Found(i, j)
      <3>1. CrossVenue(g, h) = UNION {Found(i, j) : i \in DOMAIN g.contracts, j \in DOMAIN h.contracts}
        BY DEF CrossVenue
      <3> HIDE DEF Found
      <3> QED BY <3>1
    <2>2. \E p : o \in WorthIt({p}) /\ \E kind, group, legs, n, each : p = Opportunity(kind, group, legs, n, each, FALSE)
      BY <2>1
    <2> QED BY <2>2 DEF WorthIt
  <1> QED BY <1>1, <1>2

-----------------------------------------------------------------------------
(* The groups. *)

Markets(event) == {event.markets[i] : i \in 1 .. Len(event.markets)}

LEMMA ListedIsOfTheEvent ==
    ASSUME NEW event \in Events
    PROVE  Listed(event) \in Seq(Markets(event))
  <1> DEFINE N == Len(event.markets)  T == Seq(Markets(event))
             Loop(f) == f = [i \in 0 .. N |->
                IF i = 0 THEN << >>
                ELSE IF event.markets[i].tokens THEN Append(f[i - 1], event.markets[i]) ELSE f[i - 1]]
             listed == CHOOSE f : Loop(f)
             step == [p \in (1 .. N) \X T |->
                IF event.markets[p[1]].tokens THEN Append(p[2], event.markets[p[1]]) ELSE p[2]]
  <1>1. N \in Nat /\ \A i \in 1 .. N : event.markets[i] \in Markets(event)
    BY BasketsAssumption DEF Markets
  <1>2. << >> \in T /\ step \in [(1 .. N) \X T -> T]
    <2>1. << >> \in T
      BY EmptySeq
    <2>2. ASSUME NEW s \in T, NEW m \in Markets(event) PROVE Append(s, m) \in T
      OBVIOUS
    <2> HIDE DEF N, T
    <2>3. step \in [(1 .. N) \X T -> T]
      BY <1>1, <2>2
    <2> QED BY <2>1, <2>3
  <1>3. PICK f : f \in [0 .. N -> T] /\ f[0] = << >> /\ \A i \in 1 .. N : f[i] = step[<<i, f[i - 1]>>]
    <2>1. \E f : Runs(f, N, T, << >>, step)
      <3> DEFINE base == << >>
      <3>1. base \in T
        BY <1>2
      <3> HIDE DEF step, N, T, base
      <3>2. \E f : Runs(f, N, T, base, step)
        BY <1>1, <1>2, <3>1, LoopRuns
      <3> QED BY <3>2 DEF base
    <2> HIDE DEF step, N, T
    <2> QED BY <2>1 DEF Runs
  <1>4. Loop(f)
    <2>1. ASSUME NEW i \in 0 .. N
          PROVE  f[i] = IF i = 0 THEN << >>
                        ELSE IF event.markets[i].tokens THEN Append(f[i - 1], event.markets[i]) ELSE f[i - 1]
      <3>1. CASE i # 0
        <4>1. i \in 1 .. N /\ i - 1 \in 0 .. N
          BY <1>1, <3>1
        <4>2. f[i - 1] \in T
          <5> HIDE DEF T, N, step
          <5> QED BY <1>3, <4>1
        <4>3. <<i, f[i - 1]>> \in (1 .. N) \X T
          <5> HIDE DEF T, N
          <5> QED BY <4>1, <4>2
        <4> DEFINE last == f[i - 1]
        <4>4. f[i] = step[<<i, last>>]
          <5> HIDE DEF T, N, step
          <5> QED BY <1>3, <4>1
        <4> HIDE DEF T, N, last
        <4>5. step[<<i, last>>] = IF event.markets[i].tokens THEN Append(last, event.markets[i]) ELSE last
          BY <4>3 DEF last
        <4> HIDE DEF step
        <4> QED BY <3>1, <4>4, <4>5 DEF last
      <3>2. CASE i = 0
        <4> HIDE DEF step, T, N
        <4> QED BY <1>3, <3>2
      <3> QED BY <3>1, <3>2
    <2> HIDE DEF step, T, N
    <2>2. f = [i \in 0 .. N |-> f[i]]
      BY <1>3
    <2> QED BY <2>1, <2>2
  <1>5. Loop(listed)
    <2> HIDE DEF Loop
    <2> QED BY <1>4
  <1>6. Listed(event) = listed[N]
    BY DEF Listed
  <1> DEFINE Typed == {n \in Nat : listed[n] \in T}
  <1>7. \A n \in 0 .. N : n \in Typed
    <2> HIDE DEF listed
    <2>1. \A i \in 0 .. N : listed[i] = IF i = 0 THEN << >>
              ELSE IF event.markets[i].tokens THEN Append(listed[i - 1], event.markets[i]) ELSE listed[i - 1]
      BY <1>5
    <2> HIDE DEF Loop, step
    <2>2. 0 \in Typed
      <3>1. listed[0] = << >>
        <4>1. 0 \in 0 .. N
          BY <1>1
        <4> HIDE DEF N
        <4> QED BY <2>1, <4>1
      <3> HIDE DEF T
      <3> QED BY <1>2, <3>1
    <2>3. ASSUME NEW n \in 0 .. N, n < N, n \in Typed PROVE n + 1 \in Typed
      <3>1. n + 1 \in 0 .. N /\ n + 1 # 0 /\ n + 1 - 1 = n /\ n + 1 \in 1 .. N /\ n + 1 \in Nat
        BY <1>1, <2>3
      <3>2. listed[n] \in T
        BY <2>3
      <3> DEFINE last == listed[n]  m == event.markets[n + 1]
      <3>3. listed[n + 1] = IF m.tokens THEN Append(last, m) ELSE last
        <4> HIDE DEF N
        <4> QED BY <2>1, <3>1
      <3>4. m \in Markets(event)
        BY <1>1, <3>1
      <3> HIDE DEF last, m
      <3>5. last \in T
        BY <3>2 DEF last
      <3>6. listed[n + 1] \in T
        <4>1. Append(last, m) \in T
          BY <3>4, <3>5
        <4> HIDE DEF T
        <4> QED BY <3>3, <3>5, <4>1
      <3> HIDE DEF T
      <3> QED BY <3>1, <3>6
    <2> HIDE DEF Typed, N
    <2> QED BY <1>1, <2>2, <2>3, IntervalInduction
  <1> HIDE DEF listed, Loop, step
  <1>8. N \in 0 .. N
    BY <1>1
  <1> HIDE DEF N, T
  <1>9. listed[N] \in T
    BY <1>7, <1>8
  <1> QED BY <1>6, <1>9 DEF T

\* A number of levels, each made of a level of a book.
LEMMA LevelsMade ==
    ASSUME NEW levels \in Seq(Quoted)
    PROVE  [i \in DOMAIN levels |-> Level(100 - levels[i].price, levels[i].size)] \in Seq(Quoted)
  <1> DEFINE made == [i \in DOMAIN levels |-> Level(100 - levels[i].price, levels[i].size)]
  <1>1. DOMAIN levels = 1 .. Len(levels) /\ Len(levels) \in Nat
    BY LenProperties
  <1>2. ASSUME NEW i \in 1 .. Len(levels) PROVE Level(100 - levels[i].price, levels[i].size) \in Quoted
    <2>1. levels[i] \in Quoted
      BY ElementOfSeq
    <2> QED BY <2>1 DEF Quoted, Level
  <1>3. made \in [1 .. Len(levels) -> Quoted]
    BY <1>1, <1>2
  <1> HIDE DEF made
  <1>4. made \in Seq(Quoted)
    BY <1>1, <1>3, SeqDef
  <1> QED BY <1>4 DEF made

LEMMA BooksAre ==
    ASSUME NEW bids \in Seq(Quoted), NEW asks \in Seq(Quoted)
    PROVE  [bids |-> bids, asks |-> asks] \in QuotedBooks
  BY DEF QuotedBooks, Quoted

LEMMA KalshiQuotes ==
    ASSUME NEW market, NEW event, market.yes \in QuotedBooks
    PROVE  KalshiContract(market, event).yes \in QuotedBooks /\ KalshiContract(market, event).no \in QuotedBooks
  <1> DEFINE yes == market.yes
             bids == [i \in DOMAIN yes.asks |-> Level(100 - yes.asks[i].price, yes.asks[i].size)]
             asks == [i \in DOMAIN yes.bids |-> Level(100 - yes.bids[i].price, yes.bids[i].size)]
  <1>1. yes.bids \in Seq(Quoted) /\ yes.asks \in Seq(Quoted)
    BY BookFacts
  <1> HIDE DEF yes
  <1>2. bids \in Seq(Quoted) /\ asks \in Seq(Quoted)
    BY <1>1, LevelsMade
  <1>3. KalshiContract(market, event).yes = yes /\ KalshiContract(market, event).no = [bids |-> bids, asks |-> asks]
    BY DEF KalshiContract, yes
  <1> HIDE DEF bids, asks
  <1>4. [bids |-> bids, asks |-> asks] \in QuotedBooks
    BY <1>2, BooksAre
  <1> QED BY <1>3, <1>4 DEF yes

LEMMA PolymarketQuotes ==
    ASSUME NEW market, NEW event, NEW fetched, market.yes \in QuotedBooks, market.no \in QuotedBooks
    PROVE  /\ PolymarketContract(market, event, fetched).yes \in QuotedBooks
           /\ PolymarketContract(market, event, fetched).no \in QuotedBooks
  <1> DEFINE Bare(levels) == IF levels = << >> THEN << >> ELSE <<Level(levels[1].price, 0)>>
             bids == Bare(market.yes.bids)  asks == Bare(market.yes.asks)
             indicative == [bids |-> bids, asks |-> asks]
  <1>1. ASSUME NEW levels \in Seq(Quoted) PROVE Bare(levels) \in Seq(Quoted)
    <2>1. CASE levels = << >>
      BY <2>1, EmptySeq
    <2>2. CASE levels # << >>
      <3>1. Len(levels) \in Nat /\ Len(levels) # 0
        BY <2>2, LenProperties, EmptySeq
      <3>2. levels[1] \in Quoted
        BY <3>1, ElementOfSeq
      <3>3. Level(levels[1].price, 0) \in Quoted
        BY <3>2 DEF Quoted, Level
      <3> QED BY <2>2, <3>3
    <2> QED BY <2>1, <2>2
  <1>2. bids \in Seq(Quoted) /\ asks \in Seq(Quoted)
    <2> HIDE DEF Bare
    <2> QED BY <1>1, BookFacts
  <1> HIDE DEF bids, asks
  <1>3. indicative \in QuotedBooks
    BY <1>2, BooksAre
  <1>4. NoBook \in QuotedBooks
    <2>1. << >> \in Seq(Quoted)
      BY EmptySeq
    <2> QED BY <2>1, BooksAre DEF NoBook
  <1> DEFINE c == PolymarketContract(market, event, fetched)
  <1>5. /\ c.yes = IF fetched < MaxBooks THEN market.yes ELSE indicative
        /\ c.no = IF fetched < MaxBooks THEN market.no ELSE NoBook
    BY DEF PolymarketContract, bids, asks
  <1> HIDE DEF c, indicative
  <1> QED BY <1>3, <1>4, <1>5 DEF c

\* What is fetched is contracts with their books.
LEMMA GroupIsContracted ==
    ASSUME NEW event \in Events, NEW books
    PROVE  Contracted(GroupOf(event, books).contracts)
  <1> DEFINE listed == Listed(event)
             Contract(i) == IF event.venue = "polymarket" THEN PolymarketContract(listed[i], event, books + 2 * (i - 1))
                            ELSE KalshiContract(listed[i], event)
             contracts == [i \in DOMAIN listed |-> Contract(i)]
             S == {contracts[i] : i \in DOMAIN contracts}
  <1>1. GroupOf(event, books).contracts = contracts
    BY DEF GroupOf
  <1>2. listed \in Seq(Markets(event)) /\ DOMAIN listed = 1 .. Len(listed) /\ Len(listed) \in Nat
    <2>1. listed \in Seq(Markets(event))
      BY ListedIsOfTheEvent
    <2> HIDE DEF listed
    <2> QED BY <2>1, LenProperties
  <1>3. ASSUME NEW i \in 1 .. Len(listed) PROVE listed[i].yes \in QuotedBooks /\ listed[i].no \in QuotedBooks
    <2>1. listed[i] \in Markets(event)
      <3> HIDE DEF listed
      <3> QED BY <1>2, ElementOfSeq
    <2> HIDE DEF listed
    <2>2. PICK k \in 1 .. Len(event.markets) : listed[i] = event.markets[k]
      BY <2>1 DEF Markets
    <2>3. event.markets[k].yes \in QuotedBooks /\ event.markets[k].no \in QuotedBooks
      BY BasketsAssumption
    <2> QED BY <2>2, <2>3
  <1> HIDE DEF listed
  <1>4. ASSUME NEW i \in 1 .. Len(listed) PROVE Contract(i).yes \in QuotedBooks /\ Contract(i).no \in QuotedBooks
    BY <1>3, KalshiQuotes, PolymarketQuotes
  <1> HIDE DEF Contract
  <1>5. DOMAIN contracts = 1 .. Len(listed) /\ \A i \in 1 .. Len(listed) : contracts[i] = Contract(i)
    BY <1>2
  <1> HIDE DEF contracts
  <1>6. contracts \in Seq(S)
    <2>1. contracts \in [1 .. Len(listed) -> S]
      <3>1. contracts = [i \in 1 .. Len(listed) |-> contracts[i]]
        BY <1>2 DEF contracts
      <3>2. \A i \in 1 .. Len(listed) : contracts[i] \in S
        BY <1>5
      <3> HIDE DEF S
      <3> QED BY <3>1, <3>2
    <2> HIDE DEF S
    <2> QED BY <1>2, <2>1, SeqDef
  <1>7. \A c \in S : c.yes \in QuotedBooks /\ c.no \in QuotedBooks
    BY <1>4, <1>5
  <1> HIDE DEF S
  <1> QED BY <1>1, <1>6, <1>7 DEF Contracted

-----------------------------------------------------------------------------
(* The scan. *)

Fetched(groups) == \E S : groups \in Seq(S) /\ \A g \in S : Contracted(g.contracts)

LEMMA ScanPays ==
    ASSUME NEW groups, Fetched(groups), NEW o \in ScanOf(groups), o.locked
    PROVE  PaysWhatItSays(o)
  <1>1. ASSUME NEW k \in DOMAIN groups PROVE Contracted(groups[k].contracts)
    <2>1. PICK S : groups \in Seq(S) /\ \A g \in S : Contracted(g.contracts)
      BY DEF Fetched
    <2>2. groups[k] \in S
      BY <2>1, LenProperties, ElementOfSeq
    <2> QED BY <2>1, <2>2
  <1>2. CASE \E k \in DOMAIN groups : o \in SellBasket(groups[k])
    BY <1>1, <1>2, SellPays
  <1>3. CASE \E k \in DOMAIN groups : o \in BuyBasket(groups[k])
    BY <1>1, <1>3, BuyPays
  <1>4. CASE \E k \in DOMAIN groups : \E i \in DOMAIN groups[k].contracts : o \in Complementary(groups[k], i)
    BY <1>1, <1>4, ComplementaryPays
  <1>5. CASE \E g, h : o \in CrossVenue(g, h)
    BY <1>5, CrossVenueIsOpen
  <1> DEFINE alone == UNION {SellBasket(groups[k]) \cup BuyBasket(groups[k])
                        \cup UNION {Complementary(groups[k], i) : i \in DOMAIN groups[k].contracts} : k \in DOMAIN groups}
             across == UNION {CrossVenue(groups[p[1]], groups[p[2]]) :
                         p \in {q \in (DOMAIN groups) \X (DOMAIN groups) : groups[q[1]].venue # groups[q[2]].venue}}
  <1>6. o \in alone \/ o \in across
    <2>1. ScanOf(groups) = alone \cup across
      BY DEF ScanOf
    <2> HIDE DEF alone, across
    <2> QED BY <2>1
  <1>7. CASE o \in alone
    <2>1. PICK k \in DOMAIN groups : \/ o \in SellBasket(groups[k]) \/ o \in BuyBasket(groups[k])
                                    \/ \E i \in DOMAIN groups[k].contracts : o \in Complementary(groups[k], i)
      BY <1>7
    <2> QED BY <1>2, <1>3, <1>4, <2>1
  <1>8. CASE o \in across
    <2>1. \E g, h : o \in CrossVenue(g, h)
      BY <1>8
    <2> QED BY <1>5, <2>1
  <1> QED BY <1>6, <1>7, <1>8

BasketsInv ==
    /\ Fetched(bGroups)
    /\ \A o \in bFound : o.locked => PaysWhatItSays(o)

\* In every history of scans a trade that is called locked pays what it says in every
\* world its group admits, for more than its cost and fees and within the budget,
\* whatever the venues give.  Code: the three checks of the scan, depth_to,
\* _capped_contracts and the fee models.
THEOREM LockedTradesPay == BasketsSpec => []LockedPaysWhatItSays
  <1>1. BasketsInit => BasketsInv
    <2> SUFFICES ASSUME BasketsInit PROVE BasketsInv
      OBVIOUS
    <2> DEFINE none == {}
    <2>1. << >> \in Seq(none) /\ \A g \in none : Contracted(g.contracts)
      BY EmptySeq
    <2> HIDE DEF none
    <2>2. Fetched(<< >>)
      BY <2>1 DEF Fetched
    <2> QED BY <2>2 DEF BasketsInit, BasketsInv
  <1>2. BasketsInv /\ [BasketsNext]_bVars => BasketsInv'
    <2> SUFFICES ASSUME BasketsInv, [BasketsNext]_bVars PROVE BasketsInv'
      OBVIOUS
    <2>1. ASSUME NEW event \in Events, Fetch(event) PROVE BasketsInv'
      <3> DEFINE g == GroupOf(event, bBooks)
      <3>1. PICK S : bGroups \in Seq(S) /\ \A h \in S : Contracted(h.contracts)
        BY DEF BasketsInv, Fetched
      <3>2. Contracted(g.contracts)
        BY GroupIsContracted
      <3>3. bGroups' = Append(bGroups, g) /\ bFound' = bFound
        BY <2>1 DEF Fetch
      <3> HIDE DEF g
      <3> DEFINE T == S \cup {g}
      <3>4. bGroups \in Seq(T) /\ g \in T /\ \A h \in T : Contracted(h.contracts)
        BY <3>1, <3>2
      <3> HIDE DEF T
      <3>5. Append(bGroups, g) \in Seq(T)
        BY <3>4
      <3>6. Fetched(Append(bGroups, g))
        BY <3>4, <3>5 DEF Fetched
      <3> QED BY <3>3, <3>6 DEF BasketsInv
    <2>2. ASSUME ScanGroups PROVE BasketsInv'
      <3>1. bGroups' = bGroups /\ bFound' = ScanOf(bGroups)
        BY <2>2 DEF ScanGroups
      <3>2. \A o \in ScanOf(bGroups) : o.locked => PaysWhatItSays(o)
        BY ScanPays DEF BasketsInv
      <3> QED BY <3>1, <3>2 DEF BasketsInv
    <2>3. CASE UNCHANGED bVars
      BY <2>3 DEF BasketsInv, bVars
    <2> QED BY <2>1, <2>2, <2>3 DEF BasketsNext
  <1>3. BasketsInv => LockedPaysWhatItSays
    BY DEF BasketsInv, LockedPaysWhatItSays, PaysWhatItSays
  <1> QED BY <1>1, <1>2, <1>3, PTL DEF BasketsSpec

-----------------------------------------------------------------------------
(* Shares: so many hits of so many calls, compared without dividing. *)

Share(a) == a.hits \in Int /\ a.calls \in Nat
Plus(a, b) == [hits |-> a.hits + b.hits, calls |-> a.calls + b.calls]

LEMMA ScaledOrder ==
    ASSUME NEW x \in Int, NEW y \in Int, NEW n \in Nat
    PROVE  /\ x <= y => x * n <= y * n
           /\ n > 0 /\ x * n <= y * n => x <= y
  <1>1. ASSUME x <= y PROVE x * n <= y * n
    <2>1. PICK d \in Nat : y = x + d
      <3>1. y - x \in Nat /\ y = x + (y - x)
        BY <1>1
      <3> QED BY <3>1
    <2>2. y * n = x * n + d * n /\ d * n \in Nat /\ x * n \in Int
      BY <2>1
    <2> QED BY <2>2
  <1>2. ASSUME n > 0, x * n <= y * n, ~(x <= y) PROVE FALSE
    <2>1. PICK d \in Nat : x = y + 1 + d
      <3>1. x - y - 1 \in Nat /\ x = y + 1 + (x - y - 1)
        BY <1>2
      <3> QED BY <3>1
    <2>2. x * n = y * n + n + d * n /\ d * n \in Nat /\ y * n \in Int
      BY <2>1
    <2> DEFINE yn == y * n  dn == d * n  xn == x * n
    <2>3. xn = yn + n + dn /\ dn \in Nat /\ yn \in Int /\ xn <= yn
      BY <1>2, <2>2
    <2> HIDE DEF yn, dn, xn
    <2> QED BY <1>2, <2>3
  <1> QED BY <1>1, <1>2

LEMMA AtMostThrough ==
    ASSUME NEW a, NEW b, NEW c, Share(a), Share(b), Share(c), b.calls > 0, AtMost(a, b), AtMost(b, c)
    PROVE  AtMost(a, c)
  <1> DEFINE ah == a.hits  ac == a.calls  bh == b.hits  bc == b.calls  ch == c.hits  cc == c.calls
  <1>1. /\ ah \in Int /\ bh \in Int /\ ch \in Int /\ ac \in Nat /\ bc \in Nat /\ cc \in Nat /\ bc > 0
        /\ ah * bc <= bh * ac /\ bh * cc <= ch * bc
    BY DEF Share, AtMost
  <1> HIDE DEF ah, ac, bh, bc, ch, cc
  <1>2. (ah * bc) * cc <= (bh * ac) * cc
    <2> DEFINE x == ah * bc  y == bh * ac
    <2>1. x \in Int /\ y \in Int /\ x <= y
      BY <1>1
    <2> HIDE DEF x, y
    <2>2. x * cc <= y * cc
      BY <1>1, <2>1, ScaledOrder
    <2> QED BY <2>2 DEF x, y
  <1>3. (bh * cc) * ac <= (ch * bc) * ac
    <2> DEFINE x == bh * cc  y == ch * bc
    <2>1. x \in Int /\ y \in Int /\ x <= y
      BY <1>1
    <2> HIDE DEF x, y
    <2>2. x * ac <= y * ac
      BY <1>1, <2>1, ScaledOrder
    <2> QED BY <2>2 DEF x, y
  <1>4. (ah * bc) * cc = (ah * cc) * bc /\ (bh * ac) * cc = (bh * cc) * ac /\ (ch * bc) * ac = (ch * ac) * bc
    BY <1>1
  <1> DEFINE p == ah * cc  q == ch * ac  left == (ah * bc) * cc  mid == (bh * cc) * ac  right == (ch * bc) * ac
  <1>5. p \in Int /\ q \in Int /\ left \in Int /\ mid \in Int /\ right \in Int
    BY <1>1
  <1>6. left = p * bc /\ right = q * bc /\ left <= mid /\ mid <= right
    BY <1>2, <1>3, <1>4
  <1> HIDE DEF left, mid, right, p, q
  <1>7. left <= right
    BY <1>5, <1>6
  <1>8. p * bc <= q * bc
    BY <1>6, <1>7
  <1>9. p <= q
    BY <1>1, <1>5, <1>8, ScaledOrder
  <1> QED BY <1>9 DEF AtMost, p, q, ah, ac, ch, cc

\* The two parts and the whole.
LEMMA AtMostWhole ==
    ASSUME NEW a, NEW b, Share(a), Share(b)
    PROVE  /\ Share(Plus(a, b))
           /\ AtMost(b, a) => AtMost(Plus(a, b), a) /\ AtMost(b, Plus(a, b))
           /\ AtMost(a, b) => AtMost(a, Plus(a, b)) /\ AtMost(Plus(a, b), b)
           /\ AtMost(a, b) \/ AtMost(b, a)
  <1> DEFINE ah == a.hits  ac == a.calls  bh == b.hits  bc == b.calls
  <1>1. ah \in Int /\ bh \in Int /\ ac \in Nat /\ bc \in Nat
    BY DEF Share
  <1>2. Plus(a, b).hits = ah + bh /\ Plus(a, b).calls = ac + bc
    BY DEF Plus
  <1>3. /\ AtMost(b, a) <=> bh * ac <= ah * bc
        /\ AtMost(a, b) <=> ah * bc <= bh * ac
        /\ AtMost(Plus(a, b), a) <=> (ah + bh) * ac <= ah * (ac + bc)
        /\ AtMost(b, Plus(a, b)) <=> bh * (ac + bc) <= (ah + bh) * bc
        /\ AtMost(a, Plus(a, b)) <=> ah * (ac + bc) <= (ah + bh) * ac
        /\ AtMost(Plus(a, b), b) <=> (ah + bh) * bc <= bh * (ac + bc)
    BY <1>2 DEF AtMost
  <1>4. Share(Plus(a, b))
    BY <1>1, <1>2 DEF Share
  <1> HIDE DEF ah, ac, bh, bc
  <1>5. /\ (ah + bh) * ac = ah * ac + bh * ac /\ ah * (ac + bc) = ah * ac + ah * bc
        /\ bh * (ac + bc) = bh * ac + bh * bc /\ (ah + bh) * bc = ah * bc + bh * bc
        /\ ah * ac \in Int /\ ah * bc \in Int /\ bh * ac \in Int /\ bh * bc \in Int
    BY <1>1
  <1> QED BY <1>3, <1>4, <1>5

LEMMA AtMostBoth ==
    ASSUME NEW a, NEW b, NEW c, Share(a), Share(b), Share(c)
    PROVE  /\ AtMost(a, c) /\ AtMost(b, c) => AtMost(Plus(a, b), c)
           /\ AtMost(c, a) /\ AtMost(c, b) => AtMost(c, Plus(a, b))
  <1> DEFINE ah == a.hits  ac == a.calls  bh == b.hits  bc == b.calls  ch == c.hits  cc == c.calls
  <1>1. ah \in Int /\ bh \in Int /\ ch \in Int /\ ac \in Nat /\ bc \in Nat /\ cc \in Nat
    BY DEF Share
  <1>2. Plus(a, b).hits = ah + bh /\ Plus(a, b).calls = ac + bc
    BY DEF Plus
  <1>3. /\ AtMost(a, c) <=> ah * cc <= ch * ac
        /\ AtMost(b, c) <=> bh * cc <= ch * bc
        /\ AtMost(c, a) <=> ch * ac <= ah * cc
        /\ AtMost(c, b) <=> ch * bc <= bh * cc
        /\ AtMost(Plus(a, b), c) <=> (ah + bh) * cc <= ch * (ac + bc)
        /\ AtMost(c, Plus(a, b)) <=> ch * (ac + bc) <= (ah + bh) * cc
    BY <1>2 DEF AtMost
  <1> HIDE DEF ah, ac, bh, bc, ch, cc
  <1>4. /\ (ah + bh) * cc = ah * cc + bh * cc /\ ch * (ac + bc) = ch * ac + ch * bc
        /\ ah * cc \in Int /\ bh * cc \in Int /\ ch * ac \in Int /\ ch * bc \in Int
    BY <1>1
  <1> QED BY <1>3, <1>4

-----------------------------------------------------------------------------
(* The record, counted up to each percent: hits H and calls C. *)

Percents == 0 .. 100

Tally(H, C) ==
    /\ H \in [Percents -> Int] /\ C \in [Percents -> Int]
    /\ \A p \in 1 .. 100 : C[p - 1] <= C[p] /\ (C[p - 1] = C[p] => H[p - 1] = H[p])

\* What lies above a and up to b.
Seg(H, C, a, b) == [hits |-> H[b] - H[a], calls |-> C[b] - C[a]]

LEMMA CallsGrow ==
    ASSUME NEW H, NEW C, Tally(H, C), NEW a \in Percents, NEW b \in Percents, a <= b
    PROVE  C[a] <= C[b] /\ (C[a] = C[b] => H[a] = H[b])
  <1> DEFINE Above == {p \in Percents : C[a] <= C[p] /\ (C[a] = C[p] => H[a] = H[p])}
  <1>1. a \in Above
    BY DEF Tally
  <1>2. ASSUME NEW p \in a .. 100, p < 100, p \in Above PROVE p + 1 \in Above
    <2>1. p \in Percents /\ p + 1 \in Percents /\ p + 1 \in 1 .. 100 /\ p + 1 - 1 = p
      BY <1>2 DEF Percents
    <2>2. C[p] <= C[p + 1] /\ (C[p] = C[p + 1] => H[p] = H[p + 1])
      BY <2>1 DEF Tally
    <2>3. C[p] \in Int /\ C[p + 1] \in Int /\ C[a] \in Int
      BY <2>1 DEF Tally
    <2>4. C[a] <= C[p] /\ (C[a] = C[p] => H[a] = H[p])
      BY <1>2
    <2> DEFINE x == C[a]  y == C[p]  z == C[p + 1]
    <2>5. x <= z /\ (x = z => x = y /\ y = z)
      <3>1. x \in Int /\ y \in Int /\ z \in Int /\ x <= y /\ y <= z
        BY <2>2, <2>3, <2>4
      <3> HIDE DEF x, y, z
      <3> QED BY <3>1
    <2> QED BY <2>1, <2>2, <2>4, <2>5
  <1>3. \A p \in a .. 100 : p \in Above
    <2>1. a \in Nat /\ 100 \in Nat
      BY DEF Percents
    <2> HIDE DEF Above
    <2> QED BY <1>1, <1>2, <2>1, IntervalInduction
  <1>4. b \in a .. 100
    BY DEF Percents
  <1> QED BY <1>3, <1>4

LEMMA SegFacts ==
    ASSUME NEW H, NEW C, Tally(H, C), NEW a \in Percents, NEW b \in Percents, a <= b
    PROVE  /\ Share(Seg(H, C, a, b))
           /\ \A c \in Percents : b <= c => Seg(H, C, a, c) = Plus(Seg(H, C, a, b), Seg(H, C, b, c))
  <1>1. H[a] \in Int /\ H[b] \in Int /\ C[a] \in Int /\ C[b] \in Int
    BY DEF Tally
  <1>2. C[a] <= C[b]
    BY CallsGrow
  <1>3. Share(Seg(H, C, a, b))
    BY <1>1, <1>2 DEF Share, Seg
  <1>4. ASSUME NEW c \in Percents
        PROVE  Seg(H, C, a, c) = Plus(Seg(H, C, a, b), Seg(H, C, b, c))
    <2>1. H[c] \in Int /\ C[c] \in Int
      BY DEF Tally
    <2>2. H[c] - H[a] = H[b] - H[a] + (H[c] - H[b]) /\ C[c] - C[a] = C[b] - C[a] + (C[c] - C[b])
      BY <1>1, <2>1
    <2> QED BY <2>2 DEF Seg, Plus
  <1> QED BY <1>3, <1>4

\* No end of it has more hits a call than what is before.
Unsplit(H, C, a, b) == \A m \in a .. b : AtMost(Seg(H, C, m, b), Seg(H, C, a, m))

\* Two such that are out of order make one.
LEMMA MergedUnsplit ==
    ASSUME NEW H, NEW C, Tally(H, C), NEW a \in Percents, NEW b \in Percents, NEW c \in Percents, a <= b, b <= c,
           Unsplit(H, C, a, b), Unsplit(H, C, b, c), Seg(H, C, a, b).calls > 0, Seg(H, C, b, c).calls > 0,
           AtMost(Seg(H, C, b, c), Seg(H, C, a, b))
    PROVE  Unsplit(H, C, a, c)
  <1> SUFFICES ASSUME NEW m \in a .. c PROVE AtMost(Seg(H, C, m, c), Seg(H, C, a, m))
    BY DEF Unsplit
  <1>1. m \in Percents /\ a <= m /\ m <= c
    BY DEF Percents
  <1>2. CASE m <= b
    <2> DEFINE x == Seg(H, C, a, m)  y == Seg(H, C, m, b)  z == Seg(H, C, b, c)  whole == Seg(H, C, a, b)
    <2>1. Share(x) /\ Share(y) /\ Share(z) /\ Share(whole) /\ whole = Plus(x, y) /\ Seg(H, C, m, c) = Plus(y, z)
      BY <1>1, <1>2, SegFacts
    <2>2. AtMost(y, x)
      <3>1. m \in a .. b
        BY <1>1, <1>2 DEF Percents
      <3> QED BY <3>1 DEF Unsplit
    <2>3. AtMost(z, whole) /\ whole.calls > 0
      OBVIOUS
    <2> HIDE DEF x, y, z, whole
    <2>4. AtMost(whole, x)
      BY <2>1, <2>2, AtMostWhole
    <2>5. AtMost(z, x)
      BY <2>1, <2>3, <2>4, AtMostThrough
    <2>6. AtMost(Plus(y, z), x)
      BY <2>1, <2>2, <2>5, AtMostBoth
    <2> QED BY <2>1, <2>6 DEF x
  <1>3. CASE b <= m
    <2> DEFINE x == Seg(H, C, a, b)  y == Seg(H, C, b, m)  z == Seg(H, C, m, c)  whole == Seg(H, C, b, c)
    <2>1. Share(x) /\ Share(y) /\ Share(z) /\ Share(whole) /\ whole = Plus(y, z) /\ Seg(H, C, a, m) = Plus(x, y)
      BY <1>1, <1>3, SegFacts
    <2>2. AtMost(z, y)
      <3>1. m \in b .. c
        BY <1>1, <1>3 DEF Percents
      <3> QED BY <3>1 DEF Unsplit
    <2>3. AtMost(whole, x) /\ whole.calls > 0
      OBVIOUS
    <2> HIDE DEF x, y, z, whole
    <2>4. AtMost(z, whole)
      BY <2>1, <2>2, AtMostWhole
    <2>5. AtMost(z, x)
      BY <2>1, <2>3, <2>4, AtMostThrough
    <2>6. AtMost(z, Plus(x, y))
      BY <2>1, <2>2, <2>5, AtMostBoth
    <2> QED BY <2>1, <2>6 DEF z
  <1>4. m <= b \/ b <= m
    BY <1>1 DEF Percents
  <1> QED BY <1>2, <1>3, <1>4

-----------------------------------------------------------------------------
(* Blocks, each a stretch of the record that is not to be split. *)

FitBlock == [from : 1 .. 100, hits : Int, calls : Nat]

\* Where the k-th block begins, and where the last ends.
Cut(s, k) == IF k > Len(s) THEN 100 ELSE s[k].from - 1

Covers(H, C, block, a, b) ==
    /\ a \in Percents /\ b \in Percents /\ a < b /\ C[a] < C[a + 1]
    /\ block \in FitBlock /\ block.from = a + 1 /\ block.calls > 0
    /\ block.hits = Seg(H, C, a, b).hits /\ block.calls = Seg(H, C, a, b).calls
    /\ Unsplit(H, C, a, b)

Covered(H, C, s) ==
    s \in Seq(FitBlock) /\ \A k \in 1 .. Len(s) : Covers(H, C, s[k], Cut(s, k), Cut(s, k + 1))

Merged(x, y) == [from |-> x.from, hits |-> x.hits + y.hits, calls |-> x.calls + y.calls]

LEMMA MergedCovers ==
    ASSUME NEW H, NEW C, Tally(H, C), NEW x, NEW y, NEW a, NEW b, NEW c,
           Covers(H, C, x, a, b), Covers(H, C, y, b, c), ~AtMost(x, y)
    PROVE  Covers(H, C, Merged(x, y), a, c)
  <1> DEFINE p == Seg(H, C, a, b)  q == Seg(H, C, b, c)
  <1>1. /\ a \in Percents /\ b \in Percents /\ c \in Percents /\ a < b /\ b < c
        /\ x.hits = p.hits /\ x.calls = p.calls /\ y.hits = q.hits /\ y.calls = q.calls
        /\ p.calls > 0 /\ q.calls > 0 /\ Unsplit(H, C, a, b) /\ Unsplit(H, C, b, c)
        /\ x \in FitBlock /\ y \in FitBlock /\ x.from = a + 1 /\ C[a] < C[a + 1]
    BY DEF Covers
  <1>2. a <= b /\ b <= c /\ a < c
    <2>1. a \in Int /\ b \in Int /\ c \in Int /\ a < b /\ b < c
      BY <1>1 DEF Percents
    <2> QED BY <2>1
  <1>3. Share(p) /\ Share(q) /\ Seg(H, C, a, c) = Plus(p, q)
    BY <1>1, <1>2, SegFacts
  <1>4. AtMost(q, p)
    <2>1. ~AtMost(p, q)
      BY <1>1 DEF AtMost
    <2> HIDE DEF p, q
    <2> QED BY <1>3, <2>1, AtMostWhole
  <1>5. Unsplit(H, C, a, c)
    BY <1>1, <1>2, <1>4, MergedUnsplit
  <1> HIDE DEF p, q
  <1>6. /\ Merged(x, y).hits = Seg(H, C, a, c).hits /\ Merged(x, y).calls = Seg(H, C, a, c).calls
        /\ Merged(x, y).from = a + 1
    BY <1>1, <1>3 DEF Merged, Plus
  <1>7. Merged(x, y) \in FitBlock /\ Merged(x, y).calls > 0
    <2>1. x.from \in 1 .. 100 /\ x.hits \in Int /\ y.hits \in Int /\ x.calls \in Nat /\ y.calls \in Nat
      BY <1>1 DEF FitBlock
    <2>2. x.calls > 0
      BY <1>1
    <2> QED BY <2>1, <2>2 DEF Merged, FitBlock
  <1> QED BY <1>1, <1>2, <1>5, <1>6, <1>7 DEF Covers

LEMMA PooledFacts ==
    ASSUME NEW s \in Seq(FitBlock), NEW i \in 1 .. Len(s) - 1
    PROVE  /\ Len(Pooled(s, i)) = Len(s) - 1
           /\ \A k \in 1 .. Len(s) - 1 : Pooled(s, i)[k] = IF k < i THEN s[k]
                                                       ELSE IF k = i THEN Merged(s[i], s[i + 1]) ELSE s[k + 1]
           /\ Pooled(s, i) \in Seq(FitBlock)
  <1> DEFINE N == Len(s) - 1
  <1>1. N \in Nat /\ Len(s) \in Nat
    BY LenProperties
  <1>2. ASSUME NEW k \in 1 .. N
        PROVE  (IF k < i THEN s[k] ELSE IF k = i THEN Merged(s[i], s[i + 1]) ELSE s[k + 1]) \in FitBlock
    <2>1. k \in 1 .. Len(s) /\ k + 1 \in 1 .. Len(s) /\ i \in 1 .. Len(s) /\ i + 1 \in 1 .. Len(s)
      BY <1>1
    <2>2. s[k] \in FitBlock /\ s[k + 1] \in FitBlock /\ s[i] \in FitBlock /\ s[i + 1] \in FitBlock
      BY <2>1, ElementOfSeq
    <2>3. Merged(s[i], s[i + 1]) \in FitBlock
      <3> DEFINE x == s[i]  y == s[i + 1]
      <3>1. x \in FitBlock /\ y \in FitBlock
        BY <2>2
      <3> HIDE DEF x, y
      <3>2. /\ x.from \in 1 .. 100 /\ x.hits \in Int /\ x.calls \in Nat
            /\ y.hits \in Int /\ y.calls \in Nat
        BY <3>1 DEF FitBlock
      <3>3. x.hits + y.hits \in Int /\ x.calls + y.calls \in Nat
        BY <3>2
      <3>4. Merged(x, y) \in FitBlock
        BY <3>2, <3>3 DEF Merged, FitBlock
      <3> QED BY <3>4 DEF x, y
    <2> QED BY <2>2, <2>3
  <1> DEFINE t == Pooled(s, i)
  <1>3. t = [k \in 1 .. N |-> IF k < i THEN s[k] ELSE IF k = i THEN Merged(s[i], s[i + 1]) ELSE s[k + 1]]
    BY DEF Pooled, Merged
  <1>4. t \in [1 .. N -> FitBlock]
    BY <1>2, <1>3
  <1> HIDE DEF t
  <1>5. t \in Seq(FitBlock) /\ Len(t) = N
    <2> HIDE DEF N
    <2> QED BY <1>1, <1>4, SeqDef, LenProperties
  <1>6. \A k \in 1 .. N : t[k] = IF k < i THEN s[k] ELSE IF k = i THEN Merged(s[i], s[i + 1]) ELSE s[k + 1]
    BY <1>3
  <1> QED BY <1>5, <1>6 DEF t

\* A pool of two blocks that are out of order is a block again.
LEMMA PooledCovered ==
    ASSUME NEW H, NEW C, Tally(H, C), NEW s, Covered(H, C, s), NEW i \in 1 .. Len(s) - 1, ~AtMost(s[i], s[i + 1])
    PROVE  Covered(H, C, Pooled(s, i)) /\ Pooled(s, i)[1].from = s[1].from
  <1> DEFINE t == Pooled(s, i)  N == Len(s)
  <1>1. s \in Seq(FitBlock) /\ N \in Nat /\ i \in 1 .. N - 1
    BY LenProperties DEF Covered
  <1>2. /\ Len(t) = N - 1 /\ t \in Seq(FitBlock)
        /\ \A k \in 1 .. N - 1 : t[k] = IF k < i THEN s[k] ELSE IF k = i THEN Merged(s[i], s[i + 1]) ELSE s[k + 1]
    BY <1>1, PooledFacts
  <1> HIDE DEF t
  <1>3. Merged(s[i], s[i + 1]).from = s[i].from
    BY DEF Merged
  <1>4. ASSUME NEW k \in 1 .. N PROVE Cut(t, k) = IF k <= i THEN Cut(s, k) ELSE Cut(s, k + 1)
    <2>1. CASE k <= i
      <3>1. k \in 1 .. N - 1 /\ ~(k > Len(t)) /\ ~(k > Len(s)) /\ (k < i \/ k = i)
        BY <1>1, <1>2, <2>1
      <3>2. t[k].from = s[k].from
        BY <1>2, <1>3, <3>1
      <3> QED BY <2>1, <3>1, <3>2 DEF Cut
    <2>2. CASE ~(k <= i) /\ k <= N - 1
      <3>1. k \in 1 .. N - 1 /\ ~(k > Len(t)) /\ ~(k + 1 > Len(s)) /\ ~(k < i) /\ k # i
        BY <1>1, <1>2, <2>2
      <3>2. t[k] = s[k + 1]
        BY <1>2, <3>1
      <3> QED BY <2>2, <3>1, <3>2 DEF Cut
    <2>3. CASE k = N
      <3>1. k > Len(t) /\ k + 1 > Len(s) /\ ~(k <= i)
        BY <1>1, <1>2, <2>3
      <3> QED BY <3>1 DEF Cut
    <2>4. k <= i \/ (~(k <= i) /\ k <= N - 1) \/ k = N
      BY <1>1
    <2> QED BY <2>1, <2>2, <2>3, <2>4
  <1>5. \A k \in 1 .. N : Covers(H, C, s[k], Cut(s, k), Cut(s, k + 1))
    BY DEF Covered
  <1>6. ASSUME NEW k \in 1 .. N - 1 PROVE Covers(H, C, t[k], Cut(t, k), Cut(t, k + 1))
    <2>1. k \in 1 .. N /\ k + 1 \in 1 .. N /\ i \in 1 .. N /\ i + 1 \in 1 .. N
      BY <1>1
    <2>2. CASE k < i
      <3>1. k <= i /\ k + 1 <= i
        BY <1>1, <2>2
      <3>2. t[k] = s[k] /\ Cut(t, k) = Cut(s, k) /\ Cut(t, k + 1) = Cut(s, k + 1)
        BY <1>2, <1>4, <2>1, <2>2, <3>1
      <3> QED BY <1>5, <2>1, <3>2
    <2>3. CASE k = i
      <3>1. k <= i /\ ~(k < i) /\ ~(k + 1 <= i) /\ k + 1 = i + 1
        BY <1>1, <2>3
      <3>2. t[k] = Merged(s[i], s[i + 1]) /\ Cut(t, k) = Cut(s, i) /\ Cut(t, k + 1) = Cut(s, i + 1 + 1)
        BY <1>2, <1>4, <2>1, <2>3, <3>1
      <3>3. Covers(H, C, s[i], Cut(s, i), Cut(s, i + 1)) /\ Covers(H, C, s[i + 1], Cut(s, i + 1), Cut(s, i + 1 + 1))
        BY <1>5, <2>1
      <3> QED BY <3>2, <3>3, MergedCovers
    <2>4. CASE k > i
      <3>1. ~(k < i) /\ k # i /\ ~(k <= i) /\ ~(k + 1 <= i)
        BY <1>1, <2>4
      <3>2. t[k] = s[k + 1] /\ Cut(t, k) = Cut(s, k + 1) /\ Cut(t, k + 1) = Cut(s, k + 1 + 1)
        BY <1>2, <1>4, <2>1, <3>1
      <3> QED BY <1>5, <2>1, <3>2
    <2> QED BY <1>1, <2>2, <2>3, <2>4
  <1>7. Covered(H, C, t)
    BY <1>2, <1>6 DEF Covered
  <1>8. t[1].from = s[1].from
    <2>1. 1 \in 1 .. N - 1 /\ (1 < i \/ 1 = i)
      BY <1>1
    <2> QED BY <1>2, <1>3, <2>1
  <1> QED BY <1>7, <1>8 DEF t

-----------------------------------------------------------------------------
(* The loop. *)

Loops == [blocks : Seq(FitBlock), i : Nat \ {0}]

LEMMA LookStays ==
    ASSUME NEW l \in Loops
    PROVE  Look(l) \in Loops
  <1> DEFINE s == l.blocks  i == l.i
  <1>1. s \in Seq(FitBlock) /\ i \in Nat \ {0} /\ Len(s) \in Nat
    BY LenProperties DEF Loops
  <1>2. CASE i >= Len(s)
    BY <1>2 DEF Look
  <1>3. CASE ~(i >= Len(s))
    <2>1. i \in 1 .. Len(s) - 1
      BY <1>1, <1>3
    <2> DEFINE back == IF i > 1 THEN i - 1 ELSE i
    <2>2. i + 1 \in Nat \ {0} /\ back \in Nat \ {0}
      BY <1>1
    <2>3. Pooled(s, i) \in Seq(FitBlock)
      BY <1>1, <2>1, PooledFacts
    <2>4. Look(l) = [blocks |-> s, i |-> i + 1] \/ Look(l) = [blocks |-> Pooled(s, i), i |-> back]
      BY <1>3 DEF Look
    <2> HIDE DEF s, i, back
    <2> QED BY <1>1, <2>2, <2>3, <2>4 DEF Loops
  <1> QED BY <1>2, <1>3

LEMMA PoolRuns ==
    ASSUME NEW s \in Seq(FitBlock)
    PROVE  \E f \in [0 .. 2 * Len(s) -> Loops] :
              /\ f[0] = [blocks |-> s, i |-> 1] /\ Pool(s) = f[2 * Len(s)].blocks
              /\ \A n \in 1 .. 2 * Len(s) : f[n] = Look(f[n - 1])
  <1> DEFINE N == 2 * Len(s)  base == [blocks |-> s, i |-> 1]
             step == [p \in (1 .. N) \X Loops |-> Look(p[2])]
             Loop(f) == f = [n \in 0 .. N |-> IF n = 0 THEN base ELSE Look(f[n - 1])]
             loop == CHOOSE f : Loop(f)
  <1>1. N \in Nat /\ base \in Loops /\ step \in [(1 .. N) \X Loops -> Loops]
    <2>1. N \in Nat
      BY LenProperties
    <2>2. base \in Loops
      BY DEF Loops
    <2> HIDE DEF N
    <2>3. step \in [(1 .. N) \X Loops -> Loops]
      BY LookStays
    <2> QED BY <2>1, <2>2, <2>3
  <1>2. PICK g : g \in [0 .. N -> Loops] /\ g[0] = base /\ \A n \in 1 .. N : g[n] = step[<<n, g[n - 1]>>]
    <2> HIDE DEF step, base, N
    <2>1. \E g : Runs(g, N, Loops, base, step)
      BY <1>1, LoopRuns
    <2> QED BY <2>1 DEF Runs
  <1>3. Loop(g)
    <2> HIDE DEF N, base
    <2>1. ASSUME NEW n \in 0 .. N PROVE g[n] = IF n = 0 THEN base ELSE Look(g[n - 1])
      <3>1. CASE n # 0
        <4>1. n \in 1 .. N /\ n - 1 \in 0 .. N
          BY <1>1, <3>1
        <4>2. g[n - 1] \in Loops
          BY <1>2, <4>1
        <4> DEFINE l == g[n - 1]
        <4> HIDE DEF l
        <4>3. step[<<n, l>>] = Look(l)
          BY <4>1, <4>2 DEF l
        <4> HIDE DEF step
        <4>4. g[n] = step[<<n, l>>]
          BY <1>2, <4>1 DEF l
        <4> QED BY <3>1, <4>3, <4>4 DEF l
      <3> HIDE DEF step
      <3> QED BY <1>2, <3>1
    <2> HIDE DEF step
    <2> QED BY <1>2, <2>1
  <1>4. Loop(loop)
    <2> HIDE DEF Loop
    <2> QED BY <1>3
  <1>5. Pool(s) = loop[N].blocks
    BY DEF Pool
  <1>6. \A n \in 0 .. N : loop[n] = IF n = 0 THEN base ELSE Look(loop[n - 1])
    <2> HIDE DEF loop, N, base
    <2> QED BY <1>4
  <1>7. loop = [n \in 0 .. N |-> loop[n]]
    <2> HIDE DEF loop, N, base
    <2> QED BY <1>4
  <1> HIDE DEF Loop, loop, N, base, step
  <1>8. loop[0] = base /\ \A n \in 1 .. N : loop[n] = Look(loop[n - 1])
    <2>1. 0 \in 0 .. N /\ \A n \in 1 .. N : n \in 0 .. N /\ n # 0
      BY <1>1
    <2> QED BY <1>6, <2>1
  <1> DEFINE Typed == {n \in Nat : loop[n] \in Loops}
  <1>9. \A n \in 0 .. N : n \in Typed
    <2>1. 0 \in Typed
      BY <1>1, <1>8
    <2>2. ASSUME NEW n \in 0 .. N, n < N, n \in Typed PROVE n + 1 \in Typed
      <3>1. n + 1 \in 1 .. N /\ n + 1 - 1 = n /\ n + 1 \in Nat
        BY <1>1, <2>2
      <3>2. loop[n + 1] = Look(loop[n]) /\ loop[n] \in Loops
        BY <1>8, <2>2, <3>1
      <3> QED BY <3>1, <3>2, LookStays
    <2> HIDE DEF Typed
    <2> QED BY <1>1, <2>1, <2>2, IntervalInduction
  <1>10. loop \in [0 .. N -> Loops]
    BY <1>7, <1>9
  <1> QED BY <1>5, <1>8, <1>10 DEF N, base

\* The blocks before the i-th and the i-th are in order.
InOrder(s, i) == \A k \in 1 .. i - 1 : AtMost(s[k], s[k + 1])

\* After n rounds of a loop that began with so many blocks.
Round(H, C, l, from, begun, n) ==
    /\ Covered(H, C, l.blocks) /\ Len(l.blocks) >= 1 /\ l.blocks[1].from = from
    /\ l.i \in 1 .. Len(l.blocks) /\ InOrder(l.blocks, l.i)
    /\ l.i = Len(l.blocks) \/ 2 * Len(l.blocks) - l.i <= 2 * begun - 1 - n

LEMMA RoundGoesOn ==
    ASSUME NEW H, NEW C, Tally(H, C), NEW l, NEW from, NEW begun \in Nat, NEW n \in Nat,
           Round(H, C, l, from, begun, n)
    PROVE  Round(H, C, Look(l), from, begun, n + 1)
  <1> DEFINE s == l.blocks  i == l.i  N == Len(s)
  <1>1. /\ s \in Seq(FitBlock) /\ N \in Nat /\ N >= 1 /\ i \in 1 .. N /\ Covered(H, C, s) /\ s[1].from = from
        /\ InOrder(s, i) /\ (i = N \/ 2 * N - i <= 2 * begun - 1 - n)
    BY LenProperties DEF Round, Covered
  <1>2. CASE i >= N
    <2>1. Look(l) = l
      BY <1>2 DEF Look
    <2>2. i = N
      BY <1>1, <1>2
    <2> QED BY <2>1, <2>2 DEF Round
  <1>3. CASE ~(i >= N) /\ AtMost(s[i], s[i + 1])
    <2>1. Look(l).blocks = s /\ Look(l).i = i + 1
      BY <1>3 DEF Look
    <2>2. i + 1 \in 1 .. N /\ 2 * N - (i + 1) <= 2 * begun - 1 - (n + 1)
      <3> HIDE DEF s, i, N
      <3>1. i # N /\ i \in Nat
        BY <1>1, <1>3
      <3>2. 2 * N - i <= 2 * begun - 1 - n
        BY <1>1, <3>1
      <3> QED BY <1>1, <3>1, <3>2
    <2>3. InOrder(s, i + 1)
      <3> HIDE DEF s, i, N
      <3> DEFINE j == i + 1
      <3>1. ASSUME NEW k \in 1 .. j - 1 PROVE AtMost(s[k], s[k + 1])
        <4>1. k \in 1 .. i - 1 \/ k = i
          BY <1>1
        <4> HIDE DEF j
        <4> QED BY <1>1, <1>3, <4>1 DEF InOrder
      <3> HIDE DEF j
      <3>2. InOrder(s, j)
        BY <3>1 DEF InOrder
      <3> QED BY <3>2 DEF j
    <2> HIDE DEF s, i
    <2> QED BY <1>1, <2>1, <2>2, <2>3 DEF Round
  <1>4. CASE ~(i >= N) /\ ~AtMost(s[i], s[i + 1])
    <2> DEFINE t == Pooled(s, i)  back == IF i > 1 THEN i - 1 ELSE i
    <2>1. Look(l).blocks = t /\ Look(l).i = back
      BY <1>4 DEF Look
    <2>2. i \in 1 .. N - 1
      BY <1>1, <1>4
    <2>3. Covered(H, C, t) /\ t[1].from = from
      BY <1>1, <1>4, <2>2, PooledCovered
    <2>4. Len(t) = N - 1 /\ \A k \in 1 .. N - 1 : k < i => t[k] = s[k]
      BY <1>1, <2>2, PooledFacts
    <2> HIDE DEF N, i, s
    <2>5. back \in Nat /\ (back = i - 1 \/ (back = 1 /\ i = 1)) /\ back <= N - 1 /\ back >= 1
      <3>1. i \in Nat /\ i >= 1 /\ i <= N - 1 /\ N \in Nat
        BY <1>1, <2>2
      <3>2. CASE i > 1
        <4>1. back = i - 1
          BY <3>2
        <4> HIDE DEF back
        <4> QED BY <3>1, <3>2, <4>1
      <3>3. CASE ~(i > 1)
        BY <3>1, <3>3
      <3> QED BY <3>2, <3>3
    <2> HIDE DEF back
    <2>6. back \in 1 .. N - 1 /\ N - 1 >= 1 /\ 2 * (N - 1) - back <= 2 * begun - 1 - (n + 1)
      <3>1. i # N /\ i \in Nat
        BY <1>1, <1>4
      <3>2. 2 * N - i <= 2 * begun - 1 - n
        BY <1>1, <3>1
      <3> QED BY <1>1, <2>2, <2>5, <3>1, <3>2
    <2> HIDE DEF back
    <2>7. InOrder(t, back)
      <3> SUFFICES ASSUME NEW k \in 1 .. back - 1 PROVE AtMost(t[k], t[k + 1])
        BY DEF InOrder
      <3>1. k \in 1 .. i - 1 /\ k < i /\ k + 1 < i /\ k \in 1 .. N - 1 /\ k + 1 \in 1 .. N - 1
        BY <1>1, <2>2, <2>5, <2>6
      <3> HIDE DEF t
      <3>2. t[k] = s[k] /\ t[k + 1] = s[k + 1]
        BY <2>4, <3>1
      <3> QED BY <1>1, <3>1, <3>2 DEF InOrder
    <2> HIDE DEF t, s, i
    <2> QED BY <2>1, <2>3, <2>4, <2>6, <2>7 DEF Round
  <1> QED BY <1>2, <1>3, <1>4

\* The loop ends with all its blocks in order.
LEMMA PoolFits ==
    ASSUME NEW H, NEW C, Tally(H, C), NEW s, Covered(H, C, s), Len(s) >= 1
    PROVE  LET t == Pool(s)
           IN  Covered(H, C, t) /\ Len(t) >= 1 /\ t[1].from = s[1].from /\ InOrder(t, Len(t))
  <1> DEFINE N == Len(s)  from == s[1].from
  <1>1. s \in Seq(FitBlock) /\ N \in Nat /\ N >= 1 /\ 2 * N \in Nat
    BY LenProperties DEF Covered
  <1>2. PICK f \in [0 .. 2 * N -> Loops] :
            /\ f[0] = [blocks |-> s, i |-> 1] /\ Pool(s) = f[2 * N].blocks
            /\ \A n \in 1 .. 2 * N : f[n] = Look(f[n - 1])
    BY <1>1, PoolRuns
  <1> DEFINE Going == {n \in Nat : Round(H, C, f[n], from, N, n)}
  <1>3. 0 \in Going
    <2>1. f[0].blocks = s /\ f[0].i = 1
      BY <1>2
    <2>2. InOrder(s, 1)
      BY DEF InOrder
    <2>3. 1 \in 1 .. N /\ 2 * N - 1 <= 2 * N - 1 - 0
      BY <1>1
    <2> QED BY <1>1, <2>1, <2>2, <2>3 DEF Round
  <1> HIDE DEF N, from
  <1>4. ASSUME NEW n \in 0 .. 2 * N, n < 2 * N, n \in Going PROVE n + 1 \in Going
    <2>1. n + 1 \in 1 .. 2 * N /\ n + 1 - 1 = n /\ n + 1 \in Nat /\ n \in Nat
      BY <1>1, <1>4
    <2>2. f[n + 1] = Look(f[n])
      BY <1>2, <2>1
    <2> DEFINE l == f[n]
    <2>3. Round(H, C, l, from, N, n)
      BY <1>4
    <2> HIDE DEF l
    <2>4. Round(H, C, Look(l), from, N, n + 1)
      BY <1>1, <2>1, <2>3, RoundGoesOn
    <2> QED BY <2>1, <2>2, <2>4 DEF l
  <1>5. 2 * N \in Going
    <2> HIDE DEF Going
    <2> DEFINE M == 2 * N
    <2>1. M \in Nat /\ 0 \in Nat /\ M \in 0 .. M
      BY <1>1
    <2> HIDE DEF M
    <2>2. \A n \in 0 .. M : n < M /\ n \in Going => n + 1 \in Going
      BY <1>4 DEF M
    <2>3. \A n \in 0 .. M : n \in Going
      BY <1>3, <2>1, <2>2, IntervalInduction
    <2> QED BY <2>1, <2>3 DEF M
  <1> DEFINE l == f[2 * N]
  <1>6. Round(H, C, l, from, N, 2 * N)
    BY <1>5
  <1> HIDE DEF l
  <1>7. l.i = Len(l.blocks)
    <2>1. l.i \in 1 .. Len(l.blocks) /\ (l.i = Len(l.blocks) \/ 2 * Len(l.blocks) - l.i <= 2 * N - 1 - 2 * N)
      BY <1>6 DEF Round
    <2>2. Len(l.blocks) \in Nat
      BY <1>6, LenProperties DEF Round, Covered
    <2> QED BY <1>1, <2>1, <2>2
  <1> QED BY <1>2, <1>6, <1>7 DEF Round, l, from

-----------------------------------------------------------------------------
(* Blocks in order are the fit. *)

Pools(H, C, t) == Covered(H, C, t) /\ Len(t) >= 1 /\ InOrder(t, Len(t))

LEMMA CutFacts ==
    ASSUME NEW H, NEW C, NEW t, Covered(H, C, t), NEW k \in 1 .. Len(t)
    PROVE  Covers(H, C, t[k], Cut(t, k), Cut(t, k + 1)) /\ Cut(t, k) \in Percents /\ Cut(t, k + 1) \in Percents
           /\ Cut(t, k) < Cut(t, k + 1)
  <1>1. Covers(H, C, t[k], Cut(t, k), Cut(t, k + 1))
    BY DEF Covered
  <1> QED BY <1>1 DEF Covers

\* A block's share is below that of every beginning of it, above that of every end.
LEMMA UnsplitShares ==
    ASSUME NEW H, NEW C, Tally(H, C), NEW block, NEW a, NEW b, Covers(H, C, block, a, b), NEW m \in a .. b
    PROVE  /\ AtMost(Seg(H, C, a, b), Seg(H, C, a, m)) /\ AtMost(Seg(H, C, m, b), Seg(H, C, a, b))
           /\ m \in Percents /\ Share(Seg(H, C, a, m)) /\ Share(Seg(H, C, m, b)) /\ Share(Seg(H, C, a, b))
           /\ Seg(H, C, a, b).calls > 0
  <1>1. /\ a \in Percents /\ b \in Percents /\ m \in Percents /\ a <= m /\ m <= b /\ a <= b
        /\ Seg(H, C, a, b).calls > 0 /\ AtMost(Seg(H, C, m, b), Seg(H, C, a, m))
    <2>1. a \in Percents /\ b \in Percents /\ Seg(H, C, a, b).calls > 0 /\ Unsplit(H, C, a, b)
      BY DEF Covers
    <2>2. m \in Percents /\ a <= m /\ m <= b /\ a <= b
      BY <2>1 DEF Percents
    <2> QED BY <2>1, <2>2 DEF Unsplit
  <1> DEFINE x == Seg(H, C, a, m)  y == Seg(H, C, m, b)  whole == Seg(H, C, a, b)
  <1>2. Share(x) /\ Share(y) /\ Share(whole) /\ whole = Plus(x, y)
    BY <1>1, SegFacts
  <1>3. AtMost(y, x)
    BY <1>1
  <1> HIDE DEF x, y, whole
  <1>4. AtMost(whole, x) /\ AtMost(y, whole)
    BY <1>2, <1>3, AtMostWhole
  <1> QED BY <1>1, <1>2, <1>4 DEF x, y, whole

\* Neighbouring blocks are in order, as the stretches they are.
LEMMA NeighboursInOrder ==
    ASSUME NEW H, NEW C, NEW t, Pools(H, C, t), NEW k \in 1 .. Len(t) - 1
    PROVE  AtMost(Seg(H, C, Cut(t, k), Cut(t, k + 1)), Seg(H, C, Cut(t, k + 1), Cut(t, k + 1 + 1)))
  <1>1. Len(t) \in Nat /\ Covered(H, C, t) /\ AtMost(t[k], t[k + 1])
    BY LenProperties DEF Pools, Covered, InOrder
  <1>2. k \in 1 .. Len(t) /\ k + 1 \in 1 .. Len(t)
    BY <1>1
  <1>3. Covers(H, C, t[k], Cut(t, k), Cut(t, k + 1)) /\ Covers(H, C, t[k + 1], Cut(t, k + 1), Cut(t, k + 1 + 1))
    BY <1>1, <1>2, CutFacts
  <1> QED BY <1>1, <1>3 DEF Covers, AtMost

\* A block's share is at most that of every stretch that begins with the block.
LEMMA LeastOfItsEnds ==
    ASSUME NEW H, NEW C, Tally(H, C), NEW t, Pools(H, C, t), NEW r \in 1 .. Len(t), NEW e \in Percents, Cut(t, r) <= e
    PROVE  AtMost(Seg(H, C, Cut(t, r), Cut(t, r + 1)), Seg(H, C, Cut(t, r), e))
  <1> DEFINE M == Len(t)  cut(k) == Cut(t, k)  S(a, b) == Seg(H, C, a, b)
             Below == {k \in Nat : /\ AtMost(S(cut(r), cut(r + 1)), S(cut(k - 1), cut(k)))
                                   /\ \A x \in cut(r) .. cut(k) : AtMost(S(cut(r), cut(r + 1)), S(cut(r), x))
                                   /\ cut(r) <= cut(k)}
  <1>1. M \in Nat /\ Covered(H, C, t) /\ r \in 1 .. M
    BY LenProperties DEF Pools, Covered
  <1>2. ASSUME NEW k \in 1 .. M
        PROVE  Covers(H, C, t[k], cut(k), cut(k + 1)) /\ cut(k) \in Percents /\ cut(k + 1) \in Percents /\ cut(k) < cut(k + 1)
    BY <1>1, CutFacts
  <1> HIDE DEF M
  <1>3. r + 1 \in Below
    <2> HIDE DEF cut, S
    <2>1. \A x \in cut(r) .. cut(r + 1) : AtMost(S(cut(r), cut(r + 1)), S(cut(r), x))
      BY <1>1, <1>2, UnsplitShares DEF S
    <2>2. r + 1 - 1 = r /\ r + 1 \in Nat
      BY <1>1
    <2>3. cut(r) <= cut(r + 1) /\ cut(r + 1) \in cut(r) .. cut(r + 1)
      <3> DEFINE a == cut(r)  b == cut(r + 1)
      <3>1. a \in Percents /\ b \in Percents /\ a < b
        BY <1>1, <1>2
      <3> HIDE DEF a, b
      <3>2. a <= b /\ b \in a .. b
        BY <3>1 DEF Percents
      <3> QED BY <3>2 DEF a, b
    <2> QED BY <2>1, <2>2, <2>3
  <1>4. ASSUME NEW k \in r + 1 .. M + 1, k < M + 1, k \in Below PROVE k + 1 \in Below
    <2> DEFINE a == cut(r)  b == cut(r + 1)  c == cut(k - 1)  d == cut(k)  f == cut(k + 1)
    <2>1. k \in 1 .. M /\ k - 1 \in 1 .. M - 1 /\ k - 1 + 1 = k /\ k + 1 \in Nat /\ k + 1 - 1 = k /\ k - 1 \in 1 .. M
      BY <1>1, <1>4
    <2>2. /\ a \in Percents /\ b \in Percents /\ c \in Percents /\ d \in Percents /\ f \in Percents
          /\ a < b /\ c < d /\ d < f /\ Covers(H, C, t[k], d, f) /\ Covers(H, C, t[r], a, b)
          /\ Covers(H, C, t[k - 1], c, d)
      <3> HIDE DEF cut
      <3>1. Covers(H, C, t[k - 1], cut(k - 1), cut(k)) /\ cut(k - 1) \in Percents /\ cut(k - 1) < cut(k)
        BY <1>2, <2>1
      <3> QED BY <1>1, <1>2, <2>1, <3>1
    <2>3. AtMost(S(a, b), S(c, d)) /\ (\A x \in a .. d : AtMost(S(a, b), S(a, x))) /\ a <= d
      <3> HIDE DEF cut, S
      <3> QED BY <1>4
    <2>4. AtMost(S(c, d), S(d, f))
      <3>1. AtMost(S(cut(k - 1), cut(k - 1 + 1)), S(cut(k - 1 + 1), cut(k - 1 + 1 + 1)))
        BY <2>1, NeighboursInOrder DEF M
      <3> QED BY <2>1, <3>1
    <2> HIDE DEF a, b, c, d, f, cut
    <2>5. Share(S(a, b)) /\ Share(S(c, d)) /\ Share(S(d, f)) /\ S(c, d).calls > 0 /\ S(d, f).calls > 0
      <3>1. d \in d .. f /\ c \in c .. d /\ a \in a .. b
        BY <2>2 DEF Percents
      <3> QED BY <2>2, <3>1, UnsplitShares
    <2> HIDE DEF S
    <2>6. AtMost(S(a, b), S(d, f))
      BY <2>3, <2>4, <2>5, AtMostThrough
    <2>7. ASSUME NEW x \in a .. f PROVE AtMost(S(a, b), S(a, x))
      <3>1. CASE x <= d
        <4>1. x \in a .. d
          BY <2>2, <3>1 DEF Percents
        <4> QED BY <2>3, <4>1
      <3>2. CASE d <= x
        <4>1. x \in d .. f /\ x \in Percents /\ d \in a .. d
          BY <2>2, <2>3, <3>2 DEF Percents
        <4>2. AtMost(S(d, f), S(d, x)) /\ Share(S(d, x))
          BY <2>2, <4>1, UnsplitShares DEF S
        <4>3. AtMost(S(a, b), S(d, x))
          BY <2>5, <2>6, <4>2, AtMostThrough
        <4>4. Share(S(a, d)) /\ S(a, x) = Plus(S(a, d), S(d, x)) /\ AtMost(S(a, b), S(a, d))
          BY <2>2, <2>3, <3>2, <4>1, SegFacts DEF S
        <4>5. AtMost(S(a, b), Plus(S(a, d), S(d, x)))
          BY <2>5, <4>2, <4>3, <4>4, AtMostBoth
        <4> QED BY <4>4, <4>5
      <3> QED BY <2>2, <3>1, <3>2 DEF Percents
    <2>8. a <= f
      BY <2>2, <2>3 DEF Percents
    <2> QED BY <2>1, <2>6, <2>7, <2>8 DEF a, b, d, f
  <1>5. M + 1 \in Below
    <2> DEFINE low == r + 1  high == M + 1
    <2>1. low \in Nat /\ high \in Nat /\ high \in low .. high
      BY <1>1
    <2>2. low \in Below /\ \A k \in low .. high : k < high /\ k \in Below => k + 1 \in Below
      BY <1>3, <1>4
    <2> HIDE DEF low, high, Below
    <2>3. \A k \in low .. high : k \in Below
      BY <2>1, <2>2, IntervalInduction
    <2> QED BY <2>1, <2>3 DEF high
  <1>6. cut(M + 1) = 100
    BY <1>1 DEF Cut, M
  <1>7. e \in cut(r) .. 100
    <2> HIDE DEF cut
    <2>1. cut(r) <= e
      BY DEF cut
    <2>2. cut(r) \in Percents
      BY <1>1, <1>2
    <2> QED BY <2>1, <2>2 DEF Percents
  <1> HIDE DEF cut, S
  <1>8. AtMost(S(cut(r), cut(r + 1)), S(cut(r), e))
    BY <1>5, <1>6, <1>7
  <1> QED BY <1>8 DEF cut, S

\* ... and at least that of every stretch that ends with the block.
LEMMA GreatestOfItsBeginnings ==
    ASSUME NEW H, NEW C, Tally(H, C), NEW t, Pools(H, C, t), NEW r \in 1 .. Len(t),
           NEW e \in Cut(t, 1) .. Cut(t, r + 1)
    PROVE  AtMost(Seg(H, C, e, Cut(t, r + 1)), Seg(H, C, Cut(t, r), Cut(t, r + 1)))
  <1> DEFINE M == Len(t)  cut(k) == Cut(t, k)  S(a, b) == Seg(H, C, a, b)
             Above == {n \in Nat : /\ AtMost(S(cut(r - n), cut(r - n + 1)), S(cut(r), cut(r + 1)))
                                   /\ \A x \in cut(r - n) .. cut(r + 1) : AtMost(S(x, cut(r + 1)), S(cut(r), cut(r + 1)))
                                   /\ cut(r - n) <= cut(r + 1)}
  <1>1. M \in Nat /\ Covered(H, C, t) /\ r \in 1 .. M
    BY LenProperties DEF Pools, Covered
  <1>2. ASSUME NEW k \in 1 .. M
        PROVE  Covers(H, C, t[k], cut(k), cut(k + 1)) /\ cut(k) \in Percents /\ cut(k + 1) \in Percents /\ cut(k) < cut(k + 1)
    BY <1>1, CutFacts
  <1> HIDE DEF M
  <1>3. 0 \in Above
    <2> DEFINE a == cut(r)  b == cut(r + 1)
    <2>1. Covers(H, C, t[r], a, b) /\ a \in Percents /\ b \in Percents /\ a < b
      BY <1>1, <1>2
    <2>2. r - 0 = r /\ r - 0 + 1 = r + 1
      BY <1>1
    <2> HIDE DEF a, b, cut
    <2>3. \A x \in a .. b : AtMost(S(x, b), S(a, b))
      BY <2>1, UnsplitShares
    <2>4. a <= b /\ a \in a .. b
      BY <2>1 DEF Percents
    <2> HIDE DEF S
    <2>5. AtMost(S(a, b), S(a, b))
      BY <2>3, <2>4
    <2> QED BY <2>2, <2>3, <2>4, <2>5 DEF a, b
  <1>4. ASSUME NEW n \in 0 .. r - 1, n < r - 1, n \in Above PROVE n + 1 \in Above
    <2> DEFINE k == r - n - 1  a == cut(r)  b == cut(r + 1)  c == cut(k)  d == cut(r - n)  f == cut(r - n + 1)
    <2>1. /\ k \in 1 .. M - 1 /\ k \in 1 .. M /\ k + 1 = r - n /\ k + 1 + 1 = r - n + 1 /\ r - n \in 1 .. M
          /\ n + 1 \in Nat /\ r - (n + 1) = k /\ r - (n + 1) + 1 = r - n
      BY <1>1, <1>4
    <2>2. /\ a \in Percents /\ b \in Percents /\ c \in Percents /\ d \in Percents /\ f \in Percents
          /\ a < b /\ c < d /\ d < f /\ Covers(H, C, t[k], c, d) /\ Covers(H, C, t[r], a, b)
          /\ Covers(H, C, t[r - n], d, f)
      <3> HIDE DEF cut, k
      <3>1. Covers(H, C, t[k], cut(k), cut(k + 1)) /\ cut(k) \in Percents /\ cut(k) < cut(k + 1)
        BY <1>2, <2>1
      <3> QED BY <1>1, <1>2, <2>1, <3>1
    <2>3. AtMost(S(d, f), S(a, b)) /\ (\A x \in d .. b : AtMost(S(x, b), S(a, b))) /\ d <= b
      <3> HIDE DEF cut, S
      <3> QED BY <1>4
    <2>4. AtMost(S(c, d), S(d, f))
      <3> HIDE DEF k
      <3>1. AtMost(S(cut(k), cut(k + 1)), S(cut(k + 1), cut(k + 1 + 1)))
        BY <2>1, NeighboursInOrder DEF M
      <3> QED BY <2>1, <3>1
    <2> HIDE DEF a, b, c, d, f, cut
    <2>5. Share(S(a, b)) /\ Share(S(c, d)) /\ Share(S(d, f)) /\ S(c, d).calls > 0 /\ S(d, f).calls > 0
      <3>1. d \in d .. f /\ c \in c .. d /\ a \in a .. b
        BY <2>2 DEF Percents
      <3> QED BY <2>2, <3>1, UnsplitShares
    <2> HIDE DEF S
    <2>6. AtMost(S(c, d), S(a, b))
      BY <2>3, <2>4, <2>5, AtMostThrough
    <2>7. ASSUME NEW x \in c .. b PROVE AtMost(S(x, b), S(a, b))
      <3>1. CASE d <= x
        <4>1. x \in d .. b
          BY <2>2, <3>1 DEF Percents
        <4> QED BY <2>3, <4>1
      <3>2. CASE x <= d
        <4>1. x \in c .. d /\ x \in Percents /\ d \in d .. b
          BY <2>2, <2>3, <3>2 DEF Percents
        <4>2. AtMost(S(x, d), S(c, d)) /\ Share(S(x, d))
          BY <2>2, <4>1, UnsplitShares DEF S
        <4>3. AtMost(S(x, d), S(a, b))
          BY <2>5, <2>6, <4>2, AtMostThrough
        <4>4. Share(S(d, b)) /\ S(x, b) = Plus(S(x, d), S(d, b)) /\ AtMost(S(d, b), S(a, b))
          BY <2>2, <2>3, <3>2, <4>1, SegFacts DEF S
        <4>5. AtMost(Plus(S(x, d), S(d, b)), S(a, b))
          BY <2>5, <4>2, <4>3, <4>4, AtMostBoth
        <4> QED BY <4>4, <4>5
      <3> QED BY <2>2, <3>1, <3>2 DEF Percents
    <2>8. c <= b
      BY <2>2, <2>3 DEF Percents
    <2> HIDE DEF k
    <2> QED BY <2>1, <2>6, <2>7, <2>8 DEF a, b, c, d
  <1>5. r - 1 \in Above
    <2> DEFINE high == r - 1
    <2>1. 0 \in Nat /\ high \in Nat /\ high \in 0 .. high
      BY <1>1
    <2>2. \A n \in 0 .. high : n < high /\ n \in Above => n + 1 \in Above
      BY <1>4
    <2> HIDE DEF high, Above
    <2>3. \A n \in 0 .. high : n \in Above
      BY <1>3, <2>1, <2>2, IntervalInduction
    <2> QED BY <2>1, <2>3 DEF high
  <1>6. r - (r - 1) = 1
    BY <1>1
  <1> HIDE DEF cut, S
  <1>7. \A x \in cut(1) .. cut(r + 1) : AtMost(S(x, cut(r + 1)), S(cut(r), cut(r + 1)))
    BY <1>5, <1>6
  <1>8. e \in cut(1) .. cut(r + 1)
    BY DEF cut
  <1>9. AtMost(S(e, cut(r + 1)), S(cut(r), cut(r + 1)))
    BY <1>7, <1>8
  <1> QED BY <1>9 DEF cut, S

-----------------------------------------------------------------------------
(* One block for every probability stated. *)

\* A new block, of one probability.
LEMMA NewCovers ==
    ASSUME NEW H, NEW C, Tally(H, C), NEW q \in 1 .. 100, C[q - 1] < C[q], NEW block \in FitBlock, block.from = q,
           block.hits = H[q] - H[q - 1], block.calls = C[q] - C[q - 1]
    PROVE  Covers(H, C, block, q - 1, q)
  <1>1. q - 1 \in Percents /\ q \in Percents /\ q - 1 < q /\ q - 1 + 1 = q /\ q \in Int
    BY DEF Percents
  <1>2. H[q] \in Int /\ H[q - 1] \in Int /\ C[q] \in Int /\ C[q - 1] \in Int
    BY <1>1 DEF Tally
  <1> DEFINE h == block.hits  c == block.calls
  <1>3. h \in Int /\ c \in Nat /\ c > 0
    <2>1. h \in Int /\ c \in Nat
      BY DEF FitBlock
    <2> QED BY <1>2, <2>1
  <1>4. /\ Seg(H, C, q - 1, q).hits = h /\ Seg(H, C, q - 1, q).calls = c
        /\ Seg(H, C, q, q).hits = 0 /\ Seg(H, C, q, q).calls = 0
        /\ Seg(H, C, q - 1, q - 1).hits = 0 /\ Seg(H, C, q - 1, q - 1).calls = 0
    BY <1>2 DEF Seg
  <1>5. Unsplit(H, C, q - 1, q)
    <2> SUFFICES ASSUME NEW m \in q - 1 .. q PROVE AtMost(Seg(H, C, m, q), Seg(H, C, q - 1, m))
      BY DEF Unsplit
    <2> HIDE DEF h, c
    <2>1. h * 0 = 0 /\ 0 * c = 0 /\ 0 <= 0
      BY <1>3
    <2>2. CASE m = q - 1
      BY <1>4, <2>1, <2>2 DEF AtMost
    <2>3. CASE m = q
      BY <1>4, <2>1, <2>3 DEF AtMost
    <2> QED BY <1>1, <2>2, <2>3
  <1> QED BY <1>1, <1>3, <1>4, <1>5 DEF Covers

\* What was never stated adds nothing to a block.
LEMMA WiderCovers ==
    ASSUME NEW H, NEW C, Tally(H, C), NEW block, NEW a, NEW b, Covers(H, C, block, a, b), b < 100, C[b] = C[b + 1]
    PROVE  Covers(H, C, block, a, b + 1)
  <1>1. a \in Percents /\ b \in Percents /\ a < b /\ Unsplit(H, C, a, b)
    BY DEF Covers
  <1>2. b + 1 \in Percents /\ a < b + 1 /\ b + 1 \in 1 .. 100 /\ b + 1 - 1 = b /\ a <= b + 1
    BY <1>1 DEF Percents
  <1>3. H[b + 1] = H[b] /\ C[b + 1] = C[b]
    <2> DEFINE p == b + 1
    <2>1. p \in 1 .. 100 /\ p - 1 = b
      BY <1>1, <1>2 DEF Percents
    <2>2. C[b] = C[p]
      OBVIOUS
    <2> HIDE DEF p
    <2>3. H[p] = H[b] /\ C[p] = C[b]
      BY <2>1, <2>2 DEF Tally
    <2> QED BY <2>3 DEF p
  <1>4. \A m \in Percents : Seg(H, C, m, b + 1) = Seg(H, C, m, b)
    BY <1>3 DEF Seg
  <1>5. Unsplit(H, C, a, b + 1)
    <2> SUFFICES ASSUME NEW m \in a .. b + 1 PROVE AtMost(Seg(H, C, m, b + 1), Seg(H, C, a, m))
      BY DEF Unsplit
    <2>1. m \in Percents /\ (m \in a .. b \/ m = b + 1)
      BY <1>1, <1>2 DEF Percents
    <2>2. CASE m \in a .. b
      BY <1>1, <1>4, <2>1, <2>2 DEF Unsplit
    <2>3. CASE m = b + 1
      <3> DEFINE x == Seg(H, C, a, b + 1)
      <3>1. Share(x)
        BY <1>1, <1>2, SegFacts
      <3>2. Seg(H, C, m, b + 1).hits = 0 /\ Seg(H, C, m, b + 1).calls = 0
        <4>1. H[b + 1] \in Int /\ C[b + 1] \in Int
          BY <1>2 DEF Tally
        <4> QED BY <2>3, <4>1 DEF Seg
      <3> HIDE DEF x
      <3>3. x.hits \in Int /\ x.calls \in Nat
        BY <3>1 DEF Share
      <3>4. 0 * x.calls = 0 /\ x.hits * 0 = 0 /\ 0 <= 0
        BY <3>3
      <3>5. AtMost(Seg(H, C, m, b + 1), x)
        BY <3>2, <3>4 DEF AtMost
      <3> QED BY <2>3, <3>5 DEF x
    <2> QED BY <2>1, <2>2, <2>3
  <1>6. Seg(H, C, a, b + 1) = Seg(H, C, a, b)
    BY <1>1, <1>4
  <1> QED BY <1>1, <1>2, <1>5, <1>6 DEF Covers

-----------------------------------------------------------------------------

GateTypes == cgHits \in [Stated -> Nat] /\ cgCalls \in [Stated -> Nat]

\* The record, counted up.
Counted(H, C) ==
    /\ Tally(H, C)
    /\ \A p \in 1 .. 100 : /\ p \in Used <=> C[p - 1] < C[p]
                           /\ p \in Used => cgHits[p] = H[p] - H[p - 1] /\ cgCalls[p] = C[p] - C[p - 1]
    /\ \A j \in 1 .. 100, k \in Percents : j <= k => Stretch(j, k) = Seg(H, C, j - 1, k)

LEMMA UsedFacts ==
    ASSUME GateTypes
    PROVE  /\ Used \subseteq 1 .. 100
           /\ \A p \in Used : cgHits[p] \in Nat /\ cgCalls[p] \in Nat /\ cgCalls[p] > 0
  <1>1. Stated \subseteq 1 .. 100
    BY GateAssumption
  <1> QED BY <1>1 DEF GateTypes, Used

LEMMA CountedUp ==
    ASSUME GateTypes
    PROVE  \E H, C : Counted(H, C)
  <1> DEFINE hits == Counts(cgHits)  calls == Counts(cgCalls)
  <1>1. /\ \A p \in 1 .. 100 : hits[p] = IF p \in Used THEN cgHits[p] ELSE 0
        /\ \A p \in 1 .. 100 : calls[p] = IF p \in Used THEN cgCalls[p] ELSE 0
    BY DEF Counts
  <1>2. \A p \in 1 .. 100 : hits[p] \in Nat /\ calls[p] \in Nat
    <2> HIDE DEF hits, calls
    <2>1. \A p \in Used : cgHits[p] \in Nat /\ cgCalls[p] \in Nat
      BY UsedFacts
    <2> TAKE p \in 1 .. 100
    <2>2. CASE p \in Used
      BY <1>1, <2>1, <2>2
    <2>3. CASE p \notin Used
      BY <1>1, <2>3
    <2> QED BY <2>2, <2>3
  <1>3. hits \in Seq(Int) /\ calls \in Seq(Int) /\ Len(hits) = 100 /\ Len(calls) = 100
    <2>1. hits = [p \in 1 .. 100 |-> hits[p]] /\ calls = [p \in 1 .. 100 |-> calls[p]]
      BY DEF Counts
    <2> HIDE DEF hits, calls
    <2> DEFINE N == 100
    <2>2. hits \in [1 .. N -> Int] /\ calls \in [1 .. N -> Int] /\ N \in Nat
      BY <1>2, <2>1
    <2> HIDE DEF N
    <2>3. hits \in Seq(Int) /\ calls \in Seq(Int) /\ Len(hits) = N /\ Len(calls) = N
      BY <2>2, SeqDef, LenProperties
    <2> QED BY <2>3 DEF N
  <1> HIDE DEF hits, calls
  <1>4. PICK H \in [Percents -> Int] : SumsUp(H, hits)
    BY <1>3, SumExists DEF Percents
  <1>5. PICK C \in [Percents -> Int] : SumsUp(C, calls)
    BY <1>3, SumExists DEF Percents
  <1>6. ASSUME NEW p \in 1 .. 100
        PROVE  /\ H[p] = H[p - 1] + hits[p] /\ C[p] = C[p - 1] + calls[p] /\ H[p - 1] \in Int /\ C[p - 1] \in Int
               /\ hits[p] \in Nat /\ calls[p] \in Nat /\ H[p] \in Int /\ C[p] \in Int
    <2>1. p - 1 \in Percents /\ p \in Percents
      BY DEF Percents
    <2>2. H[p] = H[p - 1] + hits[p] /\ C[p] = C[p - 1] + calls[p]
      BY <1>3, <1>4, <1>5 DEF SumsUp
    <2> QED BY <1>2, <2>1, <2>2
  <1>7. ASSUME NEW p \in 1 .. 100
        PROVE  /\ C[p - 1] <= C[p] /\ (C[p - 1] = C[p] => H[p - 1] = H[p])
               /\ p \in Used <=> C[p - 1] < C[p]
               /\ p \in Used => cgHits[p] = H[p] - H[p - 1] /\ cgCalls[p] = C[p] - C[p - 1]
    <2> DEFINE h == hits[p]  c == calls[p]  x == H[p - 1]  y == H[p]  u == C[p - 1]  v == C[p]
    <2>1. h \in Nat /\ c \in Nat /\ x \in Int /\ y \in Int /\ u \in Int /\ v \in Int /\ y = x + h /\ v = u + c
      BY <1>6
    <2>2. CASE p \in Used
      <3>1. h = cgHits[p] /\ c = cgCalls[p] /\ c > 0
        BY <1>1, <2>2, UsedFacts
      <3> HIDE DEF h, c, x, y, u, v
      <3>2. u < v /\ h = y - x /\ c = v - u
        BY <2>1, <3>1
      <3>3. u <= v /\ u # v
        BY <2>1, <3>2
      <3> QED BY <2>2, <3>1, <3>2, <3>3 DEF x, y, u, v
    <2>3. CASE p \notin Used
      <3>1. h = 0 /\ c = 0
        BY <1>1, <2>3
      <3> HIDE DEF h, c, x, y, u, v
      <3>2. u <= v /\ ~(u < v) /\ x = y
        BY <2>1, <3>1
      <3> QED BY <2>3, <3>2 DEF x, y, u, v
    <2> QED BY <2>2, <2>3
  <1>8. ASSUME NEW j \in 1 .. 100, NEW k \in Percents, j <= k PROVE Stretch(j, k) = Seg(H, C, j - 1, k)
    <2>1. j - 1 \in 0 .. 100 /\ k \in 0 .. 100 /\ j - 1 <= k /\ j - 1 + 1 = j
      BY <1>8 DEF Percents
    <2>2. SumSeq(SubSeq(hits, j - 1 + 1, k)) = H[k] - H[j - 1] /\ SumSeq(SubSeq(calls, j - 1 + 1, k)) = C[k] - C[j - 1]
      <3> DEFINE m == j - 1
      <3>1. m \in 0 .. Len(hits) /\ m \in 0 .. Len(calls) /\ k \in 0 .. Len(hits) /\ k \in 0 .. Len(calls) /\ m <= k
        BY <1>3, <2>1
      <3> HIDE DEF m
      <3>2. SumSeq(SubSeq(hits, m + 1, k)) = H[k] - H[m]
        <4>1. hits \in Seq(Int) /\ SumsUp(H, hits)
          BY <1>3, <1>4
        <4> QED BY <4>1, <3>1, SumOfStretch
      <3>3. SumSeq(SubSeq(calls, m + 1, k)) = C[k] - C[m]
        <4>1. calls \in Seq(Int) /\ SumsUp(C, calls)
          BY <1>3, <1>5
        <4> QED BY <4>1, <3>1, SumOfStretch
      <3> QED BY <3>2, <3>3 DEF m
    <2> QED BY <2>1, <2>2 DEF Stretch, Seg, hits, calls
  <1>9. Tally(H, C)
    BY <1>7 DEF Tally
  <1>10. Counted(H, C)
    BY <1>7, <1>8, <1>9 DEF Counted
  <1> QED BY <1>10

\* The blocks of what was stated up to p.
TiedUpTo(H, C, s, p) ==
    /\ s \in Seq(FitBlock)
    /\ \A k \in 1 .. Len(s) : Covers(H, C, s[k], s[k].from - 1, IF k + 1 > Len(s) THEN p ELSE s[k + 1].from - 1)
    /\ \A k \in 1 .. Len(s) : s[k].from <= p
    /\ \A q \in Used : q <= p => Len(s) >= 1 /\ s[1].from <= q

BlockOf(p) == [from |-> p, hits |-> cgHits[p], calls |-> cgCalls[p]]

LEMMA TiedGoesOn ==
    ASSUME GateTypes, NEW H, NEW C, Counted(H, C), NEW p \in 1 .. 100, NEW s, TiedUpTo(H, C, s, p - 1)
    PROVE  TiedUpTo(H, C, IF p \in Used THEN Append(s, BlockOf(p)) ELSE s, p)
  <1> DEFINE N == Len(s)  end(k) == IF k + 1 > N THEN p - 1 ELSE s[k + 1].from - 1
  <1>1. s \in Seq(FitBlock) /\ N \in Nat /\ Tally(H, C)
    BY LenProperties DEF TiedUpTo, Counted
  <1>2. \A k \in 1 .. N : Covers(H, C, s[k], s[k].from - 1, end(k)) /\ s[k] \in FitBlock /\ s[k].from <= p - 1
    BY <1>1, ElementOfSeq DEF TiedUpTo
  <1>3. \A q \in Used : q \in 1 .. 100 /\ (q <= p - 1 => N >= 1 /\ s[1].from <= q)
    BY UsedFacts DEF TiedUpTo
  <1>4. CASE p \notin Used
    <2>1. C[p - 1] = C[p]
      <3>1. C[p - 1] <= C[p] /\ ~(C[p - 1] < C[p])
        BY <1>4 DEF Counted, Tally
      <3>2. C[p - 1] \in Int /\ C[p] \in Int
        <4>1. p - 1 \in Percents /\ p \in Percents
          BY DEF Percents
        <4> QED BY <1>1, <4>1 DEF Tally
      <3> DEFINE x == C[p - 1]  y == C[p]
      <3>3. x \in Int /\ y \in Int /\ x <= y /\ ~(x < y)
        BY <3>1, <3>2
      <3> HIDE DEF x, y
      <3>4. x = y
        BY <3>3
      <3> QED BY <3>4 DEF x, y
    <2>2. ASSUME NEW k \in 1 .. N
          PROVE  Covers(H, C, s[k], s[k].from - 1, IF k + 1 > N THEN p ELSE s[k + 1].from - 1)
      <3> HIDE DEF N
      <3>1. CASE k + 1 > N
        <4> DEFINE b == p - 1  a == s[k].from - 1
        <4>1. Covers(H, C, s[k], a, b)
          BY <1>2, <3>1
        <4>2. b + 1 = p /\ b < 100 /\ C[b] = C[b + 1]
          <5>1. p - 1 + 1 = p
            OBVIOUS
          <5> QED BY <2>1, <5>1
        <4> HIDE DEF b, a
        <4>3. Covers(H, C, s[k], a, b + 1)
          BY <1>1, <4>1, <4>2, WiderCovers
        <4> QED BY <3>1, <4>2, <4>3 DEF a
      <3>2. CASE ~(k + 1 > N)
        BY <1>2, <3>2
      <3> QED BY <3>1, <3>2
    <2>3. \A q \in Used : q <= p => N >= 1 /\ s[1].from <= q
      <3> SUFFICES ASSUME NEW q \in Used, q <= p PROVE N >= 1 /\ s[1].from <= q
        OBVIOUS
      <3>1. q \in Int /\ q # p
        <4>1. q \in 1 .. 100
          BY <1>3
        <4>2. q # p
          BY <1>4
        <4> QED BY <4>1, <4>2
      <3>2. q <= p - 1
        BY <3>1
      <3> QED BY <1>3, <3>2
    <2>4. \A k \in 1 .. N : s[k].from <= p
      <3> SUFFICES ASSUME NEW k \in 1 .. N PROVE s[k].from <= p
        OBVIOUS
      <3>1. s[k] \in FitBlock /\ s[k].from <= p - 1
        BY <1>2
      <3>2. s[k].from \in Int
        BY <3>1 DEF FitBlock
      <3> QED BY <3>1, <3>2
    <2> QED BY <1>1, <1>4, <2>2, <2>3, <2>4 DEF TiedUpTo
  <1>5. CASE p \in Used
    <2> DEFINE block == BlockOf(p)  t == Append(s, block)
    <2>1. block \in FitBlock /\ block.from = p /\ block.hits = H[p] - H[p - 1] /\ block.calls = C[p] - C[p - 1] /\ C[p - 1] < C[p]
      <3>1. cgHits[p] \in Nat /\ cgCalls[p] \in Nat
        BY <1>5, UsedFacts
      <3>2. cgHits[p] = H[p] - H[p - 1] /\ cgCalls[p] = C[p] - C[p - 1] /\ C[p - 1] < C[p]
        BY <1>5 DEF Counted
      <3>3. block.from = p /\ block.hits = cgHits[p] /\ block.calls = cgCalls[p] /\ block \in FitBlock
        BY <3>1 DEF BlockOf, FitBlock
      <3> HIDE DEF block
      <3> QED BY <3>2, <3>3
    <2> HIDE DEF block
    <2>2. Covers(H, C, block, p - 1, p)
      BY <1>1, <2>1, NewCovers
    <2>3. t \in Seq(FitBlock) /\ Len(t) = N + 1 /\ t[N + 1] = block /\ \A k \in 1 .. N : t[k] = s[k]
      BY <1>1, <2>1
    <2> HIDE DEF t, N
    <2>4. ASSUME NEW k \in 1 .. N + 1
          PROVE  Covers(H, C, t[k], t[k].from - 1, IF k + 1 > N + 1 THEN p ELSE t[k + 1].from - 1)
      <3>1. CASE k = N + 1
        <4>1. k + 1 > N + 1 /\ t[k] = block
          BY <1>1, <2>3, <3>1
        <4> QED BY <2>1, <2>2, <4>1
      <3>2. CASE k = N
        <4>1. k \in 1 .. N /\ ~(k + 1 > N + 1) /\ k + 1 > N /\ k + 1 = N + 1
          BY <1>1, <3>2
        <4>2. t[k] = s[k] /\ t[k + 1] = block
          BY <2>3, <4>1
        <4>3. Covers(H, C, s[k], s[k].from - 1, p - 1)
          BY <1>2, <4>1
        <4> QED BY <2>1, <4>1, <4>2, <4>3
      <3>3. CASE k < N
        <4>1. k \in 1 .. N /\ ~(k + 1 > N + 1) /\ ~(k + 1 > N) /\ k + 1 \in 1 .. N
          BY <1>1, <3>3
        <4>2. t[k] = s[k] /\ t[k + 1] = s[k + 1]
          BY <2>3, <4>1
        <4>3. Covers(H, C, s[k], s[k].from - 1, s[k + 1].from - 1)
          BY <1>2, <4>1
        <4> QED BY <4>1, <4>2, <4>3
      <3>4. k = N + 1 \/ k = N \/ k < N
        BY <1>1
      <3> QED BY <3>1, <3>2, <3>3, <3>4
    <2>5. \A q \in Used : q <= p => N + 1 >= 1 /\ t[1].from <= q
      <3> SUFFICES ASSUME NEW q \in Used, q <= p PROVE N + 1 >= 1 /\ t[1].from <= q
        OBVIOUS
      <3>1. q \in Int
        BY <1>3
      <3>2. CASE N = 0
        <4>1. t[1] = block
          BY <2>3, <3>2
        <4>2. ~(q <= p - 1)
          BY <1>3, <3>2
        <4>3. q = p
          BY <3>1, <4>2
        <4> QED BY <2>1, <3>1, <3>2, <4>1, <4>3
      <3>3. CASE N >= 1
        <4>1. t[1] = s[1] /\ s[1] \in FitBlock /\ 1 \in 1 .. N
          BY <1>1, <1>2, <2>3, <3>3
        <4>2. s[1].from \in Int
          BY <4>1 DEF FitBlock
        <4>3. CASE q <= p - 1
          BY <1>1, <1>3, <3>3, <4>1, <4>3
        <4>4. CASE q = p
          <5>1. s[1].from <= p - 1
            BY <1>2, <4>1
          <5> QED BY <1>1, <4>1, <4>2, <4>4, <5>1
        <4>5. q <= p - 1 \/ q = p
          BY <3>1
        <4> QED BY <4>3, <4>4, <4>5
      <3> QED BY <1>1, <3>2, <3>3
    <2>6. ASSUME NEW k \in 1 .. N + 1 PROVE t[k].from <= p
      <3>1. CASE k = N + 1
        <4>1. t[k] = block
          BY <2>3, <3>1
        <4>2. block.from = p
          BY <2>1
        <4> QED BY <4>1, <4>2
      <3>2. CASE k \in 1 .. N
        <4>1. t[k] = s[k] /\ s[k] \in FitBlock /\ s[k].from <= p - 1
          BY <1>2, <2>3, <3>2
        <4>2. s[k].from \in Int
          BY <4>1 DEF FitBlock
        <4> QED BY <4>1, <4>2
      <3> QED BY <1>1, <3>1, <3>2
    <2>7. TiedUpTo(H, C, t, p)
      BY <2>3, <2>4, <2>5, <2>6 DEF TiedUpTo
    <2> QED BY <1>5, <2>7 DEF t, block
  <1> QED BY <1>4, <1>5

LEMMA TiedRuns ==
    ASSUME GateTypes
    PROVE  \E f \in [0 .. 100 -> Seq(FitBlock)] :
              /\ f[0] = << >> /\ Tied = f[100]
              /\ \A p \in 1 .. 100 : f[p] = IF p \in Used THEN Append(f[p - 1], BlockOf(p)) ELSE f[p - 1]
  <1> DEFINE N == 100  T == Seq(FitBlock)  base == << >>
             step == [r \in (1 .. N) \X T |-> IF r[1] \in Used THEN Append(r[2], BlockOf(r[1])) ELSE r[2]]
             Loop(f) == f = [p \in 0 .. N |-> IF p = 0 THEN << >>
                                              ELSE IF p \in Used THEN Append(f[p - 1], BlockOf(p)) ELSE f[p - 1]]
             tied == CHOOSE f : Loop(f)
  <1>1. ASSUME NEW p \in Used PROVE BlockOf(p) \in FitBlock
    BY UsedFacts DEF BlockOf, FitBlock
  <1>2. N \in Nat /\ base \in T /\ step \in [(1 .. N) \X T -> T]
    <2>1. base \in T
      BY EmptySeq
    <2>2. ASSUME NEW s \in T, NEW b \in FitBlock PROVE Append(s, b) \in T
      OBVIOUS
    <2> HIDE DEF N, T
    <2>3. step \in [(1 .. N) \X T -> T]
      BY <1>1, <2>2
    <2>4. N \in Nat
      BY DEF N
    <2> QED BY <2>1, <2>3, <2>4
  <1>3. PICK g : g \in [0 .. N -> T] /\ g[0] = base /\ \A p \in 1 .. N : g[p] = step[<<p, g[p - 1]>>]
    <2> HIDE DEF step, base, N, T
    <2>1. \E g : Runs(g, N, T, base, step)
      BY <1>2, LoopRuns
    <2> QED BY <2>1 DEF Runs
  <1>4. ASSUME NEW p \in 1 .. N PROVE g[p] = IF p \in Used THEN Append(g[p - 1], BlockOf(p)) ELSE g[p - 1]
    <2>1. p - 1 \in 0 .. N
      OBVIOUS
    <2> HIDE DEF N, T
    <2>2. g[p - 1] \in T
      BY <1>3, <2>1
    <2> DEFINE last == g[p - 1]
    <2> HIDE DEF last
    <2>3. step[<<p, last>>] = IF p \in Used THEN Append(last, BlockOf(p)) ELSE last
      BY <2>2 DEF last
    <2> HIDE DEF step
    <2>4. g[p] = step[<<p, last>>]
      BY <1>3 DEF last
    <2> QED BY <2>3, <2>4 DEF last
  <1>5. Loop(g)
    <2> HIDE DEF step, T
    <2>1. ASSUME NEW p \in 0 .. N
          PROVE  g[p] = IF p = 0 THEN << >> ELSE IF p \in Used THEN Append(g[p - 1], BlockOf(p)) ELSE g[p - 1]
      <3>1. CASE p = 0
        BY <1>3, <3>1
      <3>2. CASE p # 0
        <4>1. p \in 1 .. N
          BY <3>2
        <4> HIDE DEF N
        <4> QED BY <1>4, <3>2, <4>1
      <3> QED BY <3>1, <3>2
    <2> HIDE DEF N
    <2> QED BY <1>3, <2>1
  <1>6. Loop(tied)
    <2> HIDE DEF Loop
    <2> QED BY <1>5
  <1>7. Tied = tied[N]
    BY DEF Tied, BlockOf
  <1>8. \A p \in 0 .. N : tied[p] = IF p = 0 THEN << >>
                                    ELSE IF p \in Used THEN Append(tied[p - 1], BlockOf(p)) ELSE tied[p - 1]
    <2> HIDE DEF tied, N
    <2> QED BY <1>6
  <1>9. tied = [p \in 0 .. N |-> tied[p]]
    <2> HIDE DEF tied, N
    <2> QED BY <1>6
  <1> HIDE DEF Loop, tied, step, base
  <1>10. tied[0] = << >>
    <2>1. 0 \in 0 .. N
      OBVIOUS
    <2> HIDE DEF N, T
    <2> QED BY <1>8, <2>1
  <1>11. \A p \in 1 .. N : tied[p] = IF p \in Used THEN Append(tied[p - 1], BlockOf(p)) ELSE tied[p - 1]
    <2>1. \A p \in 1 .. N : p \in 0 .. N /\ p # 0
      OBVIOUS
    <2> HIDE DEF N, T
    <2> QED BY <1>8, <2>1
  <1> DEFINE Typed == {p \in Nat : tied[p] \in T}
  <1>12. \A p \in 0 .. N : p \in Typed
    <2>1. 0 \in Typed
      BY <1>10, EmptySeq
    <2>2. ASSUME NEW p \in 0 .. N, p < N, p \in Typed PROVE p + 1 \in Typed
      <3>1. p + 1 \in 1 .. N /\ p + 1 - 1 = p /\ p + 1 \in Nat
        BY <2>2
      <3> DEFINE last == tied[p]  q == p + 1
      <3>2. last \in T
        BY <2>2
      <3> HIDE DEF N, T, last
      <3>3. tied[q] = IF q \in Used THEN Append(last, BlockOf(q)) ELSE last
        BY <1>11, <3>1 DEF last
      <3> HIDE DEF q
      <3>4. q \in Used => Append(last, BlockOf(q)) \in T
        <4> SUFFICES ASSUME q \in Used PROVE Append(last, BlockOf(q)) \in T
          OBVIOUS
        <4>1. BlockOf(q) \in FitBlock
          BY <1>1
        <4> QED BY <3>2, <4>1 DEF T
      <3>5. tied[q] \in T
        BY <3>2, <3>3, <3>4
      <3> QED BY <3>1, <3>5 DEF q
    <2> HIDE DEF N, T, Typed
    <2> QED BY <1>2, <2>1, <2>2, IntervalInduction
  <1>13. tied \in [0 .. N -> T]
    <2> HIDE DEF N, T
    <2> QED BY <1>9, <1>12
  <1> QED BY <1>7, <1>10, <1>11, <1>13

LEMMA TiedCovered ==
    ASSUME GateTypes, NEW H, NEW C, Counted(H, C), NEW p \in Used
    PROVE  Covered(H, C, Tied) /\ Len(Tied) >= 1 /\ \A q \in Used : Tied[1].from <= q
  <1>1. PICK f \in [0 .. 100 -> Seq(FitBlock)] :
              /\ f[0] = << >> /\ Tied = f[100]
              /\ \A q \in 1 .. 100 : f[q] = IF q \in Used THEN Append(f[q - 1], BlockOf(q)) ELSE f[q - 1]
    BY TiedRuns
  <1> DEFINE Done == {q \in Nat : TiedUpTo(H, C, f[q], q)}
  <1>2. 0 \in Done
    <2>1. << >> \in Seq(FitBlock) /\ Len(<< >>) = 0
      BY EmptySeq
    <2>2. ASSUME NEW q \in Used PROVE ~(q <= 0)
      <3>1. q \in 1 .. 100
        BY UsedFacts
      <3> QED BY <3>1
    <2>3. TiedUpTo(H, C, << >>, 0)
      BY <2>1, <2>2 DEF TiedUpTo
    <2> QED BY <1>1, <2>3
  <1>3. ASSUME NEW q \in 0 .. 100, q < 100, q \in Done PROVE q + 1 \in Done
    <2> DEFINE n == q + 1  s == f[q]
    <2>1. n \in 1 .. 100 /\ n - 1 = q /\ n \in Nat
      BY <1>3
    <2>2. TiedUpTo(H, C, s, q)
      BY <1>3
    <2> HIDE DEF n, s
    <2>3. f[n] = IF n \in Used THEN Append(s, BlockOf(n)) ELSE s
      BY <1>1, <2>1 DEF s
    <2>4. TiedUpTo(H, C, IF n \in Used THEN Append(s, BlockOf(n)) ELSE s, n)
      BY <2>1, <2>2, TiedGoesOn
    <2> QED BY <2>1, <2>3, <2>4 DEF n
  <1>4. 100 \in Done
    <2> DEFINE N == 100
    <2>1. N \in Nat /\ 0 \in Nat /\ N \in 0 .. N
      OBVIOUS
    <2>2. \A q \in 0 .. N : q < N /\ q \in Done => q + 1 \in Done
      BY <1>3
    <2> HIDE DEF N, Done
    <2>3. \A q \in 0 .. N : q \in Done
      BY <1>2, <2>1, <2>2, IntervalInduction
    <2> QED BY <2>1, <2>3 DEF N
  <1> DEFINE t == Tied
  <1>5. TiedUpTo(H, C, t, 100)
    BY <1>1, <1>4
  <1> HIDE DEF t
  <1>6. t \in Seq(FitBlock) /\ Len(t) \in Nat
    BY <1>5, LenProperties DEF TiedUpTo
  <1>7. ASSUME NEW q \in Used PROVE q <= 100
    <2>1. q \in 1 .. 100
      BY UsedFacts
    <2> QED BY <2>1
  <1>8. Covered(H, C, t)
    <2> SUFFICES ASSUME NEW k \in 1 .. Len(t) PROVE Covers(H, C, t[k], Cut(t, k), Cut(t, k + 1))
      BY <1>6 DEF Covered
    <2>1. ~(k > Len(t))
      BY <1>6
    <2> QED BY <1>5, <2>1 DEF TiedUpTo, Cut
  <1> QED BY <1>5, <1>7, <1>8 DEF TiedUpTo, t

-----------------------------------------------------------------------------

LEMMA LastUsed ==
    ASSUME GateTypes, NEW H, NEW C, Counted(H, C), NEW b \in Percents, NEW p \in Used, p <= b
    PROVE  \E k \in Used : p <= k /\ k <= b /\ C[k] = C[b] /\ H[k] = H[b]
  <1> DEFINE Upto == {q \in Used : q <= b}
  <1>1. Upto \in SUBSET Int /\ p \in Upto /\ b \in Int
    BY UsedFacts DEF Percents
  <1> DEFINE k == Max(Upto)
  <1>2. k \in Upto /\ \A q \in Upto : q <= k
    <2> HIDE DEF Upto
    <2>1. Upto # {} /\ \A q \in Upto : q <= b
      BY <1>1 DEF Upto
    <2> QED BY <1>1, <2>1, MaxIsIn
  <1> HIDE DEF k
  <1>3. k \in Used /\ k <= b /\ p <= k /\ k \in 1 .. 100 /\ b \in 0 .. 100
    BY <1>1, <1>2, UsedFacts DEF Percents
  <1> DEFINE Same == {q \in Nat : C[q] = C[k]}
  <1>4. ASSUME NEW q \in k .. b, q < b, q \in Same PROVE q + 1 \in Same
    <2> DEFINE n == q + 1
    <2>1. n \in 1 .. 100 /\ n - 1 = q /\ n \in Nat /\ n > k /\ n <= b /\ n \in Percents /\ q \in Percents
      BY <1>3, <1>4 DEF Percents
    <2> HIDE DEF n
    <2>2. n \notin Used
      <3> SUFFICES ASSUME n \in Used PROVE FALSE
        OBVIOUS
      <3>1. n \in Upto
        BY <2>1
      <3>2. n <= k
        BY <1>2, <3>1
      <3> QED BY <1>3, <2>1, <3>2
    <2>3. C[n - 1] <= C[n] /\ ~(C[n - 1] < C[n])
      BY <2>1, <2>2 DEF Counted, Tally
    <2>4. C[q] \in Int /\ C[n] \in Int
      BY <2>1 DEF Counted, Tally
    <2> DEFINE x == C[q]  y == C[n]
    <2>5. x \in Int /\ y \in Int /\ x <= y /\ ~(x < y)
      BY <2>1, <2>3, <2>4
    <2> HIDE DEF x, y
    <2>6. x = y
      BY <2>5
    <2>7. C[q] = C[k]
      BY <1>4
    <2> QED BY <2>1, <2>6, <2>7 DEF x, y, n
  <1>5. b \in Same
    <2>1. k \in Nat /\ b \in Nat /\ k \in Same /\ b \in k .. b
      BY <1>3
    <2> HIDE DEF Same
    <2>2. \A q \in k .. b : q \in Same
      BY <1>4, <2>1, IntervalInduction
    <2> QED BY <2>1, <2>2
  <1>6. H[k] = H[b]
    <2>0. k \in Percents /\ C[k] = C[b]
      BY <1>3, <1>5 DEF Percents
    <2>1. k \in Percents /\ Tally(H, C) /\ C[k] = C[b]
      BY <2>0 DEF Counted
    <2> QED BY <1>3, <2>1, CallsGrow
  <1> QED BY <1>3, <1>5, <1>6

\* The pools are the fit, of any record.
LEMMA RecordFits ==
    ASSUME GateTypes, NEW p \in Used
    PROVE  LET blocks == Isotonic
               pool == blocks[Max({i \in DOMAIN blocks : blocks[i].from <= p})]
           IN  /\ \E j \in Used : j <= p /\ \A k \in Used : k >= p => AtMost(pool, Stretch(j, k))
               /\ \A j \in Used : j <= p => \E k \in Used : k >= p /\ AtMost(Stretch(j, k), pool)
  <1>1. PICK H, C : Counted(H, C)
    BY CountedUp
  <1> DEFINE t == Isotonic  M == Len(t)  Starts == {i \in DOMAIN t : t[i].from <= p}  r == Max(Starts)  pool == t[r]
  <1>2. Tally(H, C)
    BY <1>1 DEF Counted
  <1>3. Covered(H, C, t) /\ M >= 1 /\ InOrder(t, M) /\ \A q \in Used : t[1].from <= q
    <2>1. Covered(H, C, Tied) /\ Len(Tied) >= 1 /\ \A q \in Used : Tied[1].from <= q
      BY <1>1, TiedCovered
    <2> DEFINE u == Tied
    <2> HIDE DEF u
    <2>2. Covered(H, C, Pool(u)) /\ Len(Pool(u)) >= 1 /\ Pool(u)[1].from = u[1].from /\ InOrder(Pool(u), Len(Pool(u)))
      BY <1>2, <2>1, PoolFits DEF u
    <2> QED BY <2>1, <2>2 DEF Isotonic, u
  <1> HIDE DEF t
  <1>4. t \in Seq(FitBlock) /\ M \in Nat /\ DOMAIN t = 1 .. M /\ Pools(H, C, t)
    <2>1. t \in Seq(FitBlock)
      BY <1>3 DEF Covered
    <2> QED BY <1>3, <2>1, LenProperties DEF Pools
  <1>5. p \in 1 .. 100 /\ p \in Int
    BY UsedFacts
  <1>6. r \in 1 .. M /\ t[r].from <= p /\ \A i \in 1 .. M : t[i].from <= p => i <= r
    <2>1. Starts \in SUBSET Int /\ 1 \in Starts /\ \A i \in Starts : i <= M
      BY <1>3, <1>4
    <2> HIDE DEF Starts
    <2>2. Starts # {} /\ M \in Int
      BY <1>4, <2>1
    <2> HIDE DEF M
    <2>3. r \in Starts /\ \A i \in Starts : i <= r
      BY <2>1, <2>2, MaxIsIn
    <2> HIDE DEF r
    <2> QED BY <1>4, <2>3 DEF Starts
  <1> HIDE DEF r, Starts
  <1> DEFINE a == Cut(t, r)  b == Cut(t, r + 1)  first == Cut(t, 1)
  <1>7. Covers(H, C, t[r], a, b) /\ a \in Percents /\ b \in Percents /\ a < b
    BY <1>3, <1>6, CutFacts
  <1>8. a = t[r].from - 1 /\ t[r].from \in 1 .. 100
    <2>1. ~(r > M)
      BY <1>4, <1>6
    <2>2. t[r] \in FitBlock
      BY <1>7 DEF Covers
    <2> QED BY <2>1, <2>2 DEF Cut, FitBlock
  <1>9. a < p /\ p <= b
    <2>1. a < p
      <3> DEFINE f == t[r].from
      <3>1. a = f - 1 /\ f \in Int /\ f <= p
        <4>1. f <= p
          BY <1>6
        <4>2. a = f - 1 /\ f \in 1 .. 100
          BY <1>8
        <4> HIDE DEF a, f
        <4> QED BY <4>1, <4>2
      <3> HIDE DEF a, f
      <3> QED BY <1>5, <3>1
    <2>2. CASE r = M
      <3>1. b = 100
        BY <1>4, <2>2 DEF Cut
      <3> HIDE DEF b
      <3> QED BY <1>5, <2>1, <3>1
    <2>3. CASE r # M
      <3>1. r + 1 \in 1 .. M /\ ~(r + 1 > M) /\ ~(r + 1 <= r)
        <4>1. M \in Nat /\ r \in 1 .. M /\ r # M
          BY <1>4, <1>6, <2>3
        <4> HIDE DEF M
        <4> QED BY <4>1
      <3> DEFINE next == t[r + 1]
      <3>2. ~(next.from <= p) /\ next \in FitBlock
        BY <1>4, <1>6, <3>1, ElementOfSeq
      <3>3. b = next.from - 1
        BY <3>1 DEF Cut
      <3> HIDE DEF next, b
      <3>4. next.from \in Int
        BY <3>2 DEF FitBlock
      <3> QED BY <1>5, <2>1, <3>2, <3>3, <3>4
    <2> QED BY <2>2, <2>3
  <1>10. pool.hits = Seg(H, C, a, b).hits /\ pool.calls = Seg(H, C, a, b).calls
    BY <1>7 DEF Covers
  <1> HIDE DEF pool, a, b, M
  <1>11. \E j \in Used : j <= p /\ \A k \in Used : k >= p => AtMost(pool, Stretch(j, k))
    <2> DEFINE j == a + 1
    <2>1. j \in 1 .. 100 /\ j - 1 = a /\ j = t[r].from
      BY <1>7, <1>8 DEF Percents
    <2>2. j \in Used
      <3>1. C[a] < C[j]
        BY <1>7 DEF Covers
      <3> HIDE DEF j
      <3>2. C[j - 1] < C[j]
        BY <2>1, <3>1
      <3> QED BY <1>1, <2>1, <3>2 DEF Counted
    <2> HIDE DEF j
    <2>3. ASSUME NEW k \in Used, k >= p PROVE AtMost(pool, Stretch(j, k))
      <3>1. k \in Percents /\ k \in Int /\ j <= k /\ a <= k
        <4>1. k \in 1 .. 100
          BY UsedFacts
        <4> QED BY <1>5, <1>6, <1>7, <1>9, <2>1, <2>3, <4>1 DEF Percents
      <3>2. Stretch(j, k) = Seg(H, C, a, k)
        BY <1>1, <2>1, <3>1 DEF Counted
      <3>3. AtMost(Seg(H, C, a, b), Seg(H, C, a, k))
        <4>1. r \in 1 .. Len(t)
          BY <1>6 DEF M
        <4> QED BY <1>2, <1>4, <3>1, <4>1, LeastOfItsEnds DEF a, b
      <3> QED BY <1>10, <3>2, <3>3 DEF AtMost
    <2>4. j <= p
      BY <1>6, <2>1
    <2> QED BY <2>2, <2>3, <2>4
  <1>12. ASSUME NEW j \in Used, j <= p PROVE \E k \in Used : k >= p /\ AtMost(Stretch(j, k), pool)
    <2>1. PICK k \in Used : p <= k /\ k <= b /\ C[k] = C[b] /\ H[k] = H[b]
      BY <1>1, <1>7, <1>9, LastUsed
    <2>2. j \in 1 .. 100 /\ k \in 1 .. 100
      BY UsedFacts
    <2>3. j \in 1 .. 100 /\ k \in Percents /\ k \in Int /\ j <= k /\ j - 1 \in Percents
      BY <1>5, <1>12, <2>1, <2>2 DEF Percents
    <2>4. Stretch(j, k) = Seg(H, C, j - 1, b)
      <3>1. Stretch(j, k) = Seg(H, C, j - 1, k)
        BY <1>1, <2>3 DEF Counted
      <3> QED BY <2>1, <3>1 DEF Seg
    <2>5. j - 1 \in Cut(t, 1) .. b
      <3>1. t[1].from <= j /\ t[1] \in FitBlock /\ ~(1 > Len(t))
        BY <1>3, <1>4, ElementOfSeq DEF M
      <3>2. Cut(t, 1) = t[1].from - 1 /\ t[1].from \in Int
        <4>1. t[1].from \in Int
          <5>1. t[1] \in FitBlock
            BY <3>1
          <5> QED BY <5>1 DEF FitBlock
        <4> QED BY <3>1, <4>1 DEF Cut
      <3> DEFINE c == Cut(t, 1)  f == t[1].from
      <3>3. c = f - 1 /\ f \in Int /\ f <= j
        BY <3>1, <3>2
      <3> HIDE DEF c, f
      <3>4. b \in Int /\ k <= b
        BY <1>7, <2>1 DEF Percents
      <3>5. j - 1 \in c .. b
        BY <2>3, <3>3, <3>4
      <3> QED BY <3>5 DEF c
    <2>6. AtMost(Seg(H, C, j - 1, b), Seg(H, C, a, b))
      <3>1. r \in 1 .. Len(t)
        BY <1>6 DEF M
      <3> DEFINE e == j - 1
      <3>2. e \in Cut(t, 1) .. Cut(t, r + 1)
        BY <2>5 DEF b
      <3> HIDE DEF e
      <3>3. AtMost(Seg(H, C, e, Cut(t, r + 1)), Seg(H, C, Cut(t, r), Cut(t, r + 1)))
        BY <1>2, <1>4, <3>1, <3>2, GreatestOfItsBeginnings
      <3> QED BY <3>3 DEF a, b, e
    <2>7. AtMost(Stretch(j, k), pool)
      BY <1>10, <2>4, <2>6 DEF AtMost
    <2>8. k >= p
      BY <1>5, <2>1, <2>3
    <2> QED BY <2>7, <2>8
  <1> QED BY <1>11, <1>12 DEF pool, r, Starts, t

\* Pooling the neighbours that are out of order, with a step back after each, comes to
\* the monotone fit, for every record of every length: the pool around a probability is
\* the max-min of the means of the stretches around it.  Code: the loop of
\* IsotonicRecalibrator.fit.
THEOREM PoolingIsTheFit == GateSpec => []PoolsAreTheFit
  <1>1. GateInit => GateTypes
    BY DEF GateInit, GateTypes
  <1>2. GateTypes /\ [GateNext]_cgVars => GateTypes'
    <2> SUFFICES ASSUME GateTypes, [GateNext]_cgVars PROVE GateTypes'
      OBVIOUS
    <2>1. ASSUME NEW p \in Stated, NEW right \in BOOLEAN, CallEnds(p, right) PROVE GateTypes'
      <3>1. cgCalls[p] + 1 \in Nat /\ cgHits[p] + (IF right THEN 1 ELSE 0) \in Nat
        BY DEF GateTypes
      <3> QED BY <2>1, <3>1 DEF GateTypes, CallEnds
    <2>2. CASE UNCHANGED cgVars
      BY <2>2 DEF GateTypes, cgVars
    <2> QED BY <2>1, <2>2 DEF GateNext
  <1>3. GateTypes => PoolsAreTheFit
    <2> SUFFICES ASSUME GateTypes PROVE PoolsAreTheFit
      OBVIOUS
    <2> DEFINE blocks == Isotonic
    <2>1. \A p \in Used :
        LET pool == blocks[Max({i \in DOMAIN blocks : blocks[i].from <= p})]
        IN  /\ \E j \in Used : j <= p /\ \A k \in Used : k >= p => AtMost(pool, Stretch(j, k))
            /\ \A j \in Used : j <= p => \E k \in Used : k >= p /\ AtMost(Stretch(j, k), pool)
      BY RecordFits
    <2> HIDE DEF blocks
    <2> QED BY <2>1 DEF PoolsAreTheFit, blocks
  <1> QED BY <1>1, <1>2, <1>3, PTL DEF GateSpec
=============================================================================
