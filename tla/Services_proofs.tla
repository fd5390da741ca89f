-------------------------- MODULE Services_proofs --------------------------
(***************************************************************************)
(* Proofs about the services around the trading core: the session's locks  *)
(* on live trading, the token bucket's burst, the event bus's mailboxes,   *)
(* the model store's checkpoints, the windows of the weighted limiter and  *)
(* what is read back of a recording.                                       *)
(***************************************************************************)
EXTENDS Session, TokenBucket, EventBus, ModelStore, WeightedLimiter, Recorder,
        FiniteSetTheorems, SequenceTheorems, Inductions

-----------------------------------------------------------------------------
(* Session: which command an adapter of real orders can have come from. *)

SessionSpec == SeInit /\ [][SeNext]_seVars

\* A command runs exactly while its process is somewhere.
Running ==
  /\ seCommand \in {"", "demo", "paper", "live", "backtest", "record"}
  /\ seCommand = "" <=> sePhase = "idle"

\* cmd_live has looked at the locks, and cmd_paper sets the mode the adapters are built by.
Commanded ==
  /\ seCommand = "live" => seLocks.env /\ seLocks.ack
  /\ seCommand = "paper" => seConfigMode = "paper"

\* Real adapters are the work of live, or of record, which starts no engine.
BuiltReal ==
  sePhase # "idle" /\ "real" \in Range(seAdapters) => seCommand \in {"live", "record"}

\* The engine runs in every command but record.
EngineRuns == sePhase \in {"trading", "stopping"} => seCommand # "record"

SeInv == Running /\ Commanded /\ BuiltReal /\ EngineRuns

LEMMA SeInvInit == SeInit => SeInv
  BY DEF SeInit, SeInv, Running, Commanded, BuiltReal, EngineRuns

LEMMA RunCommandKeeps ==
  ASSUME SeInv, NEW c \in {"demo", "paper", "live", "backtest", "record"}, RunCommand(c)
  PROVE  SeInv'
  <1>1. Running'
    BY DEF RunCommand, Running
  <1>2. Commanded'
    BY DEF RunCommand, Commanded, Armed
  <1>3. Range(seAdapters') = {}
    BY DEF RunCommand, Reset, Range
  <1>4. BuiltReal' /\ EngineRuns'
    BY <1>3 DEF RunCommand, BuiltReal, EngineRuns
  <1> QED BY <1>1, <1>2, <1>4 DEF SeInv

\* Only a live mode gives real adapters: demo and backtest do not ask for it, and paper
\* has overridden it.
LEMMA BuildAdaptersKeeps == SeInv /\ BuildAdapters => SeInv'
  <1> SUFFICES ASSUME SeInv, BuildAdapters PROVE SeInv'
    OBVIOUS
  <1>1. Running' /\ Commanded' /\ EngineRuns'
    BY DEF BuildAdapters, SeInv, Running, Commanded, EngineRuns
  <1>2. BuiltReal'
    <2>1. CASE UNCHANGED seAdapters
      BY <2>1 DEF BuildAdapters, SeInv, BuiltReal
    <2>2. CASE StackMode = "backtest" /\ seAdapters' = [v \in {Head(Venues)} |-> "simulated"]
      <3>1. "real" \notin Range(seAdapters')
        BY <2>2 DEF Range
      <3> QED BY <3>1 DEF BuiltReal
    <2>3. CASE /\ StackMode # "backtest"
               /\ seAdapters' = [v \in Range(Venues) |-> AdapterFor(seConfigMode, v)]
      <3>1. CASE seConfigMode = "paper"
        <4>1. "real" \notin Range(seAdapters')
          BY <2>3, <3>1 DEF Range, AdapterFor
        <4> QED BY <4>1 DEF BuiltReal
      <3>2. CASE seConfigMode # "paper"
        <4>1. seCommand \notin {"demo", "backtest", "paper"}
          BY <2>3, <3>2 DEF StackMode, SeInv, Commanded
        <4>2. seCommand' \in {"live", "record"}
          BY <4>1 DEF BuildAdapters, SeInv, Running
        <4> QED BY <4>2 DEF BuiltReal
      <3> QED BY <3>1, <3>2
    <2> QED BY <2>1, <2>2, <2>3 DEF BuildAdapters
  <1> QED BY <1>1, <1>2 DEF SeInv

\* Past the building the process only moves on, and only record goes its own way.
LEMMA PhaseMovesOn ==
  ASSUME SeInv, seCommand' = seCommand, seConfigMode' = seConfigMode,
         seAdapters' = seAdapters, seLocks' = seLocks,
         sePhase' = "idle" <=> sePhase = "idle",
         sePhase' \in {"trading", "stopping"} =>
           sePhase \in {"trading", "stopping"} \/ seCommand # "record"
  PROVE  SeInv'
  BY DEF SeInv, Running, Commanded, BuiltReal, EngineRuns

LEMMA SeStepKeeps == SeInv /\ [SeNext]_seVars => SeInv'
  <1> SUFFICES ASSUME SeInv, [SeNext]_seVars PROVE SeInv'
    OBVIOUS
  <1>2. ASSUME seCommand' = "", sePhase' = "idle"
        PROVE  SeInv'
    BY <1>2 DEF SeInv, Running, Commanded, BuiltReal, EngineRuns
  <1>3. ASSUME UNCHANGED process
        PROVE  SeInv'
    BY <1>3, PhaseMovesOn DEF process
  <1>4. CASE UNCHANGED seVars
    BY <1>3, <1>4 DEF seVars, process
  <1>5. CASE \/ \E m \in {"paper", "live"} : EditConfig(m)
             \/ \E b \in BOOLEAN : SetEnv(b)
             \/ \E a \in AckStates : EditAck(a)
    BY <1>3, <1>5 DEF EditConfig, SetEnv, EditAck
  <1>6. CASE ArmLive
    BY <1>6, PhaseMovesOn DEF ArmLive
  <1>7. CASE \E c \in {"demo", "paper", "live", "backtest", "record"} : RunCommand(c)
    BY <1>7, RunCommandKeeps
  <1>8. CASE BuildAdapters
    BY <1>8, BuildAdaptersKeeps
  <1>9. CASE \E ok \in BOOLEAN : ConnectNext(ok)
    BY <1>9, PhaseMovesOn DEF ConnectNext
  <1>10. CASE StartEngine
    BY <1>10, PhaseMovesOn DEF StartEngine
  <1>11. CASE Finish
    <2>1. sePhase = "trading" => seCommand # "record"
      BY DEF SeInv, EngineRuns
    <2> QED BY <1>11, <2>1, PhaseMovesOn DEF Finish
  <1>12. CASE \E raises \in BOOLEAN : StopEngine(raises)
    BY <1>12, PhaseMovesOn DEF StopEngine
  <1>13. CASE \E saved \in BOOLEAN : Shutdown(saved)
    BY <1>2, <1>13 DEF Shutdown
  <1>14. CASE Die
    BY <1>2, <1>14 DEF Die
  <1>15. CASE Signal
    BY <1>15, PhaseMovesOn DEF Signal
  <1> QED
    BY <1>4, <1>5, <1>6, <1>7, <1>8, <1>9, <1>10, <1>11, <1>12, <1>13, <1>14, <1>15
    DEF SeNext, Process

\* No command starts an engine on a real adapter unless the environment variable and the
\* acknowledgment file were both in place when the command was given, whatever is edited
\* while it runs, for every set of venues and of credentials and any number of commands.
THEOREM RealOrdersAreArmed == SessionSpec => []RealOrdersNeedTwoLocks
  <1>1. SeInv => RealOrdersNeedTwoLocks
    BY DEF SeInv, Commanded, BuiltReal, EngineRuns, RealOrdersNeedTwoLocks, OrdersAreReal
  <1> QED BY <1>1, SeInvInit, SeStepKeeps, PTL DEF SessionSpec

-----------------------------------------------------------------------------
(* Token bucket: what is granted, as time drains it. *)

TbSpec == TbInit /\ [][TbNext]_tbVars

\* The throttle's ceiling is twice its base rate unless a caller gives another one; a
\* back-off from it then sets no capacity above the first.
UsualCeiling == MaxRate <= 2 * BaseRate

First == CapacityFor(BaseRate)

TbTypes ==
  /\ tbTokens \in Nat /\ tbElapsed \in Nat /\ tbAdjusted \in Nat /\ tbMeter \in Nat
  /\ tbRate \in 0 .. MaxRate /\ tbCapacity \in Nat

\* What was granted and not yet drained, what is in the bucket and what the time since the
\* last refill can bring are together no more than the first capacity.
Potential == tbMeter = 0 \/ tbMeter + tbTokens + tbElapsed * MaxRate <= First

TbInv == TbTypes /\ tbCapacity <= First /\ Potential

Asked == tbAsk \in [TbCallers -> Nat]

LEMMA LargerOfTwo ==
  ASSUME NEW a \in Int, NEW b \in Int
  PROVE  Max({a, b}) \in {a, b} /\ Max({a, b}) >= a /\ Max({a, b}) >= b
  <1>1. \E x \in {a, b} : \A y \in {a, b} : x >= y
    BY a >= b \/ b >= a
  <1> QED BY <1>1 DEF Max

LEMMA SmallerOfTwo ==
  ASSUME NEW a \in Int, NEW b \in Int
  PROVE  Min({a, b}) \in {a, b} /\ Min({a, b}) <= a /\ Min({a, b}) <= b
  <1>1. \E x \in {a, b} : \A y \in {a, b} : x <= y
    BY a <= b \/ b <= a
  <1> QED BY <1>1 DEF Min

LEMMA ProductGrows ==
  ASSUME NEW n \in Nat, NEW a \in Nat, NEW b \in Nat, a <= b
  PROVE  n * a \in Nat /\ n * b \in Nat /\ n * a <= n * b
  OBVIOUS

\* The capacity is at least a token's worth, and grows with the rate it is set for.
LEMMA Capacities ==
  ASSUME NEW rate \in Nat
  PROVE  /\ CapacityFor(rate) \in Nat
         /\ rate <= BaseRate => CapacityFor(rate) <= First
  <1>1. Unit \in Nat /\ BaseRate \in Nat
    BY TbAssumption
  <1>2. /\ CapacityFor(rate) \in {Unit, rate}
        /\ First \in {Unit, BaseRate} /\ First >= Unit /\ First >= BaseRate
    BY <1>1, LargerOfTwo DEF CapacityFor, First
  <1> QED BY <1>1, <1>2

LEMMA TbInvInit == TbInit => TbInv
  <1> SUFFICES ASSUME TbInit PROVE TbInv
    OBVIOUS
  <1>1. BaseRate \in Nat /\ MaxRate \in Nat /\ BaseRate <= MaxRate
    BY TbAssumption
  <1>2. First \in Nat
    BY <1>1, Capacities DEF First
  <1> QED BY <1>1, <1>2 DEF TbInit, TbInv, TbTypes, Potential, First

\* What a refill puts in was accounted for before it.
LEMMA Refilling ==
  ASSUME TbInv
  PROVE  /\ Refilled \in Nat /\ Refilled <= First
         /\ tbMeter = 0 \/ tbMeter + Refilled <= First
  <1>1. /\ tbTokens \in Nat /\ tbElapsed \in Nat /\ tbMeter \in Nat /\ tbRate \in Nat
        /\ tbRate <= MaxRate /\ tbCapacity \in Nat /\ tbCapacity <= First /\ MaxRate \in Nat
        /\ First \in Nat
    BY TbAssumption, Capacities DEF TbInv, TbTypes, First
  <1> DEFINE now == tbElapsed * tbRate
             most == tbElapsed * MaxRate
  <1>2. now \in Nat /\ most \in Nat /\ now <= most
    BY <1>1, ProductGrows
  <1>3. tbMeter = 0 \/ tbMeter + tbTokens + most <= First
    BY DEF TbInv, Potential
  <1>4. Refilled = Min({tbCapacity, tbTokens + now})
    BY DEF Refilled
  <1> DEFINE sum == tbTokens + now
  <1>6. sum \in Int /\ tbCapacity \in Int
    BY <1>1, <1>2
  <1>7. Refilled = Min({tbCapacity, sum})
    BY <1>4
  <1> HIDE DEF now, most, sum
  <1>8. Refilled \in {tbCapacity, sum} /\ Refilled <= tbCapacity /\ Refilled <= sum
    BY <1>6, <1>7, SmallerOfTwo
  <1>5. /\ Refilled \in {tbCapacity, tbTokens + now}
        /\ Refilled <= tbCapacity /\ Refilled <= tbTokens + now
    BY <1>8 DEF sum
  <1> QED BY <1>1, <1>2, <1>3, <1>5

\* A refill with a grant, and one without, whoever asked.
LEMMA Refills ==
  ASSUME TbInv, tbElapsed' = 0, UNCHANGED <<tbRate, tbCapacity, tbAdjusted>>,
         \/ \E n \in Nat : Refilled >= n /\ Grant(n)
         \/ tbTokens' = Refilled /\ UNCHANGED tbMeter
  PROVE  TbInv'
  <1>1. /\ Refilled \in Nat /\ Refilled <= First
        /\ tbMeter = 0 \/ tbMeter + Refilled <= First
        /\ tbMeter \in Nat /\ First \in Nat /\ MaxRate \in Nat
    BY Refilling, TbAssumption, Capacities DEF TbInv, TbTypes, First
  <1>2. tbTokens' \in Nat /\ tbMeter' \in Nat /\ (tbMeter' = 0 \/ tbMeter' + tbTokens' <= First)
    BY <1>1 DEF Grant
  <1>3. TbTypes' /\ tbCapacity' <= First
    BY <1>2, <1>1 DEF TbInv, TbTypes
  <1>4. Potential'
    <2> DEFINE since == tbElapsed' * MaxRate
    <2>1. since = 0
      BY <1>1
    <2>2. Potential' <=> tbMeter' = 0 \/ tbMeter' + tbTokens' + since <= First
      BY DEF Potential
    <2>3. ASSUME NEW granted \in Nat, NEW left \in Nat
          PROVE  granted + left + 0 = granted + left
      OBVIOUS
    <2>4. tbMeter' + tbTokens' + since = tbMeter' + tbTokens'
      BY <1>2, <2>1, <2>3
    <2> QED BY <1>2, <2>2, <2>4
  <1> QED BY <1>3, <1>4 DEF TbInv

\* The throttle raises the rate as far as the ceiling.
LEMMA Raises ==
  ASSUME TbInv,
         tbRate' = tbRate \/ tbRate' = Min({MaxRate, tbRate + RateStep * tbAdjusted}),
         tbAdjusted' = 0,
         UNCHANGED <<tbTokens, tbCapacity, tbElapsed, tbMeter>>
  PROVE  TbInv'
  <1>1. tbRate \in 0 .. MaxRate /\ MaxRate \in Nat /\ RateStep \in Nat
    BY TbAssumption DEF TbInv, TbTypes
  <1> DEFINE more == RateStep * tbAdjusted
  <1>2. more \in Nat
    BY <1>1 DEF TbInv, TbTypes
  <1>3. tbRate' = tbRate \/ tbRate' = Min({MaxRate, tbRate + more})
    OBVIOUS
  <1> HIDE DEF more
  <1>4. tbRate' \in 0 .. MaxRate
    <2> DEFINE sum == tbRate + more
    <2>1. sum \in Nat
      BY <1>1, <1>2
    <2>2. tbRate' = tbRate \/ tbRate' = Min({MaxRate, sum})
      BY <1>3
    <2> HIDE DEF sum
    <2>3. Min({MaxRate, sum}) \in {MaxRate, sum} /\ Min({MaxRate, sum}) <= MaxRate
      BY <1>1, <2>1, SmallerOfTwo
    <2> QED BY <1>1, <2>1, <2>2, <2>3
  <1> QED BY <1>4 DEF TbInv, TbTypes, Potential

LEMMA TickDrains ==
  ASSUME TbInv, TbTick
  PROVE  TbInv'
  <1>1. /\ tbElapsed \in Nat /\ tbTokens \in Nat /\ tbMeter \in Nat /\ MaxRate \in Nat
        /\ FullAfter \in Nat /\ First \in Nat
    BY TbAssumption, Capacities DEF TbInv, TbTypes, FullAfter, First
  <1>2. /\ tbElapsed' \in Nat /\ tbElapsed' <= tbElapsed + 1
        /\ tbAdjusted' \in Nat
    <2>1. ASSUME NEW n \in Nat
          PROVE  Min({n + 1, FullAfter}) \in Nat /\ Min({n + 1, FullAfter}) <= n + 1
      BY <1>1, n + 1 \in Int, SmallerOfTwo
    <2>2. tbAdjusted \in Nat
      BY DEF TbInv, TbTypes
    <2> QED BY <1>1, <2>1, <2>2 DEF TbTick
  <1>3. tbMeter' \in Nat /\ (tbMeter' = 0 \/ (tbMeter' = tbMeter - MaxRate /\ tbMeter > MaxRate))
    <2>1. tbMeter' = IF tbMeter <= MaxRate THEN 0 ELSE tbMeter - MaxRate
      BY DEF TbTick
    <2>2. CASE tbMeter <= MaxRate
      BY <1>1, <2>1, <2>2
    <2>3. CASE tbMeter > MaxRate
      <3>1. tbMeter' = tbMeter - MaxRate
        BY <1>1, <2>1, <2>3
      <3> QED BY <1>1, <2>3, <3>1
    <2> QED BY <1>1, <2>2, <2>3
  <1>4. TbTypes' /\ tbCapacity' <= First
    BY <1>2, <1>3 DEF TbTick, TbInv, TbTypes
  <1>5. Potential'
    <2>1. CASE tbMeter' = 0
      BY <2>1 DEF Potential
    <2>2. CASE tbMeter' = tbMeter - MaxRate /\ tbMeter > MaxRate
      <3> DEFINE before == tbElapsed * MaxRate
                 after == tbElapsed' * MaxRate
      <3>1. (tbElapsed + 1) * MaxRate = before + MaxRate /\ before \in Nat
        BY <1>1
      <3>2. after \in Nat /\ after <= (tbElapsed + 1) * MaxRate
        <4>1. MaxRate * tbElapsed' <= MaxRate * (tbElapsed + 1) /\ MaxRate * tbElapsed' \in Nat
          <5>1. tbElapsed + 1 \in Nat
            BY <1>1
          <5> QED BY <1>1, <1>2, <5>1, ProductGrows
        <4>2. /\ MaxRate * tbElapsed' = after
              /\ MaxRate * (tbElapsed + 1) = (tbElapsed + 1) * MaxRate
          BY <1>1, <1>2
        <4> QED BY <4>1, <4>2
      <3>3. tbMeter + tbTokens + before <= First
        BY <1>1, <2>2 DEF TbInv, Potential
      <3>4. tbTokens' = tbTokens
        BY DEF TbTick
      <3>5. Potential' <=> tbMeter' = 0 \/ tbMeter' + tbTokens' + after <= First
        BY DEF Potential
      <3> HIDE DEF before, after
      <3>6. after <= before + MaxRate
        BY <3>1, <3>2
      <3> QED BY <1>1, <2>2, <3>1, <3>2, <3>3, <3>4, <3>5, <3>6
    <2> QED BY <1>3, <2>1, <2>2
  <1> QED BY <1>4, <1>5 DEF TbInv

\* Under the usual ceiling a back-off never gives the bucket more than it began with.
LEMMA BacksOff ==
  ASSUME UsualCeiling, TbInv, OnRateLimited
  PROVE  TbInv'
  <1>1. /\ tbRate \in 0 .. MaxRate /\ MaxRate \in Nat /\ MinRate \in Nat /\ BaseRate \in Nat
        /\ MinRate <= BaseRate /\ BaseRate <= MaxRate
    BY TbAssumption DEF TbInv, TbTypes
  <1>2. tbRate' = Max({MinRate, tbRate \div 2}) /\ tbCapacity' = CapacityFor(tbRate')
    BY DEF OnRateLimited
  <1> DEFINE half == tbRate \div 2
  <1>3. half \in Nat /\ half <= BaseRate
    BY <1>1 DEF UsualCeiling
  <1>4. tbRate' = Max({MinRate, half})
    BY <1>2
  <1> HIDE DEF half
  <1>5. tbRate' \in {MinRate, half}
    <2>1. MinRate \in Int /\ half \in Int
      BY <1>1, <1>3
    <2>2. Max({MinRate, half}) \in {MinRate, half}
      BY <2>1, LargerOfTwo
    <2> QED BY <1>4, <2>2
  <1>6. tbRate' \in Nat /\ tbRate' <= BaseRate
    BY <1>1, <1>3, <1>5
  <1>7. tbCapacity' \in Nat /\ tbCapacity' <= First
    BY <1>2, <1>6, Capacities
  <1> QED BY <1>1, <1>6, <1>7 DEF TbInv, TbTypes, Potential, OnRateLimited

LEMMA TbStepKeeps == UsualCeiling /\ TbInv /\ Asked /\ [TbNext]_tbVars => TbInv' /\ Asked'
  <1> SUFFICES ASSUME UsualCeiling, TbInv, Asked, [TbNext]_tbVars PROVE TbInv' /\ Asked'
    OBVIOUS
  <1>1. ASSUME UNCHANGED <<tbTokens, tbRate, tbCapacity, tbElapsed, tbAdjusted, tbMeter>>
        PROVE  TbInv'
    BY <1>1 DEF TbInv, TbTypes, Potential
  <1>a. tbAsk' = tbAsk => Asked'
    BY DEF Asked
  <1>n. TbRequests \subseteq Nat
    BY TbAssumption
  <1>2. CASE UNCHANGED tbVars
    BY <1>1, <1>2, <1>a DEF tbVars
  <1>3. ASSUME NEW c \in TbCallers, NEW n \in TbRequests, TbAcquire(c, n)
        PROVE  TbInv' /\ Asked'
    <2>1. TbInv'
      BY <1>3, Raises DEF TbAcquire
    <2>2. Asked'
      BY <1>3, <1>n DEF TbAcquire, Asked
    <2> QED BY <2>1, <2>2
  <1>4. ASSUME NEW c \in TbCallers, TbGiveUp(c) PROVE TbInv' /\ Asked'
    BY <1>1, <1>4, <1>a DEF TbGiveUp
  <1>5. ASSUME NEW c \in TbCallers, TbHolderStep(c) PROVE TbInv' /\ Asked'
    <2>1. tbAsk[c] \in Nat
      BY DEF Asked
    <2> QED BY <1>5, <2>1, <1>a, Refills DEF TbHolderStep
  <1>6. ASSUME NEW n \in TbRequests, TryAcquire(n) PROVE TbInv' /\ Asked'
    BY <1>6, <1>n, <1>a, Refills DEF TryAcquire
  <1>7. CASE OnRateLimited
    BY <1>7, <1>a, BacksOff DEF OnRateLimited
  <1>8. CASE OnSuccess
    BY <1>8, <1>a, Raises DEF OnSuccess
  <1>9. CASE TbTick
    BY <1>9, <1>a, TickDrains DEF TbTick
  <1> QED BY <1>2, <1>3, <1>4, <1>5, <1>6, <1>7, <1>8, <1>9 DEF TbNext

\* With a ceiling of at most twice the base rate the bucket never grants, over any stretch
\* of time, more than its first capacity and what the ceiling brings in that time: in
\* every order of waiting callers, whatever each asks for, of calls of try_acquire, back-offs and recoveries.
THEOREM BurstsAreBounded == UsualCeiling => (TbSpec => []BurstIsBounded)
  <1>1. TbInv => BurstIsBounded
    <2> SUFFICES ASSUME TbInv PROVE BurstIsBounded
      OBVIOUS
    <2>1. /\ tbTokens \in Nat /\ tbMeter \in Nat /\ tbElapsed * MaxRate \in Nat /\ First \in Nat
      BY TbAssumption, Capacities, ProductGrows DEF TbInv, TbTypes, First
    <2> QED BY <2>1 DEF TbInv, Potential, BurstIsBounded, First
  <1>2. UsualCeiling => (TbSpec => []TbInv)
    <2> SUFFICES ASSUME UsualCeiling PROVE TbSpec => []TbInv
      OBVIOUS
    <2>1. TbInv /\ Asked /\ [TbNext]_tbVars => TbInv' /\ Asked'
      BY TbStepKeeps
    <2>2. TbInit => Asked
      BY DEF TbInit, Asked
    <2> QED BY TbInvInit, <2>1, <2>2, PTL DEF TbSpec
  <1> QED BY <1>1, <1>2, PTL

-----------------------------------------------------------------------------
(* Event bus: what a mailbox holds of the events that were addressed to it. *)

BusSpec == BusInit /\ [][BusNext]_busVars

\* Of all events addressed to it, a handler was handed d, q waits and lost were evicted.
Kept(q, d, lost, all) ==
  /\ q \in Seq(Nat) /\ d \in Seq(Nat) /\ lost \in Nat
  /\ all \in SUBSET Nat /\ IsFiniteSet(all)
  /\ \A i \in 1 .. Len(q) : q[i] \in all
  /\ \A i \in 1 .. Len(d) : d[i] \in all
  /\ \A i, j \in 1 .. Len(q) : i < j => q[i] < q[j]
  /\ \A i, j \in 1 .. Len(d) : i < j => d[i] < d[j]
  /\ \A i \in 1 .. Len(d), j \in 1 .. Len(q) : d[i] < q[j]
  /\ \A e \in all, j \in 1 .. Len(q) : e > q[j] => \E k \in 1 .. Len(q) : q[k] = e
  /\ Len(d) + Len(q) + lost = Cardinality(all)

LEMMA KeptDelivered ==
  ASSUME NEW q, NEW d, NEW lost, NEW all, Kept(q, d, lost, all), NEW e \in Nat, \A o \in all : o < e
  PROVE  Kept(Append(q, e), d, lost, all \cup {e})
  <1>1. /\ q \in Seq(Nat) /\ d \in Seq(Nat) /\ lost \in Nat /\ Len(q) \in Nat /\ Len(d) \in Nat
        /\ all \in SUBSET Nat /\ IsFiniteSet(all) /\ e \notin all
    BY DEF Kept
  <1>0. /\ \A i \in 1 .. Len(q) : q[i] \in all /\ q[i] \in Nat
        /\ \A i \in 1 .. Len(d) : d[i] \in all /\ d[i] \in Nat
        /\ \A i, j \in 1 .. Len(q) : i < j => q[i] < q[j]
        /\ \A i, j \in 1 .. Len(d) : i < j => d[i] < d[j]
        /\ \A i \in 1 .. Len(d), j \in 1 .. Len(q) : d[i] < q[j]
        /\ \A o \in all, j \in 1 .. Len(q) : o > q[j] => \E k \in 1 .. Len(q) : q[k] = o
        /\ Len(d) + Len(q) + lost = Cardinality(all)
    BY DEF Kept
  <1>2. IsFiniteSet(all \cup {e}) /\ Cardinality(all \cup {e}) = Cardinality(all) + 1
    BY <1>1, FS_AddElement
  <1> DEFINE r == Append(q, e)
  <1>3. /\ r \in Seq(Nat) /\ Len(r) = Len(q) + 1
        /\ \A i \in 1 .. Len(q) : r[i] = q[i]
        /\ r[Len(q) + 1] = e
    BY <1>1
  <1> HIDE DEF r
  <1>4. \A i \in 1 .. Len(r) : (i \in 1 .. Len(q) /\ r[i] = q[i]) \/ (i = Len(q) + 1 /\ r[i] = e)
    <2> TAKE i \in 1 .. Len(r)
    <2>1. i \in 1 .. Len(q) \/ i = Len(q) + 1
      BY <1>1, <1>3
    <2> QED BY <1>3, <2>1
  <1>5. \A i \in 1 .. Len(r) : r[i] \in all \cup {e}
    BY <1>0, <1>4
  <1>6. ASSUME NEW i \in 1 .. Len(r), NEW j \in 1 .. Len(r), i < j PROVE r[i] < r[j]
    <2>1. i \in 1 .. Len(q) /\ r[i] = q[i]
      BY <1>1, <1>3, <1>4, <1>6
    <2> QED BY <1>0, <1>4, <1>6, <2>1
  <1>7. \A i \in 1 .. Len(d), j \in 1 .. Len(r) : d[i] < r[j]
    BY <1>0, <1>4
  <1>8. ASSUME NEW o \in all \cup {e}, NEW j \in 1 .. Len(r), o > r[j]
        PROVE  \E k \in 1 .. Len(r) : r[k] = o
    <2>1. CASE o = e
      <3>1. Len(q) + 1 \in 1 .. Len(r) /\ r[Len(q) + 1] = e
        BY <1>1, <1>3
      <3> QED BY <2>1, <3>1
    <2>2. CASE o \in all
      <3>1. j \in 1 .. Len(q) /\ r[j] = q[j]
        BY <1>1, <1>4, <1>8, <2>2
      <3>2. PICK k \in 1 .. Len(q) : q[k] = o
        BY <1>0, <1>8, <2>2, <3>1
      <3>3. k \in 1 .. Len(r) /\ r[k] = o
        BY <1>1, <1>3, <3>2
      <3> QED BY <3>3
    <2> QED BY <2>1, <2>2
  <1>9. Len(d) + Len(r) + lost = Cardinality(all \cup {e})
    BY <1>0, <1>1, <1>2, <1>3
  <1>10. \A i \in 1 .. Len(d) : d[i] \in all \cup {e}
    BY <1>0
  <1> QED BY <1>0, <1>1, <1>2, <1>3, <1>5, <1>6, <1>7, <1>8, <1>9, <1>10 DEF Kept, r

LEMMA TailFacts ==
  ASSUME NEW q \in Seq(Nat), q # <<>>
  PROVE  /\ Tail(q) \in Seq(Nat) /\ Len(Tail(q)) = Len(q) - 1 /\ Len(q) \in Nat \ {0}
         /\ Head(q) = q[1] /\ \A i \in 1 .. Len(q) - 1 : Tail(q)[i] = q[i + 1]
  OBVIOUS

\* The oldest goes: evicted ...
LEMMA KeptEvicted ==
  ASSUME NEW q, NEW d, NEW lost, NEW all, Kept(q, d, lost, all), q # <<>>
  PROVE  Kept(Tail(q), d, lost + 1, all)
  <1>1. /\ q \in Seq(Nat) /\ d \in Seq(Nat) /\ lost \in Nat /\ Len(d) \in Nat
        /\ all \in SUBSET Nat /\ IsFiniteSet(all)
    BY DEF Kept
  <1>0. /\ \A i \in 1 .. Len(q) : q[i] \in all /\ q[i] \in Nat
        /\ \A i \in 1 .. Len(d) : d[i] \in all /\ d[i] \in Nat
        /\ \A i, j \in 1 .. Len(q) : i < j => q[i] < q[j]
        /\ \A i, j \in 1 .. Len(d) : i < j => d[i] < d[j]
        /\ \A i \in 1 .. Len(d), j \in 1 .. Len(q) : d[i] < q[j]
        /\ \A o \in all, j \in 1 .. Len(q) : o > q[j] => \E k \in 1 .. Len(q) : q[k] = o
        /\ Len(d) + Len(q) + lost = Cardinality(all)
    BY DEF Kept
  <1> DEFINE r == Tail(q)
  <1>2. /\ r \in Seq(Nat) /\ Len(r) = Len(q) - 1 /\ Len(q) \in Nat \ {0}
        /\ \A i \in 1 .. Len(q) - 1 : r[i] = q[i + 1]
    BY <1>1, TailFacts
  <1> HIDE DEF r
  <1>3. \A i \in 1 .. Len(r) : i + 1 \in 1 .. Len(q) /\ r[i] = q[i + 1]
    BY <1>2
  <1>4. \A i \in 1 .. Len(r) : r[i] \in all
    BY <1>0, <1>3
  <1>5. ASSUME NEW i \in 1 .. Len(r), NEW j \in 1 .. Len(r), i < j PROVE r[i] < r[j]
    <2>1. i + 1 < j + 1
      BY <1>2, <1>5
    <2> QED BY <1>0, <1>3, <2>1
  <1>6. \A i \in 1 .. Len(d), j \in 1 .. Len(r) : d[i] < r[j]
    BY <1>0, <1>3
  <1>7. ASSUME NEW o \in all, NEW j \in 1 .. Len(r), o > r[j] PROVE \E k \in 1 .. Len(r) : r[k] = o
    <2>1. j + 1 \in 1 .. Len(q) /\ r[j] = q[j + 1]
      BY <1>3
    <2>2. 1 \in 1 .. Len(q) /\ 1 < j + 1
      BY <1>2
    <2>3. q[1] < q[j + 1]
      BY <1>0, <2>1, <2>2
    <2>4. PICK k \in 1 .. Len(q) : q[k] = o
      BY <1>0, <1>7, <2>1
    <2>5. q[1] \in Nat /\ q[j + 1] \in Nat /\ q[k] \in Nat
      BY <1>0, <2>1, <2>2
    <2>6. k # 1
      BY <1>7, <2>1, <2>3, <2>4, <2>5
    <2>7. k - 1 \in 1 .. Len(r) /\ (k - 1) + 1 = k
      BY <1>2, <2>6
    <2>8. r[k - 1] = o
      BY <1>3, <2>4, <2>7
    <2> QED BY <2>7, <2>8
  <1>8. Len(d) + Len(r) + (lost + 1) = Cardinality(all)
    BY <1>0, <1>1, <1>2
  <1>9. Kept(r, d, lost + 1, all)
    <2>1. lost + 1 \in Nat
      BY <1>1
    <2> QED BY <1>0, <1>1, <1>2, <1>4, <1>5, <1>6, <1>7, <1>8, <2>1 DEF Kept
  <1> QED BY <1>9 DEF r

\* ... or handed to the handler.
LEMMA KeptHanded ==
  ASSUME NEW q, NEW d, NEW lost, NEW all, Kept(q, d, lost, all), q # <<>>
  PROVE  Kept(Tail(q), Append(d, Head(q)), lost, all)
  <1> DEFINE r == Tail(q)  c == Append(d, Head(q))
  <1>1. Kept(r, d, lost + 1, all)
    BY KeptEvicted
  <1>2. /\ q \in Seq(Nat) /\ d \in Seq(Nat) /\ lost \in Nat /\ Len(d) \in Nat
        /\ all \in SUBSET Nat /\ IsFiniteSet(all)
    BY DEF Kept
  <1>0. /\ \A i \in 1 .. Len(q) : q[i] \in all /\ q[i] \in Nat
        /\ \A i \in 1 .. Len(d) : d[i] \in all /\ d[i] \in Nat
        /\ \A i, j \in 1 .. Len(q) : i < j => q[i] < q[j]
        /\ \A i, j \in 1 .. Len(d) : i < j => d[i] < d[j]
        /\ \A i \in 1 .. Len(d), j \in 1 .. Len(q) : d[i] < q[j]
        /\ \A o \in all, j \in 1 .. Len(q) : o > q[j] => \E k \in 1 .. Len(q) : q[k] = o
        /\ Len(d) + Len(q) + lost = Cardinality(all)
    BY DEF Kept
  <1>3. /\ r \in Seq(Nat) /\ Len(r) = Len(q) - 1 /\ Len(q) \in Nat \ {0}
        /\ Head(q) = q[1] /\ \A i \in 1 .. Len(q) - 1 : r[i] = q[i + 1]
    BY <1>2, TailFacts
  <1>4. 1 \in 1 .. Len(q) /\ Head(q) \in all /\ Head(q) \in Nat
    BY <1>0, <1>3
  <1>5. /\ c \in Seq(Nat) /\ Len(c) = Len(d) + 1
        /\ \A i \in 1 .. Len(d) : c[i] = d[i]
        /\ c[Len(d) + 1] = Head(q)
    BY <1>2, <1>4
  <1> HIDE DEF r, c
  <1>6. \A i \in 1 .. Len(c) : (i \in 1 .. Len(d) /\ c[i] = d[i]) \/ (i = Len(d) + 1 /\ c[i] = q[1])
    <2> TAKE i \in 1 .. Len(c)
    <2>1. i \in 1 .. Len(d) \/ i = Len(d) + 1
      BY <1>2, <1>5
    <2> QED BY <1>3, <1>5, <2>1
  <1>7. \A i \in 1 .. Len(c) : c[i] \in all
    BY <1>0, <1>3, <1>4, <1>6
  <1>8. ASSUME NEW i \in 1 .. Len(c), NEW j \in 1 .. Len(c), i < j PROVE c[i] < c[j]
    <2>0. i \in 1 .. Len(d)
      BY <1>2, <1>5, <1>8
    <2>1. c[i] = d[i]
      BY <1>5, <2>0
    <2>2. CASE j \in 1 .. Len(d)
      <3>1. c[j] = d[j]
        BY <1>5, <2>2
      <3> QED BY <1>0, <1>8, <2>0, <2>1, <2>2, <3>1
    <2>3. CASE j = Len(d) + 1
      <3>1. c[j] = q[1]
        BY <1>3, <1>5, <2>3
      <3> QED BY <1>0, <1>4, <2>0, <2>1, <3>1
    <2> QED BY <1>6, <2>2, <2>3
  <1>9. ASSUME NEW i \in 1 .. Len(c), NEW j \in 1 .. Len(r) PROVE c[i] < r[j]
    <2>1. j + 1 \in 1 .. Len(q) /\ r[j] = q[j + 1] /\ 1 < j + 1
      BY <1>3
    <2>2. q[1] < r[j]
      BY <1>0, <1>4, <2>1
    <2>3. \A k \in 1 .. Len(d) : d[k] < r[j]
      BY <1>0, <2>1
    <2> QED BY <1>6, <2>2, <2>3
  <1>10. Len(c) + Len(r) + lost = Cardinality(all)
    BY <1>0, <1>2, <1>3, <1>5
  <1> QED BY <1>1, <1>2, <1>3, <1>5, <1>7, <1>8, <1>9, <1>10 DEF Kept, r, c

-----------------------------------------------------------------------------

Mailboxes == [pattern : Patterns \cup {<<>>}, queue : Seq(Nat), closed : BOOLEAN,
              delivered : Nat, dropped : Nat]

BusTypes ==
  /\ busSubs \subseteq Handlers /\ busBox \in [Handlers -> Mailboxes]
  /\ busTask \in [Handlers -> {"off", "waiting", "handling", "done"}]
  /\ busLog \in Seq(Topics)
  /\ busHandled \in [Handlers -> Seq(Nat)] /\ busSince \in [Handlers -> Nat]

\* Who has not started has nothing; who is registered is open.
Registered ==
  /\ \A h \in Handlers : busTask[h] = "off" =>
       /\ h \notin busSubs /\ ~busBox[h].closed
       /\ busBox[h].queue = <<>> /\ busBox[h].dropped = 0 /\ busHandled[h] = <<>>
  /\ \A h \in busSubs : ~busBox[h].closed /\ busSince[h] <= Len(busLog)

\* What the cache remembers of a topic is what looking at every subscription would find.
CacheIsRight ==
  \A t \in DOMAIN busCache : busCache[t] = {h \in busSubs : Matches(busBox[h].pattern, t)}

BoxesAreRight ==
  \A h \in busSubs : Kept(busBox[h].queue, busHandled[h], busBox[h].dropped, Addressed(h))

BusInv == BusTypes /\ Registered /\ CacheIsRight /\ BoxesAreRight

LEMMA AddressedType ==
  ASSUME BusTypes, NEW h
  PROVE  Addressed(h) \in SUBSET Nat /\ IsFiniteSet(Addressed(h)) /\ \A e \in Addressed(h) : e <= Len(busLog)
  <1>1. Len(busLog) \in Nat /\ DOMAIN busLog = 1 .. Len(busLog)
    BY DEF BusTypes
  <1>2. Addressed(h) \in SUBSET (1 .. Len(busLog))
    BY <1>1 DEF Addressed
  <1>3. IsFiniteSet(1 .. Len(busLog))
    BY <1>1, FS_Interval
  <1> QED BY <1>1, <1>2, <1>3, FS_Subset

LEMMA BusStarts == BusInit => BusInv
  BY DEF BusInit, BusInv, BusTypes, Registered, CacheIsRight, BoxesAreRight, Mailboxes, NoCache

LEMMA SubscribeKeeps ==
  ASSUME BusInv, NEW h \in Handlers, NEW p \in Patterns, Subscribe(h, p)
  PROVE  BusInv'
  <1>1. BusTypes'
    <2>1. [busBox[h] EXCEPT !.pattern = p] \in Mailboxes
      BY DEF BusInv, BusTypes, Mailboxes
    <2>2. busBox' \in [Handlers -> Mailboxes]
      BY <2>1 DEF BusInv, BusTypes, Subscribe
    <2>3. Len(busLog) \in Nat
      BY DEF BusInv, BusTypes
    <2> QED BY <2>2, <2>3 DEF BusInv, BusTypes, Subscribe
  <1>2. Registered'
    BY DEF BusInv, BusTypes, Registered, Subscribe, Mailboxes
  <1>3. CacheIsRight'
    BY DEF Subscribe, CacheIsRight, NoCache
  <1>4. ASSUME NEW k \in busSubs'
        PROVE  Kept(busBox'[k].queue, busHandled'[k], busBox'[k].dropped, Addressed(k)')
    <2>1. CASE k = h
      <3>1. Addressed(k)' = {}
        BY <1>1, <2>1 DEF Addressed, Subscribe, BusInv, BusTypes
      <3>2. /\ busBox'[k].queue = <<>> /\ busHandled'[k] = <<>> /\ busBox'[k].dropped = 0
        BY <2>1 DEF BusInv, BusTypes, Registered, Subscribe, Mailboxes
      <3> QED BY <3>1, <3>2, FS_EmptySet DEF Kept
    <2>2. CASE k # h
      <3>1. k \in busSubs /\ k \in Handlers /\ busBox'[k] = busBox[k] /\ busSince'[k] = busSince[k]
        BY <2>2 DEF BusInv, BusTypes, Subscribe
      <3>2. Addressed(k)' = Addressed(k) /\ busHandled' = busHandled
        BY <3>1 DEF Addressed, Subscribe
      <3> QED BY <3>1, <3>2 DEF BusInv, BoxesAreRight
    <2> QED BY <2>1, <2>2
  <1> QED BY <1>1, <1>2, <1>3, <1>4 DEF BusInv, BoxesAreRight

LEMMA PublishKeeps ==
  ASSUME BusInv, NEW t \in Topics, Publish(t)
  PROVE  BusInv'
  <1> DEFINE e == Len(busLog) + 1
  <1>1. /\ Len(busLog) \in Nat /\ e \in Nat /\ busLog' = Append(busLog, t)
        /\ DOMAIN busLog = 1 .. Len(busLog) /\ DOMAIN busLog' = 1 .. e
        /\ busLog'[e] = t /\ \A i \in DOMAIN busLog : busLog'[i] = busLog[i]
    BY DEF BusInv, BusTypes, Publish
  <1>2. Matching(t) = {h \in busSubs : Matches(busBox[h].pattern, t)}
    BY DEF BusInv, CacheIsRight, Matching
  <1>3. \A b \in Mailboxes :
          /\ Deliver(b, e) \in Mailboxes /\ Deliver(b, e).closed = b.closed /\ Deliver(b, e).pattern = b.pattern
          /\ Deliver(b, e).queue = IF Len(b.queue) < Maxsize THEN Append(b.queue, e) ELSE Append(Tail(b.queue), e)
          /\ Deliver(b, e).dropped = IF Len(b.queue) < Maxsize THEN b.dropped ELSE b.dropped + 1
    <2> SUFFICES ASSUME NEW b \in Mailboxes
                 PROVE  /\ Deliver(b, e) \in Mailboxes /\ Deliver(b, e).closed = b.closed /\ Deliver(b, e).pattern = b.pattern
                        /\ Deliver(b, e).queue = IF Len(b.queue) < Maxsize THEN Append(b.queue, e) ELSE Append(Tail(b.queue), e)
                        /\ Deliver(b, e).dropped = IF Len(b.queue) < Maxsize THEN b.dropped ELSE b.dropped + 1
      OBVIOUS
    <2>1. b.queue \in Seq(Nat) /\ Len(b.queue) \in Nat
      BY DEF Mailboxes
    <2>2. Len(b.queue) >= Maxsize => b.queue # <<>>
      BY <2>1, EventBusAssumption
    <2>3. b.queue # <<>> => Tail(b.queue) \in Seq(Nat)
      BY <2>1
    <2>4. Maxsize \in Nat
      BY EventBusAssumption
    <2>5. Append(b.queue, e) \in Seq(Nat) /\ (Len(b.queue) >= Maxsize => Append(Tail(b.queue), e) \in Seq(Nat))
      BY <1>1, <2>1, <2>2, <2>3
    <2> HIDE DEF e
    <2>6. CASE Len(b.queue) < Maxsize
      <3>1. Deliver(b, e) = [b EXCEPT !.queue = Append(@, e), !.delivered = @ + 1]
        BY <2>6 DEF Deliver
      <3>2. PICK pat \in Patterns \cup {<<>>}, q \in Seq(Nat), c \in BOOLEAN, n \in Nat, m \in Nat :
               b = [pattern |-> pat, queue |-> q, closed |-> c, delivered |-> n, dropped |-> m]
        BY DEF Mailboxes
      <3>3. Deliver(b, e) = [pattern |-> pat, queue |-> Append(q, e), closed |-> c,
                             delivered |-> n + 1, dropped |-> m]
        BY <3>1, <3>2
      <3>4. /\ b.queue = q /\ b.pattern = pat /\ b.closed = c /\ b.dropped = m
            /\ n + 1 \in Nat /\ Append(q, e) \in Seq(Nat)
        BY <2>5, <3>2
      <3>5. Deliver(b, e) \in Mailboxes
        BY <3>3, <3>4 DEF Mailboxes
      <3> QED BY <2>6, <3>3, <3>4, <3>5
    <2>7. CASE ~(Len(b.queue) < Maxsize)
      <3>1. Deliver(b, e) = [b EXCEPT !.queue = Append(Tail(@), e), !.delivered = @ + 1, !.dropped = @ + 1]
        BY <2>7 DEF Deliver
      <3>2. Append(Tail(b.queue), e) \in Seq(Nat)
        BY <2>1, <2>4, <2>5, <2>7
      <3>3. PICK pat \in Patterns \cup {<<>>}, q \in Seq(Nat), c \in BOOLEAN, n \in Nat, m \in Nat :
               b = [pattern |-> pat, queue |-> q, closed |-> c, delivered |-> n, dropped |-> m]
        BY DEF Mailboxes
      <3>4. Deliver(b, e) = [pattern |-> pat, queue |-> Append(Tail(q), e), closed |-> c,
                             delivered |-> n + 1, dropped |-> m + 1]
        BY <3>1, <3>3
      <3>5. /\ b.queue = q /\ b.pattern = pat /\ b.closed = c /\ b.dropped = m
            /\ n + 1 \in Nat /\ m + 1 \in Nat
        BY <3>3
      <3>6. Append(Tail(q), e) \in Seq(Nat)
        BY <3>2, <3>5
      <3>7. Deliver(b, e) \in Mailboxes
        BY <3>4, <3>5, <3>6 DEF Mailboxes
      <3> QED BY <2>7, <3>4, <3>5, <3>7
    <2> QED BY <2>6, <2>7
  <1>4. \A h \in Handlers : busBox'[h] = IF h \in Matching(t) /\ ~busBox[h].closed THEN Deliver(busBox[h], e) ELSE busBox[h]
    BY DEF Publish
  <1>5. \A h \in Handlers : busBox'[h] \in Mailboxes /\ busBox'[h].closed = busBox[h].closed /\ busBox'[h].pattern = busBox[h].pattern
    BY <1>3, <1>4 DEF BusInv, BusTypes
  <1>6. BusTypes'
    <2>1. busBox' \in [Handlers -> Mailboxes]
      BY <1>5 DEF Publish
    <2> QED BY <1>1, <2>1 DEF BusInv, BusTypes, Publish
  <1>7. Registered'
    BY <1>2, <1>4, <1>5 DEF BusInv, BusTypes, Registered, Publish
  <1>8. CacheIsRight'
    <2>1. \A u : {h \in busSubs' : Matches(busBox'[h].pattern, u)} = {h \in busSubs : Matches(busBox[h].pattern, u)}
      BY <1>5 DEF BusInv, BusTypes, Publish
    <2>2. \A u \in DOMAIN busCache' : busCache'[u] = {h \in busSubs : Matches(busBox[h].pattern, u)}
      BY <1>2 DEF BusInv, CacheIsRight, Publish, Remember
    <2> QED BY <2>1, <2>2 DEF CacheIsRight
  <1>9. ASSUME NEW h \in busSubs'
        PROVE  Kept(busBox'[h].queue, busHandled'[h], busBox'[h].dropped, Addressed(h)')
    <2>1. /\ h \in busSubs /\ h \in Handlers /\ busHandled'[h] = busHandled[h] /\ busSince'[h] = busSince[h]
          /\ busSince[h] \in Nat /\ ~busBox[h].closed
      BY DEF BusInv, BusTypes, Registered, Publish
    <2>2. Kept(busBox[h].queue, busHandled[h], busBox[h].dropped, Addressed(h))
      BY <2>1 DEF BusInv, BoxesAreRight
    <2>3. \A o \in Addressed(h) : o < e
      BY <1>1, AddressedType DEF BusInv
    <2>4. CASE h \in Matching(t)
      <3>1. Matches(busBox[h].pattern, t) /\ e > busSince[h]
        <4>1. busSince[h] <= Len(busLog)
          BY <2>1 DEF BusInv, Registered
        <4> QED BY <1>1, <1>2, <2>1, <2>4, <4>1
      <3>2. Addressed(h)' = Addressed(h) \cup {e}
        BY <1>1, <1>5, <2>1, <3>1 DEF Addressed
      <3>3. busBox'[h] = Deliver(busBox[h], e) /\ busBox[h] \in Mailboxes /\ busBox[h].queue \in Seq(Nat)
        BY <1>4, <2>1, <2>4 DEF BusInv, BusTypes, Mailboxes
      <3>4. CASE Len(busBox[h].queue) < Maxsize
        <4>1. Kept(Append(busBox[h].queue, e), busHandled[h], busBox[h].dropped, Addressed(h) \cup {e})
          BY <1>1, <2>2, <2>3, KeptDelivered
        <4> QED BY <1>3, <2>1, <3>2, <3>3, <3>4, <4>1
      <3>5. CASE ~(Len(busBox[h].queue) < Maxsize)
        <4>1. busBox[h].queue # <<>>
          BY <3>3, <3>5, EventBusAssumption
        <4>2. Kept(Tail(busBox[h].queue), busHandled[h], busBox[h].dropped + 1, Addressed(h))
          BY <2>2, <4>1, KeptEvicted
        <4>3. Kept(Append(Tail(busBox[h].queue), e), busHandled[h], busBox[h].dropped + 1, Addressed(h) \cup {e})
          BY <1>1, <2>3, <4>2, KeptDelivered
        <4> QED BY <1>3, <2>1, <3>2, <3>3, <3>5, <4>3
      <3> QED BY <3>4, <3>5
    <2>5. CASE h \notin Matching(t)
      <3>1. ~Matches(busBox[h].pattern, t) /\ busBox'[h] = busBox[h]
        BY <1>2, <1>4, <2>1, <2>5
      <3>2. Addressed(h)' = Addressed(h)
        BY <1>1, <2>1, <3>1 DEF Addressed
      <3> QED BY <2>1, <2>2, <3>1, <3>2
    <2> QED BY <2>4, <2>5
  <1> QED BY <1>6, <1>7, <1>8, <1>9 DEF BusInv, BoxesAreRight

LEMMA TakeKeeps ==
  ASSUME BusInv, NEW h \in Handlers, Take(h)
  PROVE  BusInv'
  <1>1. /\ busBox[h].queue \in Seq(Nat) /\ busBox[h].queue # <<>>
        /\ Head(busBox[h].queue) \in Nat /\ Tail(busBox[h].queue) \in Seq(Nat)
    BY DEF BusInv, BusTypes, Mailboxes, Take
  <1>2. BusTypes'
    <2>1. [busBox[h] EXCEPT !.queue = Tail(@)] \in Mailboxes
      BY <1>1 DEF BusInv, BusTypes, Mailboxes
    <2>2. busBox' \in [Handlers -> Mailboxes]
      BY <2>1 DEF BusInv, BusTypes, Take
    <2>3. Append(busHandled[h], Head(busBox[h].queue)) \in Seq(Nat)
      BY <1>1 DEF BusInv, BusTypes
    <2> QED BY <2>2, <2>3 DEF BusInv, BusTypes, Take
  <1>3. \A k \in Handlers : /\ busBox'[k].closed = busBox[k].closed /\ busBox'[k].pattern = busBox[k].pattern
                            /\ busBox'[k].dropped = busBox[k].dropped
                            /\ k # h => busBox'[k] = busBox[k] /\ busHandled'[k] = busHandled[k]
    BY DEF BusInv, BusTypes, Take, Mailboxes
  <1>4. Registered'
    BY <1>3 DEF BusInv, BusTypes, Registered, Take
  <1>5. CacheIsRight'
    <2>1. \A u : {k \in busSubs' : Matches(busBox'[k].pattern, u)} = {k \in busSubs : Matches(busBox[k].pattern, u)}
      BY <1>3 DEF BusInv, BusTypes, Take
    <2> QED BY <2>1 DEF CacheIsRight, BusInv, Take
  <1>6. ASSUME NEW k \in busSubs'
        PROVE  Kept(busBox'[k].queue, busHandled'[k], busBox'[k].dropped, Addressed(k)')
    <2>1. k \in busSubs /\ k \in Handlers
      BY DEF Take, BusInv, BusTypes
    <2>2. Addressed(k)' = Addressed(k)
      BY <1>3, <2>1 DEF Addressed, Take
    <2>3. Kept(busBox[k].queue, busHandled[k], busBox[k].dropped, Addressed(k))
      BY <2>1 DEF BusInv, BoxesAreRight
    <2>4. CASE k = h
      <3>1. busBox'[h].queue = Tail(busBox[h].queue) /\ busHandled'[h] = Append(busHandled[h], Head(busBox[h].queue))
        BY DEF Take, BusInv, BusTypes, Mailboxes
      <3> QED BY <1>1, <1>3, <2>1, <2>2, <2>3, <2>4, <3>1, KeptHanded
    <2> QED BY <1>3, <2>1, <2>2, <2>3, <2>4
  <1> QED BY <1>2, <1>4, <1>5, <1>6 DEF BusInv, BoxesAreRight

\* A step that only closes subscriptions, or moves a task, leaves the others' as they are.
LEMMA ClosingKeeps ==
  ASSUME BusInv, BusTypes', Registered', CacheIsRight',
         UNCHANGED <<busLog, busHandled, busSince>>, busSubs' \subseteq busSubs,
         \A h \in busSubs' : busBox'[h] = busBox[h]
  PROVE  BusInv'
  <1>1. ASSUME NEW k \in busSubs'
        PROVE  Kept(busBox'[k].queue, busHandled'[k], busBox'[k].dropped, Addressed(k)')
    <2>1. Addressed(k)' = Addressed(k)
      BY DEF Addressed
    <2> QED BY <2>1 DEF BusInv, BoxesAreRight
  <1> QED BY <1>1 DEF BusInv, BoxesAreRight

LEMMA LeaveKeeps ==
  ASSUME BusInv, NEW h \in Handlers, busTask[h] # "off", Leave(h)
  PROVE  BusInv'
  <1>1. BusTypes' /\ Registered' /\ CacheIsRight'
    BY DEF BusInv, BusTypes, Registered, CacheIsRight, Leave, Mailboxes, NoCache
  <1>2. \A k \in busSubs' : busBox'[k] = busBox[k]
    BY DEF BusInv, BusTypes, Leave
  <1>3. busSubs' \subseteq busSubs /\ UNCHANGED <<busLog, busHandled, busSince>>
    BY DEF Leave
  <1> QED BY <1>1, <1>2, <1>3, ClosingKeeps

LEMMA ContinueKeeps ==
  ASSUME BusInv, NEW h \in Handlers, busTask[h] = "handling", Continue(h)
  PROVE  BusInv'
  <1>1. CASE Leave(h)
    BY <1>1, LeaveKeeps
  <1>2. CASE busTask' = [busTask EXCEPT ![h] = "waiting"]
             /\ UNCHANGED <<busSubs, busBox, busCache, busClosed, busLog, busHandled, busSince>>
    <2>1. BusTypes' /\ Registered' /\ CacheIsRight'
      BY <1>2 DEF BusInv, BusTypes, Registered, CacheIsRight
    <2> QED BY <1>2, <2>1, ClosingKeeps
  <1> QED BY <1>1, <1>2 DEF Continue

LEMMA CloseBusKeeps == ASSUME BusInv, CloseBus PROVE BusInv'
  <1>1. BusTypes' /\ Registered' /\ CacheIsRight'
    BY DEF BusInv, BusTypes, Registered, CacheIsRight, CloseBus, Mailboxes, NoCache
  <1>2. busSubs' = {} /\ UNCHANGED <<busLog, busHandled, busSince>>
    BY DEF CloseBus
  <1> QED BY <1>1, <1>2, ClosingKeeps

LEMMA BusStep == BusInv /\ [BusNext]_busVars => BusInv'
  <1> SUFFICES ASSUME BusInv, [BusNext]_busVars PROVE BusInv'
    OBVIOUS
  <1>1. CASE UNCHANGED busVars
    <2>1. BusTypes' /\ Registered' /\ CacheIsRight'
      BY <1>1 DEF BusInv, BusTypes, Registered, CacheIsRight, busVars
    <2> QED BY <1>1, <2>1, ClosingKeeps DEF busVars
  <1>2. ASSUME NEW h \in Handlers, NEW p \in Patterns, Subscribe(h, p) PROVE BusInv'
    BY <1>2, SubscribeKeeps
  <1>3. ASSUME NEW h \in Handlers, Listen(h) PROVE BusInv'
    BY <1>3, TakeKeeps, ContinueKeeps DEF Listen, HandlerReturns, HandlerRaises
  <1>4. ASSUME NEW h \in Handlers, CancelTask(h) PROVE BusInv'
    BY <1>4, LeaveKeeps DEF CancelTask
  <1>5. ASSUME NEW t \in Topics, Publish(t) PROVE BusInv'
    BY <1>5, PublishKeeps
  <1>6. CASE CloseBus
    BY <1>6, CloseBusKeeps
  <1> QED BY <1>1, <1>2, <1>3, <1>4, <1>5, <1>6 DEF BusNext

LEMMA KeptTells ==
  ASSUME NEW q, NEW d, NEW lost, NEW all, Kept(q, d, lost, all)
  PROVE  /\ Range(d \o q) \subseteq all
         /\ \A e \in all, w \in Range(q) : e > w => e \in Range(q)
         /\ Len(d \o q) + lost = Cardinality(all)
         /\ \A i, j \in DOMAIN (d \o q) : i < j => (d \o q)[i] < (d \o q)[j]
  <1>1. /\ q \in Seq(Nat) /\ d \in Seq(Nat) /\ lost \in Nat /\ Len(q) \in Nat /\ Len(d) \in Nat
        /\ DOMAIN q = 1 .. Len(q) /\ DOMAIN d = 1 .. Len(d)
    BY DEF Kept
  <1>0. /\ \A i \in 1 .. Len(q) : q[i] \in all /\ q[i] \in Nat
        /\ \A i \in 1 .. Len(d) : d[i] \in all /\ d[i] \in Nat
        /\ \A i, j \in 1 .. Len(q) : i < j => q[i] < q[j]
        /\ \A i, j \in 1 .. Len(d) : i < j => d[i] < d[j]
        /\ \A i \in 1 .. Len(d), j \in 1 .. Len(q) : d[i] < q[j]
        /\ \A o \in all, j \in 1 .. Len(q) : o > q[j] => \E k \in 1 .. Len(q) : q[k] = o
        /\ Len(d) + Len(q) + lost = Cardinality(all)
    BY DEF Kept
  <1> DEFINE held == d \o q
  <1>2. /\ held \in Seq(Nat) /\ Len(held) = Len(d) + Len(q) /\ DOMAIN held = 1 .. Len(d) + Len(q)
        /\ \A i \in 1 .. Len(d) : held[i] = d[i]
        /\ \A i \in Len(d) + 1 .. Len(d) + Len(q) : held[i] = q[i - Len(d)]
    BY <1>1
  <1> HIDE DEF held
  <1>3. \A i \in 1 .. Len(held) : held[i] \in all
    <2> TAKE i \in 1 .. Len(held)
    <2>0. i \in Nat /\ i >= 1 /\ i <= Len(d) + Len(q) /\ Len(d) \in Nat /\ Len(q) \in Nat
      BY <1>1, <1>2
    <2>1. CASE i <= Len(d)
      <3>1. i \in 1 .. Len(d)
        BY <2>0, <2>1
      <3> QED BY <1>0, <1>2, <3>1
    <2>2. CASE i > Len(d)
      <3> DEFINE k == i - Len(d)
      <3>1. k \in 1 .. Len(q) /\ i \in Len(d) + 1 .. Len(d) + Len(q)
        BY <2>0, <2>2
      <3>2. held[i] = q[k]
        BY <1>2, <3>1
      <3> HIDE DEF k
      <3> QED BY <1>0, <3>1, <3>2
    <2> QED BY <1>1, <1>2, <2>1, <2>2
  <1>4. ASSUME NEW i \in 1 .. Len(held), NEW j \in 1 .. Len(held), i < j PROVE held[i] < held[j]
    <2>1. \A n \in 1 .. Len(held) : \/ n \in 1 .. Len(d) /\ held[n] = d[n]
                                    \/ n - Len(d) \in 1 .. Len(q) /\ held[n] = q[n - Len(d)]
      <3> TAKE n \in 1 .. Len(held)
      <3>1. n \in 1 .. Len(d) \/ (n \in Len(d) + 1 .. Len(d) + Len(q) /\ n - Len(d) \in 1 .. Len(q))
        BY <1>1, <1>2
      <3> QED BY <1>2, <3>1
    <2>2. CASE j \in 1 .. Len(d)
      <3>1. i \in 1 .. Len(d) /\ held[i] = d[i] /\ held[j] = d[j]
        BY <1>1, <1>2, <1>4, <2>2
      <3> QED BY <1>0, <1>4, <2>2, <3>1
    <2>3. CASE j \notin 1 .. Len(d)
      <3>1. j - Len(d) \in 1 .. Len(q) /\ held[j] = q[j - Len(d)]
        BY <2>1, <2>3
      <3>2. CASE i \in 1 .. Len(d)
        BY <1>0, <1>2, <3>1, <3>2
      <3>3. CASE i \notin 1 .. Len(d)
        <4>1. i - Len(d) \in 1 .. Len(q) /\ held[i] = q[i - Len(d)]
          BY <2>1, <3>3
        <4>2. i - Len(d) < j - Len(d)
          BY <1>1, <1>4
        <4> QED BY <1>0, <3>1, <4>1, <4>2
      <3> QED BY <3>2, <3>3
    <2> QED BY <2>2, <2>3
  <1>5. \A e \in all, w \in Range(q) : e > w => e \in Range(q)
    BY <1>1 DEF Kept, Range
  <1>6. Len(held) + lost = Cardinality(all)
    BY <1>1, <1>2 DEF Kept
  <1> QED BY <1>3, <1>4, <1>5, <1>6 DEF Range, held

\* An open mailbox holds the newest of the events that match it and nothing is lost
\* uncounted: for any handlers, topics, patterns, mailbox size and size of the cache, as
\* subscriptions come and go, handlers raise and tasks are cancelled.
THEOREM NewestAreKept == BusSpec => []NewestSurvive
  <1>1. BusInv => NewestSurvive
    BY KeptTells DEF BusInv, BoxesAreRight, NewestSurvive
  <1> QED BY BusStarts, BusStep, <1>1, PTL DEF BusSpec

-----------------------------------------------------------------------------
(* Model store: what a checkpoint that went through has left on disk. *)

StoreSpec == StInit /\ [][StNext]_stVars

Whole == stLosses = 0

StTypes ==
  /\ stFile = [n \in Names |-> stFile[n]] /\ stLatest = [n \in Names |-> stLatest[n]]
  /\ stIndex \in [Names -> Seq(Nat)] /\ stDisk \in [Names -> Seq(Nat)]
  /\ stTodo \in Seq(STRING) /\ \A i \in 1 .. Len(stTodo) : stTodo[i] \in Names
  /\ stDropped \in Seq(Nat)

\* A save is under way exactly while there are models left, in a process.
Saving ==
  /\ stStep \in {"idle", "write", "copy", "fill", "unlink"}
  /\ stStep = "idle" <=> stTodo = <<>>
  /\ stHash = "" => stStep = "idle"
  /\ stStep # "unlink" => stDropped = <<>>

\* The index in memory is ahead of the disk by the model being saved only.
IndexIsOnDisk ==
  \A n \in Names : stIndex[n] = stDisk[n] \/ (stStep = "unlink" /\ n = Current)

\* Versions are numbered upwards, and those to be unlinked are older than those kept.
Ascending ==
  /\ \A n \in Names : \A i, j \in 1 .. Len(stIndex[n]) : i < j => stIndex[n][i] < stIndex[n][j]
  /\ stStep = "unlink" =>
       \A i \in 1 .. Len(stDropped), j \in 1 .. Len(stIndex[Current]) :
         stDropped[i] < stIndex[Current][j]

VersionsAreThere ==
  /\ \A n \in Names : \A i \in 1 .. Len(stIndex[n]) : stIndex[n][i] \in DOMAIN stFile[n]
  /\ stStep \in {"copy", "fill"} => NextVersion(Current) \in DOMAIN stFile[Current]

\* The latest file is the newest version's, but while it is being replaced.
LatestIsNewest ==
  \A n \in Names :
    stIndex[n] # <<>> /\ ~(stStep = "fill" /\ n = Current) =>
      stLatest[n] = stFile[n][stIndex[n][Len(stIndex[n])]]

StoreInv ==
  /\ stLosses \in Nat
  /\ Whole => StTypes /\ Saving /\ IndexIsOnDisk /\ Ascending /\ VersionsAreThere /\ LatestIsNewest

LEMMA IndexFacts ==
  ASSUME NEW s \in Seq(Nat)
  PROVE  /\ Len(s) \in Nat /\ DOMAIN s = 1 .. Len(s) /\ \A i \in 1 .. Len(s) : s[i] \in Nat
         /\ s # <<>> => Len(s) \in 1 .. Len(s)
  OBVIOUS

LEMMA SuffixFacts ==
  ASSUME NEW s \in Seq(Nat), NEW k \in Nat, k < Len(s)
  PROVE  /\ SubSeq(s, k + 1, Len(s)) \in Seq(Nat) /\ Len(SubSeq(s, k + 1, Len(s))) = Len(s) - k
         /\ \A i \in 1 .. Len(s) - k : SubSeq(s, k + 1, Len(s))[i] = s[i + k]
  OBVIOUS

LEMMA PrefixFacts ==
  ASSUME NEW s \in Seq(Nat), NEW k \in Nat, k <= Len(s)
  PROVE  /\ SubSeq(s, 1, k) \in Seq(Nat) /\ Len(SubSeq(s, 1, k)) = k
         /\ \A i \in 1 .. k : SubSeq(s, 1, k)[i] = s[i]
  OBVIOUS

LEMMA ModelsAreNamed == \A i \in 1 .. Len(Models) : Models[i] \in Names
  BY StoreAssumption DEF Names

LEMMA NoVersions == <<>> \in Seq(Nat) /\ <<>> \in Seq(STRING) /\ Len(<<>>) = 0
  OBVIOUS

LEMMA StoreStarts == StInit => StoreInv
  <1> SUFFICES ASSUME StInit PROVE StoreInv
    OBVIOUS
  <1>1. StTypes
    <2>1. stFile = [n \in Names |-> stFile[n]] /\ stLatest = [n \in Names |-> stLatest[n]]
      BY DEF StInit
    <2>2. stDisk = [n \in Names |-> <<>>] /\ stIndex = stDisk
      BY DEF StInit
    <2>3. stIndex \in [Names -> Seq(Nat)] /\ stDisk \in [Names -> Seq(Nat)]
      <3> DEFINE none == <<>>
      <3>1. none \in Seq(Nat) /\ stDisk = [n \in Names |-> none]
        BY <2>2, NoVersions
      <3> HIDE DEF none
      <3> QED BY <2>2, <3>1
    <2>4. stTodo \in Seq(STRING) /\ stDropped \in Seq(Nat) /\ \A i \in 1 .. Len(stTodo) : stTodo[i] \in Names
      <3>1. stTodo = <<>> /\ stDropped = <<>>
        BY DEF StInit
      <3>2. 1 .. 0 = {}
        OBVIOUS
      <3> QED BY <3>1, <3>2, NoVersions
    <2> QED BY <2>1, <2>3, <2>4 DEF StTypes
  <1>2. \A n \in Names : stIndex[n] = <<>> /\ stDisk[n] = <<>>
    BY DEF StInit
  <1>3. stTodo = <<>> /\ stDropped = <<>> /\ stStep = "idle" /\ stHash = "" /\ stLosses = 0
    BY DEF StInit
  <1>4. \A n \in Names : 1 .. Len(stIndex[n]) = {}
    <2>1. 1 .. 0 = {}
      OBVIOUS
    <2> QED BY <1>2, <2>1, NoVersions
  <1>5. Saving
    BY <1>3 DEF Saving
  <1>6. IndexIsOnDisk /\ Ascending /\ VersionsAreThere /\ LatestIsNewest
    BY <1>2, <1>3, <1>4 DEF IndexIsOnDisk, Ascending, VersionsAreThere, LatestIsNewest
  <1> QED BY <1>1, <1>3, <1>5, <1>6 DEF StoreInv

LEMMA CurrentIsNamed ==
  ASSUME StTypes, Saving, stStep # "idle"
  PROVE  /\ Current \in Names
         /\ Tail(stTodo) \in Seq(STRING) /\ \A i \in 1 .. Len(Tail(stTodo)) : Tail(stTodo)[i] \in Names
         /\ Len(stTodo) \in Nat /\ (Len(stTodo) > 1 <=> Tail(stTodo) # <<>>)
  <1>0. stTodo \in Seq(STRING) /\ stTodo # <<>>
    BY DEF StTypes, Saving
  <1>1. stTodo \in Seq(STRING) /\ stTodo # <<>> /\ Len(stTodo) \in Nat \ {0}
    BY <1>0
  <1>2. Current = stTodo[1] /\ 1 \in 1 .. Len(stTodo)
    BY <1>1 DEF Current
  <1>3. /\ Tail(stTodo) \in Seq(STRING) /\ Len(Tail(stTodo)) = Len(stTodo) - 1
        /\ \A i \in 1 .. Len(stTodo) - 1 : Tail(stTodo)[i] = stTodo[i + 1]
    BY <1>1
  <1>4. \A i \in 1 .. Len(Tail(stTodo)) : i + 1 \in 1 .. Len(stTodo)
    BY <1>1, <1>3
  <1> QED BY <1>1, <1>2, <1>3, <1>4 DEF StTypes

\* A version is numbered above all there are.
LEMMA NextIsNewer ==
  ASSUME StTypes, Ascending, NEW n \in Names
  PROVE  /\ NextVersion(n) \in Nat
         /\ \A i \in 1 .. Len(stIndex[n]) : stIndex[n][i] < NextVersion(n)
  <1> DEFINE s == stIndex[n]
  <1>1. s \in Seq(Nat) /\ Len(s) \in Nat /\ (s # <<>> => Len(s) \in 1 .. Len(s))
    BY DEF StTypes
  <1>2. NextVersion(n) = IF s = <<>> THEN 1 ELSE s[Len(s)] + 1
    BY DEF NextVersion, Last
  <1>3. \A i \in 1 .. Len(s) : s[i] \in Nat
    BY <1>1
  <1>4. \A i, j \in 1 .. Len(s) : i < j => s[i] < s[j]
    BY DEF Ascending
  <1> HIDE DEF s
  <1>5. CASE s = <<>>
    BY <1>1, <1>2, <1>5 DEF s
  <1>6. CASE s # <<>>
    <2>1. \A i \in 1 .. Len(s) : s[i] <= s[Len(s)]
      BY <1>1, <1>3, <1>4, <1>6
    <2> QED BY <1>1, <1>2, <1>3, <1>6, <2>1 DEF s
  <1> QED BY <1>5, <1>6

LEMMA ReplaceKeeps ==
  ASSUME StoreInv, Whole, ReplaceVersion
  PROVE  StoreInv'
  <1> DEFINE n == Current  v == NextVersion(n)
  <1>1. /\ StTypes /\ Saving /\ IndexIsOnDisk /\ Ascending /\ VersionsAreThere /\ LatestIsNewest
        /\ stStep = "write" /\ stStep' = "copy"
        /\ UNCHANGED <<stLatest, stDisk, stIndex, stHash, stBody, stTodo, stDropped, stLosses>>
    BY DEF StoreInv, ReplaceVersion
  <1>2. n \in Names /\ v \in Nat /\ \A i \in 1 .. Len(stIndex[n]) : stIndex[n][i] < v
    BY <1>1, CurrentIsNamed, NextIsNewer
  <1>3. /\ stFile' = [m \in Names |-> stFile'[m]]
        /\ \A m \in Names : m # n => stFile'[m] = stFile[m]
        /\ DOMAIN stFile'[n] = DOMAIN stFile[n] \cup {v}
        /\ \A u \in DOMAIN stFile[n] : u # v => stFile'[n][u] = stFile[n][u]
    <2>1. \E d : stFile' = [stFile EXCEPT ![n] = [u \in DOMAIN stFile[n] \cup {v} |-> IF u = v THEN d ELSE stFile[n][u]]]
      BY DEF ReplaceVersion
    <2> HIDE DEF n, v
    <2>2. PICK d : stFile' = [stFile EXCEPT ![n] = [u \in DOMAIN stFile[n] \cup {v} |-> IF u = v THEN d ELSE stFile[n][u]]]
      BY <2>1
    <2>3. DOMAIN stFile = Names
      BY <1>1 DEF StTypes
    <2>4. stFile'[n] = [u \in DOMAIN stFile[n] \cup {v} |-> IF u = v THEN d ELSE stFile[n][u]]
      BY <1>2, <2>2, <2>3
    <2>5. stFile' = [m \in Names |-> stFile'[m]] /\ \A m \in Names : m # n => stFile'[m] = stFile[m]
      BY <2>2, <2>3
    <2> QED BY <2>4, <2>5
  <1>4. Current' = n /\ NextVersion(n)' = v
    BY <1>1 DEF Current, NextVersion
  <1> HIDE DEF n, v
  <1>5. \A m \in Names : \A i \in 1 .. Len(stIndex[m]) :
          /\ stIndex[m][i] \in DOMAIN stFile'[m]
          /\ stFile'[m][stIndex[m][i]] = stFile[m][stIndex[m][i]]
    <2> SUFFICES ASSUME NEW m \in Names, NEW i \in 1 .. Len(stIndex[m])
                 PROVE  /\ stIndex[m][i] \in DOMAIN stFile'[m]
                        /\ stFile'[m][stIndex[m][i]] = stFile[m][stIndex[m][i]]
      OBVIOUS
    <2>1. stIndex[m][i] \in DOMAIN stFile[m] /\ stIndex[m][i] \in Nat
      BY <1>1 DEF VersionsAreThere, StTypes
    <2>2. m = n => stIndex[m][i] # v
      BY <1>2, <2>1
    <2> QED BY <1>3, <2>1, <2>2
  <1>6. VersionsAreThere'
    BY <1>1, <1>3, <1>4, <1>5 DEF VersionsAreThere, n
  <1>7. LatestIsNewest'
    <2>1. \A m \in Names : stIndex[m] # <<>> => Len(stIndex[m]) \in 1 .. Len(stIndex[m])
      BY <1>1 DEF StTypes
    <2> QED BY <1>1, <1>5, <2>1 DEF LatestIsNewest
  <1>8. StTypes' /\ Saving' /\ IndexIsOnDisk' /\ Ascending'
    BY <1>1, <1>3, <1>4 DEF StTypes, Saving, IndexIsOnDisk, Ascending
  <1> QED BY <1>1, <1>6, <1>7, <1>8 DEF StoreInv

LEMMA TruncateKeeps ==
  ASSUME StoreInv, Whole, TruncateLatest
  PROVE  StoreInv'
  <1>1. /\ StTypes /\ Saving /\ IndexIsOnDisk /\ Ascending /\ VersionsAreThere /\ LatestIsNewest
        /\ stStep = "copy" /\ stStep' = "fill" /\ stLatest' = [stLatest EXCEPT ![Current] = Torn]
        /\ UNCHANGED <<stFile, stDisk, stIndex, stHash, stTodo, stDropped, stLosses>>
    BY DEF StoreInv, TruncateLatest
  <1>2. Current' = Current /\ \A m : NextVersion(m)' = NextVersion(m)
    BY <1>1 DEF Current, NextVersion
  <1>3. StTypes' /\ Saving' /\ IndexIsOnDisk' /\ Ascending' /\ VersionsAreThere'
    BY <1>1, <1>2 DEF StTypes, Saving, IndexIsOnDisk, Ascending, VersionsAreThere
  <1>4. LatestIsNewest'
    BY <1>1, <1>2 DEF LatestIsNewest, StTypes
  <1> QED BY <1>1, <1>3, <1>4 DEF StoreInv

\* The new version joins the index, from whose other end the oldest are taken.
Newest(s, v, excess) == SubSeq(Append(s, v), excess + 1, Len(Append(s, v)))
Oldest(s, v, excess) == SubSeq(Append(s, v), 1, excess)

\* Versions up to v, all newer than those of gone.
Pruned(kept, gone, s, v) ==
  /\ kept \in Seq(Nat) /\ gone \in Seq(Nat) /\ Len(kept) \in Nat \ {0}
  /\ \A i, j \in 1 .. Len(kept) : i < j => kept[i] < kept[j]
  /\ \A i \in 1 .. Len(gone), j \in 1 .. Len(kept) : gone[i] < kept[j]
  /\ \A i \in 1 .. Len(kept) : kept[i] = v \/ \E j \in 1 .. Len(s) : kept[i] = s[j]
  /\ kept[Len(kept)] = v

LEMMA PrunedIndex ==
  ASSUME NEW s \in Seq(Nat), NEW v \in Nat, \A i \in 1 .. Len(s) : s[i] < v,
         \A i, j \in 1 .. Len(s) : i < j => s[i] < s[j],
         NEW excess \in Nat, excess < Len(Append(s, v))
  PROVE  Pruned(Newest(s, v, excess), Oldest(s, v, excess), s, v)
  <1> DEFINE all == Append(s, v)  kept == Newest(s, v, excess)  gone == Oldest(s, v, excess)
  <1>1. /\ all \in Seq(Nat) /\ Len(all) = Len(s) + 1 /\ Len(s) \in Nat
        /\ \A i \in 1 .. Len(s) : all[i] = s[i]
        /\ all[Len(s) + 1] = v
    OBVIOUS
  <1>2. \A i \in 1 .. Len(all) : all[i] \in Nat
    BY <1>1
  <1>3. ASSUME NEW i \in 1 .. Len(all), NEW j \in 1 .. Len(all), i < j PROVE all[i] < all[j]
    <2>1. i \in 1 .. Len(s) /\ all[i] = s[i]
      BY <1>1, <1>3
    <2>2. CASE j \in 1 .. Len(s)
      BY <1>1, <1>3, <2>1, <2>2
    <2>3. CASE j = Len(s) + 1
      BY <1>1, <2>1, <2>3
    <2> QED BY <1>1, <2>2, <2>3
  <1>4. /\ kept \in Seq(Nat) /\ Len(kept) = Len(all) - excess
        /\ \A i \in 1 .. Len(all) - excess : kept[i] = all[i + excess]
    <2> HIDE DEF all
    <2> QED BY <1>1, SuffixFacts DEF all, Newest
  <1>5. gone \in Seq(Nat) /\ Len(gone) = excess /\ \A i \in 1 .. excess : gone[i] = all[i]
    <2> HIDE DEF all
    <2>1. excess <= Len(all)
      BY <1>1 DEF all
    <2> QED BY <1>1, <2>1, PrefixFacts DEF all, Oldest
  <1> HIDE DEF all, kept, gone
  <1>6. \A i \in 1 .. Len(kept) : i + excess \in 1 .. Len(all) /\ kept[i] = all[i + excess]
    BY <1>1, <1>4
  <1>7. ASSUME NEW i \in 1 .. Len(kept), NEW j \in 1 .. Len(kept), i < j PROVE kept[i] < kept[j]
    <2>1. i + excess < j + excess
      BY <1>7
    <2> QED BY <1>3, <1>6, <2>1
  <1>8. ASSUME NEW i \in 1 .. Len(gone), NEW j \in 1 .. Len(kept) PROVE gone[i] < kept[j]
    <2>1. i \in 1 .. Len(all) /\ gone[i] = all[i] /\ i < j + excess
      BY <1>1, <1>5
    <2> QED BY <1>3, <1>6, <2>1
  <1>9. ASSUME NEW i \in 1 .. Len(kept) PROVE kept[i] = v \/ \E j \in 1 .. Len(s) : kept[i] = s[j]
    <2> DEFINE k == i + excess
    <2>1. k \in 1 .. Len(s) + 1 /\ Len(s) \in Nat /\ kept[i] = all[k]
      BY <1>1, <1>6
    <2> HIDE DEF k
    <2>2. k \in 1 .. Len(s) \/ k = Len(s) + 1
      BY <2>1
    <2> QED BY <1>1, <2>1, <2>2
  <1>10. Len(kept) \in 1 .. Len(kept) /\ Len(kept) + excess = Len(s) + 1 /\ Len(kept) \in Nat \ {0}
    BY <1>1, <1>4
  <1>11. kept[Len(kept)] = v
    BY <1>1, <1>6, <1>10
  <1>12. Pruned(kept, gone, s, v)
    BY <1>4, <1>5, <1>7, <1>8, <1>9, <1>10, <1>11 DEF Pruned
  <1> QED BY <1>12 DEF kept, gone

LEMMA FillKeeps ==
  ASSUME StoreInv, Whole, FillLatest
  PROVE  StoreInv'
  <1> DEFINE n == Current  v == NextVersion(n)  all == Append(stIndex[n], v)
             excess == IF Len(all) > KeepVersions THEN Len(all) - KeepVersions ELSE 0
             gone == Oldest(stIndex[n], v, excess)  kept == Newest(stIndex[n], v, excess)
  <1>1. /\ StTypes /\ Saving /\ IndexIsOnDisk /\ Ascending /\ VersionsAreThere /\ LatestIsNewest
        /\ stStep = "fill" /\ stStep' = "unlink"
        /\ stLatest' = [stLatest EXCEPT ![n] = stFile[n][v]]
        /\ stDropped' = gone /\ stIndex' = [stIndex EXCEPT ![n] = kept]
        /\ UNCHANGED <<stFile, stDisk, stHash, stTodo, stLosses>>
    BY DEF StoreInv, FillLatest, Newest, Oldest
  <1>2. n \in Names /\ v \in Nat /\ \A i \in 1 .. Len(stIndex[n]) : stIndex[n][i] < v
    BY <1>1, CurrentIsNamed, NextIsNewer
  <1>3. excess \in Nat /\ excess < Len(all)
    <2>1. Len(all) \in Nat \ {0}
      BY <1>1, <1>2 DEF StTypes
    <2> QED BY <2>1, StoreAssumption
  <1> DEFINE s == stIndex[n]
  <1>4. s \in Seq(Nat) /\ \A i, j \in 1 .. Len(s) : i < j => s[i] < s[j]
    BY <1>1, <1>2 DEF StTypes, Ascending
  <1>5. /\ kept \in Seq(Nat) /\ gone \in Seq(Nat) /\ Len(kept) \in Nat \ {0}
        /\ \A i, j \in 1 .. Len(kept) : i < j => kept[i] < kept[j]
        /\ \A i \in 1 .. Len(gone), j \in 1 .. Len(kept) : gone[i] < kept[j]
        /\ \A i \in 1 .. Len(kept) : kept[i] = v \/ \E j \in 1 .. Len(s) : kept[i] = s[j]
        /\ kept[Len(kept)] = v
    <2>1. \A i \in 1 .. Len(s) : s[i] < v
      BY <1>2
    <2>2. v \in Nat /\ excess < Len(Append(s, v))
      BY <1>2, <1>3
    <2>3. excess \in Nat
      BY <1>3
    <2> HIDE DEF n, v, excess, all, s
    <2>4. Pruned(kept, gone, s, v)
      BY <1>4, <2>1, <2>2, <2>3, PrunedIndex DEF s
    <2> QED BY <2>4 DEF Pruned
  <1>6. Current' = n
    BY <1>1 DEF Current
  <1>7. v \in DOMAIN stFile[n] /\ \A i \in 1 .. Len(s) : s[i] \in DOMAIN stFile[n]
    BY <1>1, <1>2 DEF VersionsAreThere
  <1> HIDE DEF n, v, all, excess, gone, kept, s
  <1>8. stIndex'[n] = kept /\ \A m \in Names : m # n => stIndex'[m] = stIndex[m]
    BY <1>1, <1>2 DEF StTypes
  <1>9. stLatest'[n] = stFile[n][v] /\ \A m \in Names : m # n => stLatest'[m] = stLatest[m]
    BY <1>1, <1>2 DEF StTypes
  <1>10. StTypes'
    BY <1>1, <1>2, <1>5 DEF StTypes
  <1>11. Saving' /\ IndexIsOnDisk'
    BY <1>1, <1>6, <1>8 DEF Saving, IndexIsOnDisk
  <1>12. Ascending'
    BY <1>1, <1>2, <1>5, <1>6, <1>8 DEF Ascending
  <1>13. VersionsAreThere'
    <2>1. \A i \in 1 .. Len(kept) : kept[i] \in DOMAIN stFile[n]
      BY <1>5, <1>7
    <2> QED BY <1>1, <1>8, <2>1 DEF VersionsAreThere
  <1>14. LatestIsNewest'
    BY <1>1, <1>5, <1>6, <1>8, <1>9 DEF LatestIsNewest, n
  <1> QED BY <1>1, <1>10, <1>11, <1>12, <1>13, <1>14 DEF StoreInv

LEMMA UnlinkKeeps ==
  ASSUME StoreInv, Whole, Unlink
  PROVE  StoreInv'
  <1> DEFINE n == Current  u == Head(stDropped)
  <1>1. /\ StTypes /\ Saving /\ IndexIsOnDisk /\ Ascending /\ VersionsAreThere /\ LatestIsNewest
        /\ stStep = "unlink" /\ stDropped # <<>>
        /\ stFile' = [stFile EXCEPT ![n] = Restrict(@, DOMAIN @ \ {u})]
        /\ stDropped' = Tail(stDropped)
        /\ UNCHANGED <<stLatest, stDisk, stIndex, stHash, stTodo, stStep, stLosses>>
    BY DEF StoreInv, Unlink
  <1>2. n \in Names
    BY <1>1, CurrentIsNamed
  <1>3. /\ stDropped \in Seq(Nat) /\ Len(stDropped) \in Nat \ {0} /\ u = stDropped[1] /\ u \in Nat
        /\ Tail(stDropped) \in Seq(Nat) /\ Len(Tail(stDropped)) = Len(stDropped) - 1
        /\ \A i \in 1 .. Len(stDropped) - 1 : Tail(stDropped)[i] = stDropped[i + 1]
    BY <1>1 DEF StTypes
  <1>4. Current' = n
    BY <1>1 DEF Current
  <1>5. \A i \in 1 .. Len(stDropped), j \in 1 .. Len(stIndex[n]) : stDropped[i] < stIndex[n][j]
    BY <1>1 DEF Ascending
  <1> HIDE DEF n, u
  <1>6. /\ stFile' = [m \in Names |-> stFile'[m]]
        /\ \A m \in Names : m # n => stFile'[m] = stFile[m]
        /\ \A w \in DOMAIN stFile[n] : w # u => w \in DOMAIN stFile'[n] /\ stFile'[n][w] = stFile[n][w]
    BY <1>1, <1>2 DEF StTypes, Restrict
  <1>7. \A j \in 1 .. Len(stIndex[n]) : stIndex[n][j] # u
    <2> TAKE j \in 1 .. Len(stIndex[n])
    <2>1. 1 \in 1 .. Len(stDropped) /\ stIndex[n][j] \in Nat
      BY <1>1, <1>2, <1>3 DEF StTypes
    <2> QED BY <1>3, <1>5, <2>1
  <1>8. \A m \in Names : \A i \in 1 .. Len(stIndex[m]) :
          /\ stIndex[m][i] \in DOMAIN stFile'[m]
          /\ stFile'[m][stIndex[m][i]] = stFile[m][stIndex[m][i]]
    <2> TAKE m \in Names
    <2> TAKE i \in 1 .. Len(stIndex[m])
    <2>1. stIndex[m][i] \in DOMAIN stFile[m]
      BY <1>1 DEF VersionsAreThere
    <2>2. CASE m = n
      <3>1. stIndex[m][i] # u
        BY <1>7, <2>2
      <3> QED BY <1>6, <2>1, <2>2, <3>1
    <2>3. CASE m # n
      BY <1>6, <2>1, <2>3
    <2> QED BY <2>2, <2>3
  <1>9. VersionsAreThere'
    BY <1>1, <1>8 DEF VersionsAreThere
  <1>10. LatestIsNewest'
    <2>1. \A m \in Names : stIndex[m] # <<>> => Len(stIndex[m]) \in 1 .. Len(stIndex[m])
      BY <1>1 DEF StTypes
    <2> SUFFICES ASSUME NEW m \in Names, stIndex[m] # <<>>
                 PROVE  stLatest[m] = stFile'[m][stIndex[m][Len(stIndex[m])]]
      BY <1>1 DEF LatestIsNewest
    <2>2. stLatest[m] = stFile[m][stIndex[m][Len(stIndex[m])]]
      BY <1>1 DEF LatestIsNewest
    <2> QED BY <1>8, <2>1, <2>2
  <1>11. Ascending'
    <2>1. \A i \in 1 .. Len(Tail(stDropped)) : i + 1 \in 1 .. Len(stDropped) /\ Tail(stDropped)[i] = stDropped[i + 1]
      BY <1>3
    <2> QED BY <1>1, <1>4, <1>5, <2>1 DEF Ascending
  <1>12. StTypes' /\ Saving' /\ IndexIsOnDisk'
    BY <1>1, <1>3, <1>4, <1>6 DEF StTypes, Saving, IndexIsOnDisk, n
  <1> QED BY <1>1, <1>9, <1>10, <1>11, <1>12 DEF StoreInv

LEMMA SaveIndexKeeps ==
  ASSUME StoreInv, Whole, SaveIndex
  PROVE  StoreInv'
  <1>1. /\ StTypes /\ Saving /\ IndexIsOnDisk /\ Ascending /\ VersionsAreThere /\ LatestIsNewest
        /\ stStep = "unlink" /\ stDropped = <<>> /\ stDisk' = stIndex /\ stTodo' = Tail(stTodo)
        /\ UNCHANGED <<stFile, stLatest, stIndex, stDropped, stLosses>>
    BY DEF StoreInv, SaveIndex
  <1>2. /\ Tail(stTodo) \in Seq(STRING) /\ \A i \in 1 .. Len(Tail(stTodo)) : Tail(stTodo)[i] \in Names
        /\ Len(stTodo) > 1 <=> Tail(stTodo) # <<>>
    BY <1>1, CurrentIsNamed
  <1>3. \/ Len(stTodo) > 1 /\ stStep' = "write" /\ stHash' = stHash
        \/ ~(Len(stTodo) > 1) /\ stStep' = "idle" /\ stHash' = ""
    BY DEF SaveIndex
  <1>4. StTypes' /\ Saving' /\ IndexIsOnDisk'
    BY <1>1, <1>2, <1>3 DEF StTypes, Saving, IndexIsOnDisk
  <1>5. Ascending' /\ VersionsAreThere' /\ LatestIsNewest'
    BY <1>1, <1>3 DEF Ascending, VersionsAreThere, LatestIsNewest
  <1> QED BY <1>1, <1>4, <1>5 DEF StoreInv

LEMMA BeginKeeps ==
  ASSUME StoreInv, Whole, BeginCheckpoint
  PROVE  StoreInv'
  <1>1. /\ StTypes /\ Saving /\ IndexIsOnDisk /\ Ascending /\ VersionsAreThere /\ LatestIsNewest
        /\ stHash # "" /\ stStep = "idle" /\ stTodo' = Models /\ stStep' = "write"
        /\ UNCHANGED <<stFile, stLatest, stDisk, stIndex, stHash, stDropped, stLosses>>
    BY DEF StoreInv, BeginCheckpoint
  <1>2. StTypes' /\ Saving' /\ IndexIsOnDisk' /\ Ascending' /\ VersionsAreThere' /\ LatestIsNewest'
    BY <1>1, ModelsAreNamed, StoreAssumption
    DEF StTypes, Saving, IndexIsOnDisk, Ascending, VersionsAreThere, LatestIsNewest
  <1> QED BY <1>1, <1>2 DEF StoreInv

\* Starting, learning and standing still touch no file.
LEMMA RestKeeps ==
  ASSUME StoreInv, Whole, UNCHANGED <<stFile, stLatest, stDisk, stTodo, stStep, stDropped, stLosses>>,
         UNCHANGED <<stIndex, stHash>> \/ (stHash = "" /\ stIndex' = stDisk)
  PROVE  StoreInv'
  <1>1. StTypes /\ Saving /\ IndexIsOnDisk /\ Ascending /\ VersionsAreThere /\ LatestIsNewest
    BY DEF StoreInv
  <1>2. stIndex' = stIndex
    <2>1. CASE stHash = "" /\ stIndex' = stDisk
      <3>1. \A n \in Names : stIndex[n] = stDisk[n]
        BY <1>1, <2>1 DEF Saving, IndexIsOnDisk
      <3>2. stIndex = [n \in Names |-> stIndex[n]] /\ stDisk = [n \in Names |-> stDisk[n]]
        BY <1>1 DEF StTypes
      <3>3. stIndex = stDisk
        BY <3>1, <3>2
      <3> QED BY <2>1, <3>3
    <2> QED BY <2>1
  <1>3. stHash' = "" => stStep = "idle"
    BY <1>1 DEF Saving
  <1>4. Current' = Current /\ \A m : NextVersion(m)' = NextVersion(m)
    BY <1>2 DEF Current, NextVersion
  <1>5. StTypes' /\ Saving' /\ IndexIsOnDisk' /\ Ascending' /\ VersionsAreThere' /\ LatestIsNewest'
    BY <1>1, <1>2, <1>3, <1>4
    DEF StTypes, Saving, IndexIsOnDisk, Ascending, VersionsAreThere, LatestIsNewest
  <1> QED BY <1>5 DEF StoreInv

LEMMA StoreStep == StoreInv /\ [StNext]_stVars => StoreInv'
  <1> SUFFICES ASSUME StoreInv, [StNext]_stVars PROVE StoreInv'
    OBVIOUS
  <1>1. CASE ~Whole
    <2>0. stLosses' = stLosses \/ stLosses' = stLosses + 1
      BY DEF StoreInv, Whole, StNext, Boot, Learn, Rollback, BeginCheckpoint, ReplaceVersion,
                  TruncateLatest, FillLatest, Unlink, SaveIndex, Crash, stVars
    <2>1. stLosses' \in Nat /\ stLosses' # 0
      BY <1>1, <2>0 DEF StoreInv, Whole
    <2> QED BY <2>1 DEF StoreInv, Whole
  <1>2. CASE Crash \/ \E n \in Names, v \in 1 .. MaxVersion : Rollback(n, v)
    <2>1. stLosses' = stLosses + 1 /\ stLosses \in Nat
      BY <1>2 DEF Crash, Rollback, StoreInv
    <2> QED BY <2>1 DEF StoreInv, Whole
  <1>3. CASE Whole /\ \E h \in Hashes : Boot(h)
    BY <1>3, RestKeeps DEF Boot
  <1>4. CASE Whole /\ (Learn \/ UNCHANGED stVars)
    BY <1>4, RestKeeps DEF Learn, stVars
  <1>5. CASE Whole /\ (BeginCheckpoint \/ ReplaceVersion \/ TruncateLatest)
    BY <1>5, BeginKeeps, ReplaceKeeps, TruncateKeeps
  <1>6. CASE Whole /\ (FillLatest \/ Unlink \/ SaveIndex)
    BY <1>6, FillKeeps, UnlinkKeeps, SaveIndexKeeps
  <1> QED BY <1>1, <1>2, <1>3, <1>4, <1>5, <1>6 DEF StNext

\* Where no process was lost and nothing rolled back, a process that has ended left a
\* latest file that is the newest version of the index, and every version the index lists:
\* for any models, features and number of versions kept, and any number of processes.
THEOREM CheckpointsAreFound == StoreSpec => []CheckpointIsFound
  <1>1. StoreInv => CheckpointIsFound
    <2> SUFFICES ASSUME StoreInv, stHash = "", stLosses = 0, NEW n \in Names, stDisk[n] # <<>>
                 PROVE  /\ stLatest[n] = stFile[n][Last(stDisk[n])]
                        /\ {stDisk[n][i] : i \in DOMAIN stDisk[n]} \subseteq DOMAIN stFile[n]
      BY DEF CheckpointIsFound
    <2>1. stIndex[n] = stDisk[n] /\ stStep = "idle" /\ stDisk[n] \in Seq(Nat)
      BY DEF StoreInv, Whole, Saving, IndexIsOnDisk, StTypes
    <2>2. DOMAIN stDisk[n] = 1 .. Len(stDisk[n])
      BY <2>1, IndexFacts
    <2>3. VersionsAreThere /\ LatestIsNewest
      BY DEF StoreInv, Whole
    <2>4. \A i \in 1 .. Len(stDisk[n]) : stDisk[n][i] \in DOMAIN stFile[n]
      BY <2>1, <2>3 DEF VersionsAreThere
    <2>5. stLatest[n] = stFile[n][stDisk[n][Len(stDisk[n])]]
      BY <2>1, <2>3 DEF LatestIsNewest
    <2> QED BY <2>2, <2>4, <2>5 DEF Last
  <1> QED BY StoreStarts, StoreStep, <1>1, PTL DEF StoreSpec

-----------------------------------------------------------------------------
(* Weighted limiter: what a period admits. *)

LimSpec == LimInit /\ [][LimNext]_limVars

Admissions == [age : Nat, w : Nat]

\* Sums up to each event.
Sums(f, s) ==
  /\ f[0] = 0 /\ \A n \in 0 .. Len(s) : f[n] \in Nat
  /\ \A n \in 0 .. Len(s) - 1 : f[n + 1] = f[n] + s[n + 1].w

Suffix(s, m) == SubSeq(s, m + 1, Len(s))

LEMMA AdmissionFacts ==
  ASSUME NEW s \in Seq(Admissions)
  PROVE  /\ Len(s) \in Nat /\ DOMAIN s = 1 .. Len(s)
         /\ \A i \in 1 .. Len(s) : s[i] \in Admissions /\ s[i].age \in Nat /\ s[i].w \in Nat
  <1>1. Len(s) \in Nat /\ DOMAIN s = 1 .. Len(s) /\ \A i \in 1 .. Len(s) : s[i] \in Admissions
    BY LenProperties, ElementOfSeq
  <1> QED BY <1>1 DEF Admissions

LEMMA SuffixIs ==
  ASSUME NEW s \in Seq(Admissions), NEW m \in 0 .. Len(s)
  PROVE  /\ Suffix(s, m) \in Seq(Admissions) /\ Len(Suffix(s, m)) = Len(s) - m
         /\ \A i \in 1 .. Len(s) - m : Suffix(s, m)[i] = s[m + i]
  <1>1. Len(s) \in Nat /\ \A i \in 1 .. Len(s) : s[i] \in Admissions
    BY AdmissionFacts
  <1>2. \A i \in m + 1 .. Len(s) : s[i] \in Admissions
    BY <1>1
  <1>3. m + 1 \in Int /\ Len(s) \in Int
    BY <1>1
  <1>4. /\ Suffix(s, m) \in Seq(Admissions)
        /\ Len(Suffix(s, m)) = IF m + 1 <= Len(s) THEN Len(s) - (m + 1) + 1 ELSE 0
        /\ \A i \in 1 .. Len(s) - (m + 1) + 1 : Suffix(s, m)[i] = s[m + 1 + i - 1]
    BY <1>2, <1>3, SubSeqProperties DEF Suffix
  <1>5. Len(Suffix(s, m)) = Len(s) - m
    BY <1>1, <1>4
  <1>6. ASSUME NEW i \in 1 .. Len(s) - m PROVE Suffix(s, m)[i] = s[m + i]
    <2>1. i \in 1 .. Len(s) - (m + 1) + 1 /\ m + 1 + i - 1 = m + i
      BY <1>1
    <2> QED BY <1>4, <2>1
  <1> QED BY <1>4, <1>5, <1>6

LEMMA SumOfIs ==
  ASSUME NEW s \in Seq(Admissions)
  PROVE  \E f : Sums(f, s) /\ SumOf(s) = f[Len(s)]
  <1> DEFINE Loop(f, n) == f = [i \in 0 .. n |-> IF i = 0 THEN 0 ELSE f[i - 1] + s[i].w]
             Looped == {n \in Nat : \E f : Loop(f, n)}
             sum == CHOOSE f : Loop(f, Len(s))
  <1>1. Len(s) \in Nat /\ \A i \in 1 .. Len(s) : s[i].w \in Nat
    BY AdmissionFacts
  <1>2. 0 \in Looped
    <2>1. Loop([i \in 0 .. 0 |-> 0], 0)
      OBVIOUS
    <2> QED BY <2>1
  <1>3. ASSUME NEW n \in 0 .. Len(s), n < Len(s), n \in Looped PROVE n + 1 \in Looped
    <2>1. PICK f : Loop(f, n)
      BY <1>3
    <2> DEFINE g == [i \in 0 .. n + 1 |-> IF i = n + 1 THEN f[n] + s[n + 1].w ELSE f[i]]
    <2>2. Loop(g, n + 1)
      <3>1. ASSUME NEW i \in 0 .. n + 1
            PROVE  g[i] = IF i = 0 THEN 0 ELSE g[i - 1] + s[i].w
        <4>1. CASE i = n + 1
          <5>1. n + 1 - 1 = n /\ g[n] = f[n] /\ n + 1 # 0
            BY <1>1
          <5> QED BY <4>1, <5>1
        <4>2. CASE i \in 0 .. n /\ i # 0
          <5>1. g[i] = f[i] /\ i - 1 \in 0 .. n /\ g[i - 1] = f[i - 1]
            BY <1>1, <4>2
          <5> QED BY <2>1, <4>2, <5>1
        <4>3. CASE i = 0
          <5>1. g[0] = f[0]
            BY <1>1
          <5> QED BY <2>1, <4>3, <5>1
        <4> QED BY <4>1, <4>2, <4>3
      <3>2. g = [i \in 0 .. n + 1 |-> g[i]]
        OBVIOUS
      <3> HIDE DEF g
      <3> QED BY <3>1, <3>2
    <2> HIDE DEF g, Loop
    <2>3. n + 1 \in Nat
      BY <1>1
    <2> QED BY <2>2, <2>3
  <1>4. Len(s) \in Looped
    <2> HIDE DEF Looped
    <2>1. \A n \in 0 .. Len(s) : n \in Looped
      BY <1>1, <1>2, <1>3, IntervalInduction
    <2> QED BY <1>1, <2>1
  <1>5. Loop(sum, Len(s))
    <2> HIDE DEF Loop
    <2> QED BY <1>4
  <1>6. SumOf(s) = sum[Len(s)]
    BY DEF SumOf
  <1> HIDE DEF sum
  <1>7. sum[0] = 0 /\ \A n \in 0 .. Len(s) - 1 : sum[n + 1] = sum[n] + s[n + 1].w
    <2>0. \A i \in 0 .. Len(s) : sum[i] = IF i = 0 THEN 0 ELSE sum[i - 1] + s[i].w
      BY <1>5
    <2>1. ASSUME NEW n \in 0 .. Len(s) - 1 PROVE sum[n + 1] = sum[n] + s[n + 1].w
      <3>1. n + 1 \in 0 .. Len(s) /\ n + 1 # 0 /\ n + 1 - 1 = n
        BY <1>1
      <3> HIDE DEF Loop
      <3> QED BY <2>0, <3>1
    <2>2. 0 \in 0 .. Len(s)
      BY <1>1
    <2> QED BY <2>0, <2>1, <2>2
  <1> DEFINE Good == {n \in Nat : sum[n] \in Nat}
  <1>8. \A n \in 0 .. Len(s) : n \in Good
    <2>1. 0 \in Good
      BY <1>7
    <2>2. ASSUME NEW n \in 0 .. Len(s), n < Len(s), n \in Good PROVE n + 1 \in Good
      <3>1. n \in 0 .. Len(s) - 1 /\ n + 1 \in 1 .. Len(s) /\ n + 1 \in Nat
        BY <1>1, <2>2
      <3>2. sum[n + 1] = sum[n] + s[n + 1].w /\ s[n + 1].w \in Nat /\ sum[n] \in Nat
        BY <1>1, <1>7, <2>2, <3>1
      <3> QED BY <3>1, <3>2
    <2> HIDE DEF Good
    <2> QED BY <1>1, <2>1, <2>2, IntervalInduction
  <1> QED BY <1>6, <1>7, <1>8 DEF Sums

LEMMA SumsAgree ==
  ASSUME NEW s \in Seq(Admissions), NEW f, NEW g, Sums(f, s), Sums(g, s)
  PROVE  \A n \in 0 .. Len(s) : f[n] = g[n]
  <1> DEFINE Good == {n \in Nat : f[n] = g[n]}
  <1>1. Len(s) \in Nat
    BY AdmissionFacts
  <1>2. 0 \in Good
    BY DEF Sums
  <1>3. ASSUME NEW n \in 0 .. Len(s), n < Len(s), n \in Good PROVE n + 1 \in Good
    <2>1. n \in 0 .. Len(s) - 1 /\ n + 1 \in Nat
      BY <1>1, <1>3
    <2>2. f[n + 1] = f[n] + s[n + 1].w /\ g[n + 1] = g[n] + s[n + 1].w /\ f[n] = g[n]
      BY <1>3, <2>1 DEF Sums
    <2> QED BY <2>1, <2>2
  <1>4. \A n \in 0 .. Len(s) : n \in Good
    <2> HIDE DEF Good
    <2> QED BY <1>1, <1>2, <1>3, IntervalInduction
  <1> QED BY <1>4

LEMMA SumIsLast ==
  ASSUME NEW s \in Seq(Admissions), NEW f, Sums(f, s)
  PROVE  SumOf(s) = f[Len(s)] /\ SumOf(s) \in Nat
  <1>1. PICK g : Sums(g, s) /\ SumOf(s) = g[Len(s)]
    BY SumOfIs
  <1>2. Len(s) \in 0 .. Len(s)
    BY AdmissionFacts
  <1>3. f[Len(s)] = g[Len(s)]
    BY <1>1, <1>2, SumsAgree
  <1> QED BY <1>1, <1>2, <1>3 DEF Sums

LEMMA SumIsNatural == ASSUME NEW s \in Seq(Admissions) PROVE SumOf(s) \in Nat
  BY SumOfIs, SumIsLast

LEMMA SumSplits ==
  ASSUME NEW s \in Seq(Admissions), NEW m \in 0 .. Len(s)
  PROVE  SumOf(s) = SumOf(SubSeq(s, 1, m)) + SumOf(Suffix(s, m))
  <1>1. PICK f : Sums(f, s)
    BY SumOfIs
  <1>2. Len(s) \in Nat /\ \A i \in 1 .. Len(s) : s[i] \in Admissions
    BY AdmissionFacts
  <1> DEFINE a == SubSeq(s, 1, m)  b == Suffix(s, m)
  <1>3. a \in Seq(Admissions) /\ Len(a) = m /\ \A i \in 1 .. m : a[i] = s[i]
    BY <1>2
  <1>4. b \in Seq(Admissions) /\ Len(b) = Len(s) - m /\ \A i \in 1 .. Len(s) - m : b[i] = s[m + i]
    BY SuffixIs
  <1> HIDE DEF a, b
  <1>5. Sums(f, a)
    <2>1. \A n \in 0 .. m : f[n] \in Nat
      BY <1>1, <1>2 DEF Sums
    <2>2. ASSUME NEW n \in 0 .. m - 1 PROVE f[n + 1] = f[n] + a[n + 1].w
      <3>1. n \in 0 .. Len(s) - 1 /\ n + 1 \in 1 .. m
        BY <1>2
      <3> QED BY <1>1, <1>3, <3>1 DEF Sums
    <2> QED BY <1>1, <1>3, <2>1, <2>2 DEF Sums
  <1> DEFINE g == [n \in 0 .. Len(s) - m |-> f[m + n] - f[m]]
             Good == {n \in Nat : g[n] \in Nat}
  <1>6. f[m] \in Nat /\ \A n \in 0 .. Len(s) - m : f[m + n] \in Nat
    BY <1>1, <1>2 DEF Sums
  <1>7. g[0] = 0
    BY <1>2, <1>6
  <1>8. ASSUME NEW n \in 0 .. Len(s) - m - 1 PROVE g[n + 1] = g[n] + b[n + 1].w /\ b[n + 1].w \in Nat
    <2>1. n + 1 \in 0 .. Len(s) - m /\ n + 1 \in 1 .. Len(s) - m /\ n \in 0 .. Len(s) - m /\ m + n \in 0 .. Len(s) - 1
          /\ m + (n + 1) = (m + n) + 1
      BY <1>2
    <2> DEFINE i == m + n
    <2>2. f[i + 1] = f[i] + s[i + 1].w
      <3> HIDE DEF i
      <3> QED BY <1>1, <2>1 DEF Sums, i
    <2>3. b[n + 1] = s[i + 1]
      BY <1>4, <2>1
    <2>4. b[n + 1].w \in Nat
      BY <1>4, <2>1, AdmissionFacts
    <2>5. g[n] = f[i] - f[m] /\ g[n + 1] = f[i + 1] - f[m]
      BY <2>1
    <2>6. f[i] \in Nat
      BY <1>6, <2>1
    <2> HIDE DEF i, g
    <2>7. s[i + 1].w = b[n + 1].w
      BY <2>3
    <2>8. f[i + 1] = f[i] + b[n + 1].w
      BY <2>2, <2>7, Zenon
    <2> DEFINE cost == b[n + 1].w  here == f[i]  base == f[m]
    <2>9. g[n] = here - base /\ g[n + 1] = here + cost - base /\ {cost, here, base} \subseteq Nat
      BY <1>6, <2>4, <2>5, <2>6, <2>8
    <2> QED
      <3> HIDE DEF cost, here, base
      <3>1. g[n + 1] = g[n] + cost /\ cost \in Nat
        BY <2>9
      <3> QED BY <3>1 DEF cost
  <1> HIDE DEF g
  <1>9. \A n \in 0 .. Len(s) - m : n \in Good
    <2>1. 0 \in Good
      BY <1>7
    <2>2. ASSUME NEW n \in 0 .. Len(s) - m, n < Len(s) - m, n \in Good PROVE n + 1 \in Good
      <3>1. n \in 0 .. Len(s) - m - 1 /\ n + 1 \in Nat
        BY <1>2, <2>2
      <3> QED BY <1>8, <2>2, <3>1
    <2>3. Len(s) - m \in Nat
      BY <1>2
    <2> HIDE DEF Good
    <2> QED BY <2>1, <2>2, <2>3, IntervalInduction
  <1>10. Sums(g, b)
    BY <1>4, <1>7, <1>8, <1>9 DEF Sums
  <1>11. SumOf(a) = f[m] /\ SumOf(b) = g[Len(s) - m] /\ SumOf(s) = f[Len(s)]
    BY <1>1, <1>3, <1>4, <1>5, <1>10, SumIsLast
  <1>12. g[Len(s) - m] = f[Len(s)] - f[m] /\ f[Len(s)] \in Nat
    <2>1. Len(s) - m \in 0 .. Len(s) - m /\ m + (Len(s) - m) = Len(s)
      BY <1>2
    <2> QED BY <1>6, <2>1 DEF g
  <1> QED BY <1>6, <1>11, <1>12 DEF a, b

LEMMA SumOfAppend ==
  ASSUME NEW s \in Seq(Admissions), NEW e \in Admissions
  PROVE  SumOf(Append(s, e)) = SumOf(s) + e.w
  <1> DEFINE r == Append(s, e)
  <1>0. r \in Seq(Admissions)
    OBVIOUS
  <1>1. PICK f : Sums(f, r)
    <2> HIDE DEF r
    <2> QED BY <1>0, SumOfIs
  <1>2. Len(s) \in Nat /\ e.w \in Nat
    BY AdmissionFacts DEF Admissions
  <1>3. /\ r \in Seq(Admissions) /\ Len(r) = Len(s) + 1 /\ r[Len(s) + 1] = e
        /\ \A i \in 1 .. Len(s) : r[i] = s[i]
    BY <1>2
  <1> HIDE DEF r
  <1>4. Sums(f, s)
    <2>1. ASSUME NEW n \in 0 .. Len(s) - 1 PROVE f[n + 1] = f[n] + s[n + 1].w
      <3>1. n \in 0 .. Len(r) - 1 /\ n + 1 \in 1 .. Len(s)
        BY <1>2, <1>3
      <3> QED BY <1>1, <1>3, <3>1 DEF Sums
    <2>2. \A n \in 0 .. Len(s) : f[n] \in Nat
      BY <1>1, <1>2, <1>3 DEF Sums
    <2> QED BY <1>1, <2>1, <2>2 DEF Sums
  <1>5. f[Len(s) + 1] = f[Len(s)] + e.w
    <2>1. Len(s) \in 0 .. Len(r) - 1
      BY <1>2, <1>3
    <2> QED BY <1>1, <1>3, <2>1 DEF Sums
  <1>6. SumOf(r) = f[Len(s) + 1] /\ SumOf(s) = f[Len(s)]
    BY <1>1, <1>3, <1>4, SumIsLast
  <1> QED BY <1>5, <1>6 DEF r

LEMMA SumOfSameWeights ==
  ASSUME NEW s \in Seq(Admissions), NEW t \in Seq(Admissions), Len(s) = Len(t),
         \A i \in 1 .. Len(s) : s[i].w = t[i].w
  PROVE  SumOf(s) = SumOf(t)
  <1>1. PICK f : Sums(f, s)
    BY SumOfIs
  <1>2. Len(s) \in Nat
    BY AdmissionFacts
  <1>3. ASSUME NEW n \in 0 .. Len(t) - 1 PROVE f[n + 1] = f[n] + t[n + 1].w
    <2>1. n \in 0 .. Len(s) - 1 /\ n + 1 \in 1 .. Len(s)
      BY <1>2
    <2> QED BY <1>1, <2>1 DEF Sums
  <1>4. Sums(f, t)
    BY <1>1, <1>3 DEF Sums
  <1> QED BY <1>1, <1>4, SumIsLast

LEMMA SameSequence ==
  ASSUME NEW s \in Seq(Admissions), NEW t \in Seq(Admissions), Len(s) = Len(t),
         \A i \in 1 .. Len(s) : s[i] = t[i]
  PROVE  s = t
  BY SeqEqual

LEMMA SuffixOfSuffix ==
  ASSUME NEW s \in Seq(Admissions), NEW m \in 0 .. Len(s), NEW q \in 0 .. Len(s) - m
  PROVE  m + q \in 0 .. Len(s) /\ Suffix(Suffix(s, m), q) = Suffix(s, m + q)
  <1> DEFINE a == Suffix(s, m)  b == Suffix(a, q)  n == m + q  c == Suffix(s, n)
  <1>1. Len(s) \in Nat
    BY AdmissionFacts
  <1>2. a \in Seq(Admissions) /\ Len(a) = Len(s) - m /\ \A i \in 1 .. Len(s) - m : a[i] = s[m + i]
    BY SuffixIs
  <1>3. n \in 0 .. Len(s)
    BY <1>1
  <1> HIDE DEF a
  <1>4. b \in Seq(Admissions) /\ Len(b) = Len(a) - q /\ \A i \in 1 .. Len(a) - q : b[i] = a[q + i]
    BY <1>2, SuffixIs
  <1>5. c \in Seq(Admissions) /\ Len(c) = Len(s) - n /\ \A i \in 1 .. Len(s) - n : c[i] = s[n + i]
    <2> HIDE DEF n
    <2> QED BY <1>3, SuffixIs
  <1> HIDE DEF b, c
  <1>6. Len(b) = Len(c)
    BY <1>1, <1>2, <1>4, <1>5
  <1>7. ASSUME NEW i \in 1 .. Len(b) PROVE b[i] = c[i]
    <2>1. i \in 1 .. Len(a) - q /\ q + i \in 1 .. Len(s) - m /\ i \in 1 .. Len(s) - n /\ m + (q + i) = n + i
      BY <1>1, <1>2, <1>4
    <2> QED BY <1>2, <1>4, <1>5, <2>1
  <1>8. b = c
    BY <1>4, <1>5, <1>6, <1>7, SameSequence
  <1> QED BY <1>3, <1>8 DEF a, b, c

\* The later part of a sequence weighs no more than the whole.
LEMMA SuffixWeighsLess ==
  ASSUME NEW s \in Seq(Admissions), NEW x \in 0 .. Len(s), NEW m \in x .. Len(s)
  PROVE  SumOf(Suffix(s, m)) <= SumOf(Suffix(s, x))
  <1> DEFINE a == Suffix(s, x)  q == m - x
  <1>1. Len(s) \in Nat
    BY AdmissionFacts
  <1>2. a \in Seq(Admissions) /\ Len(a) = Len(s) - x
    BY SuffixIs
  <1>3. q \in 0 .. Len(s) - x /\ x + q = m
    BY <1>1
  <1> HIDE DEF a, q
  <1>4. Suffix(a, q) = Suffix(s, m)
    BY <1>3, SuffixOfSuffix DEF a
  <1>5. q \in 0 .. Len(a)
    BY <1>2, <1>3
  <1>6. SubSeq(a, 1, q) \in Seq(Admissions)
    <2>1. \A i \in 1 .. Len(a) : a[i] \in Admissions
      BY <1>2, AdmissionFacts
    <2> QED BY <1>2, <1>5, <2>1
  <1>7. SumOf(a) = SumOf(SubSeq(a, 1, q)) + SumOf(Suffix(a, q))
    BY <1>2, <1>5, SumSplits
  <1>8. SumOf(SubSeq(a, 1, q)) \in Nat /\ SumOf(Suffix(a, q)) \in Nat
    BY <1>2, <1>5, <1>6, SumIsNatural, SuffixIs
  <1> QED BY <1>4, <1>7, <1>8 DEF a

\* Admissions are kept in the order they were made, so the oldest come first.
Ordered(s) == \A i \in 1 .. Len(s) : \A j \in i .. Len(s) : s[j].age <= s[i].age

LEMMA SuffixIsOrdered ==
  ASSUME NEW s \in Seq(Admissions), Ordered(s), NEW m \in 0 .. Len(s)
  PROVE  Ordered(Suffix(s, m))
  <1> DEFINE a == Suffix(s, m)
  <1>1. Len(s) \in Nat
    BY AdmissionFacts
  <1>2. Len(a) = Len(s) - m /\ \A i \in 1 .. Len(s) - m : a[i] = s[m + i]
    BY SuffixIs
  <1> HIDE DEF a
  <1>3. ASSUME NEW i \in 1 .. Len(a), NEW j \in i .. Len(a) PROVE a[j].age <= a[i].age
    <2>1. m + i \in 1 .. Len(s) /\ m + j \in m + i .. Len(s) /\ a[i] = s[m + i] /\ a[j] = s[m + j]
      BY <1>1, <1>2
    <2>2. s[m + j].age <= s[m + i].age
      BY <2>1 DEF Ordered
    <2> QED BY <2>1, <2>2
  <1> QED BY <1>3 DEF Ordered, a

LEMMA NoOlderIs ==
  ASSUME NEW s \in Seq(Admissions), Ordered(s), NEW age \in Nat
  PROVE  \E p \in 0 .. Len(s) :
           /\ NoOlder(age, s) = Suffix(s, p)
           /\ \A i \in 1 .. p : s[i].age > age
           /\ \A i \in p + 1 .. Len(s) : s[i].age <= age
  <1> DEFINE young == {i \in 1 .. Len(s) : s[i].age <= age}
  <1>1. /\ Len(s) \in Nat /\ DOMAIN s = 1 .. Len(s)
        /\ \A i \in 1 .. Len(s) : s[i].age \in Nat
    BY AdmissionFacts
  <1>2. NoOlder(age, s) = IF young = {} THEN <<>> ELSE SubSeq(s, Min(young), Len(s))
    BY <1>1 DEF NoOlder
  <1>3. CASE young = {}
    <2>1. Suffix(s, Len(s)) = <<>>
      BY <1>1 DEF Suffix
    <2>2. \A i \in 1 .. Len(s) : s[i].age > age
      BY <1>1, <1>3
    <2> QED BY <1>1, <1>2, <1>3, <2>1, <2>2
  <1>4. CASE young # {}
    <2> DEFINE x == Min(young)
    <2>1. x \in young /\ \A y \in young : x <= y
      <3>1. young \in SUBSET Nat
        OBVIOUS
      <3>2. PICK n \in young : \A y \in young : n <= y
        <4> HIDE DEF young
        <4> QED BY <1>4, <3>1, LeastNatural
      <3> HIDE DEF young
      <3> QED BY <3>2 DEF Min
    <2> HIDE DEF x
    <2>2. x \in 1 .. Len(s) /\ s[x].age <= age
      BY <2>1
    <2>3. x - 1 \in 0 .. Len(s) /\ x - 1 + 1 = x
      BY <1>1, <2>2
    <2>4. NoOlder(age, s) = Suffix(s, x - 1)
      BY <1>2, <1>4, <2>3 DEF Suffix, x
    <2>5. ASSUME NEW i \in 1 .. x - 1 PROVE s[i].age > age
      <3>1. i \in 1 .. Len(s) /\ ~(x <= i)
        BY <1>1, <2>2
      <3> QED BY <1>1, <2>1, <3>1
    <2>6. ASSUME NEW i \in x .. Len(s) PROVE s[i].age <= age
      <3>1. s[i].age <= s[x].age /\ i \in 1 .. Len(s)
        BY <1>1, <2>2 DEF Ordered
      <3> QED BY <1>1, <2>2, <3>1
    <2> QED BY <2>3, <2>4, <2>5, <2>6
  <1> QED BY <1>3, <1>4

\* One window: what its last period granted is the young end of what it remembers.
YoungEnd(period, events, m) ==
  /\ m \in 0 .. Len(events)
  /\ \A i \in 1 .. m : events[i].age >= period
  /\ \A i \in m + 1 .. Len(events) : events[i].age < period

Window(k, events, grants) ==
  /\ events \in Seq(Admissions) /\ Ordered(events)
  /\ \E m \in 0 .. Len(events) :
       YoungEnd(LimWindows[k].period, events, m) /\ grants = Suffix(events, m)
  /\ SumOf(grants) <= LimWindows[k].limit

LEMMA WindowFacts ==
  ASSUME NEW k \in Keys
  PROVE  /\ LimWindows[k].limit \in Nat /\ LimWindows[k].limit > 0
         /\ LimWindows[k].period \in Nat /\ LimWindows[k].period > 0
  BY LimAssumption

LEMMA PruneKeepsWindow ==
  ASSUME NEW k \in Keys, NEW events, NEW grants, Window(k, events, grants)
  PROVE  Window(k, Prune(k, events), grants)
  <1> DEFINE period == LimWindows[k].period
  <1>1. events \in Seq(Admissions) /\ Ordered(events) /\ SumOf(grants) <= LimWindows[k].limit
    BY DEF Window
  <1>2. PICK m \in 0 .. Len(events) : YoungEnd(period, events, m) /\ grants = Suffix(events, m)
    BY DEF Window
  <1>3. period \in Nat
    BY WindowFacts
  <1> HIDE DEF period
  <1>4. PICK p \in 0 .. Len(events) :
          /\ NoOlder(period, events) = Suffix(events, p)
          /\ \A i \in 1 .. p : events[i].age > period
          /\ \A i \in p + 1 .. Len(events) : events[i].age <= period
    BY <1>1, <1>3, NoOlderIs
  <1>5. Len(events) \in Nat /\ \A i \in 1 .. Len(events) : events[i].age \in Nat
    BY <1>1, AdmissionFacts
  <1>6. p <= m
    <2> SUFFICES ASSUME p > m PROVE FALSE
      BY <1>5
    <2>1. p \in m + 1 .. Len(events) /\ p \in 1 .. p /\ p \in 1 .. Len(events)
      BY <1>5
    <2>2. events[p].age < period /\ events[p].age > period /\ events[p].age \in Nat
      BY <1>2, <1>4, <1>5, <2>1 DEF YoungEnd
    <2> QED BY <1>3, <2>2
  <1> DEFINE kept == Suffix(events, p)  q == m - p
  <1>7. /\ kept \in Seq(Admissions) /\ Len(kept) = Len(events) - p
        /\ \A i \in 1 .. Len(events) - p : kept[i] = events[p + i]
    BY <1>1, SuffixIs
  <1>8. Ordered(kept)
    BY <1>1, SuffixIsOrdered
  <1>9. q \in 0 .. Len(events) - p /\ p + q = m
    BY <1>5, <1>6
  <1> HIDE DEF kept, q
  <1>10. grants = Suffix(kept, q)
    BY <1>1, <1>2, <1>9, SuffixOfSuffix DEF kept
  <1>11. YoungEnd(period, kept, q)
    <2>1. ASSUME NEW i \in 1 .. q PROVE kept[i].age >= period
      <3>1. p + i \in 1 .. m /\ i \in 1 .. Len(events) - p
        BY <1>5, <1>9
      <3> QED BY <1>2, <1>7, <3>1 DEF YoungEnd
    <2>2. ASSUME NEW i \in q + 1 .. Len(kept) PROVE kept[i].age < period
      <3>1. p + i \in m + 1 .. Len(events) /\ i \in 1 .. Len(events) - p
        BY <1>5, <1>7, <1>9
      <3> QED BY <1>2, <1>7, <3>1 DEF YoungEnd
    <2> QED BY <1>7, <1>9, <2>1, <2>2 DEF YoungEnd
  <1>12. Prune(k, events) = kept
    BY <1>4 DEF Prune, kept, period
  <1> QED BY <1>1, <1>7, <1>8, <1>9, <1>10, <1>11, <1>12 DEF Window, period

LEMMA GrantFitsWindow ==
  ASSUME NEW k \in Keys, NEW events, NEW grants, Window(k, events, grants),
         NEW w \in Nat, TimeUntilAvailable(k, events, w) = 0
  PROVE  SumOf(grants) + w <= LimWindows[k].limit
  <1> DEFINE period == LimWindows[k].period  limit == LimWindows[k].limit
             frees == {i \in 1 .. Len(events) : SumOf(SubSeq(events, 1, i)) >= SumOf(events) + w - limit}
  <1>1. events \in Seq(Admissions) /\ Ordered(events)
    BY DEF Window
  <1>2. PICK m \in 0 .. Len(events) : YoungEnd(period, events, m) /\ grants = Suffix(events, m)
    BY DEF Window
  <1>3. period \in Nat /\ period > 0 /\ limit \in Nat
    BY WindowFacts
  <1>4. /\ Len(events) \in Nat /\ DOMAIN events = 1 .. Len(events)
        /\ \A i \in 1 .. Len(events) : events[i] \in Admissions /\ events[i].age \in Nat
    BY <1>1, AdmissionFacts
  <1>5. ASSUME NEW n \in 0 .. Len(events)
        PROVE  /\ SumOf(events) = SumOf(SubSeq(events, 1, n)) + SumOf(Suffix(events, n))
               /\ SumOf(events) \in Nat /\ SumOf(SubSeq(events, 1, n)) \in Nat /\ SumOf(Suffix(events, n)) \in Nat
    <2>1. SubSeq(events, 1, n) \in Seq(Admissions)
      BY <1>1, <1>4
    <2>2. Suffix(events, n) \in Seq(Admissions)
      BY <1>1, SuffixIs
    <2> QED BY <1>1, <2>1, <2>2, SumSplits, SumIsNatural
  <1>6. CASE SumOf(events) + w <= limit
    BY <1>2, <1>3, <1>5, <1>6
  <1>7. CASE ~(SumOf(events) + w <= limit)
    <2>1. TimeUntilAvailable(k, events, w)
            = IF frees = {} THEN period ELSE Max({0, period - events[Min(frees)].age})
      BY <1>4, <1>7 DEF TimeUntilAvailable
    <2>2. frees # {}
      BY <1>3, <2>1
    <2> DEFINE x == Min(frees)
    <2>3. x \in frees
      <3>1. frees \in SUBSET Nat
        OBVIOUS
      <3> HIDE DEF frees
      <3>2. PICK n \in frees : \A y \in frees : n <= y
        BY <2>2, <3>1, LeastNatural
      <3> QED BY <3>2 DEF Min
    <2>4. Max({0, period - events[x].age}) = 0
      BY <2>1, <2>2
    <2> HIDE DEF x
    <2>5. x \in 1 .. Len(events) /\ SumOf(SubSeq(events, 1, x)) >= SumOf(events) + w - limit
      BY <2>3
    <2>6. events[x].age >= period
      <3> DEFINE T == {0, period - events[x].age}
      <3>0. events[x].age \in Nat
        BY <1>4, <2>5
      <3>1. T \in SUBSET Int /\ T # {} /\ \A y \in T : y <= period
        BY <1>3, <3>0
      <3>2. period \in Int
        BY <1>3
      <3> HIDE DEF T
      <3>3. \A y \in T : y <= Max(T)
        BY <3>1, <3>2, MaxIsIn
      <3>4. period - events[x].age <= 0
        BY <2>4, <3>3 DEF T
      <3> QED BY <1>3, <3>0, <3>4
    <2>7. x <= m
      <3> SUFFICES ASSUME x > m PROVE FALSE
        BY <2>5
      <3>1. x \in m + 1 .. Len(events) /\ events[x].age \in Nat
        BY <1>4, <2>5
      <3>2. events[x].age < period
        BY <1>2, <3>1 DEF YoungEnd
      <3> QED BY <1>3, <2>6, <3>1, <3>2
    <2>8. x \in 0 .. Len(events) /\ m \in x .. Len(events)
      BY <1>4, <2>5, <2>7
    <2>9. SumOf(grants) <= SumOf(Suffix(events, x))
      BY <1>1, <1>2, <2>8, SuffixWeighsLess
    <2>10. SumOf(grants) \in Nat
      BY <1>2, <1>5
    <2> HIDE DEF limit
    <2>11. SumOf(Suffix(events, x)) + w <= limit
      BY <1>3, <1>5, <2>5, <2>8
    <2>12. SumOf(Suffix(events, x)) \in Nat
      BY <1>5, <2>8
    <2>13. SumOf(grants) + w <= limit
      BY <1>3, <2>9, <2>10, <2>11, <2>12
    <2> QED BY <2>13 DEF limit
  <1> QED BY <1>6, <1>7

LEMMA GrantKeepsWindow ==
  ASSUME NEW k \in Keys, NEW events, NEW grants, Window(k, events, grants),
         NEW w \in Nat, SumOf(grants) + w <= LimWindows[k].limit
  PROVE  Window(k, Append(events, [age |-> 0, w |-> w]), Append(grants, [age |-> 0, w |-> w]))
  <1> DEFINE period == LimWindows[k].period  e == [age |-> 0, w |-> w]  more == Append(events, e)
  <1>1. events \in Seq(Admissions) /\ Ordered(events)
    BY DEF Window
  <1>2. PICK m \in 0 .. Len(events) : YoungEnd(period, events, m) /\ grants = Suffix(events, m)
    BY DEF Window
  <1>3. period \in Nat /\ period > 0
    BY WindowFacts
  <1>4. Len(events) \in Nat /\ \A i \in 1 .. Len(events) : events[i].age \in Nat
    BY <1>1, AdmissionFacts
  <1>5. e \in Admissions /\ e.age = 0 /\ e.w = w
    BY DEF Admissions
  <1>6. /\ grants \in Seq(Admissions) /\ Len(grants) = Len(events) - m
        /\ \A i \in 1 .. Len(events) - m : grants[i] = events[m + i]
    BY <1>1, <1>2, SuffixIs
  <1> HIDE DEF e
  <1>7. /\ more \in Seq(Admissions) /\ Len(more) = Len(events) + 1 /\ more[Len(events) + 1] = e
        /\ \A i \in 1 .. Len(events) : more[i] = events[i]
    BY <1>1, <1>4, <1>5
  <1> HIDE DEF more
  <1>8. Ordered(more)
    <2>1. ASSUME NEW i \in 1 .. Len(more), NEW j \in i .. Len(more) PROVE more[j].age <= more[i].age
      <3>1. CASE j = Len(events) + 1
        <4>1. more[j].age = 0
          BY <1>5, <1>7, <3>1
        <4>2. more[i].age \in Nat
          BY <1>7, AdmissionFacts
        <4> QED BY <4>1, <4>2
      <3>2. CASE j # Len(events) + 1
        <4>1. i \in 1 .. Len(events) /\ j \in i .. Len(events) /\ j \in 1 .. Len(events)
          BY <1>4, <1>7, <3>2
        <4>2. events[j].age <= events[i].age
          BY <1>1, <4>1 DEF Ordered
        <4> QED BY <1>7, <4>1, <4>2
      <3> QED BY <3>1, <3>2
    <2> QED BY <2>1 DEF Ordered
  <1>9. YoungEnd(period, more, m)
    <2>1. m \in 0 .. Len(more)
      BY <1>4, <1>7
    <2>2. ASSUME NEW i \in 1 .. m PROVE more[i].age >= period
      BY <1>2, <1>4, <1>7 DEF YoungEnd
    <2>3. ASSUME NEW i \in m + 1 .. Len(more) PROVE more[i].age < period
      <3>1. CASE i = Len(events) + 1
        BY <1>3, <1>5, <1>7, <3>1
      <3>2. CASE i # Len(events) + 1
        <4>1. i \in m + 1 .. Len(events) /\ i \in 1 .. Len(events)
          BY <1>4, <1>7, <3>2
        <4> QED BY <1>2, <1>7, <4>1 DEF YoungEnd
      <3> QED BY <3>1, <3>2
    <2> QED BY <2>1, <2>2, <2>3 DEF YoungEnd
  <1> DEFINE granted == Append(grants, e)  end == Suffix(more, m)
  <1>10. /\ granted \in Seq(Admissions) /\ Len(granted) = Len(grants) + 1 /\ granted[Len(grants) + 1] = e
         /\ \A i \in 1 .. Len(grants) : granted[i] = grants[i]
    BY <1>4, <1>5, <1>6
  <1>11. m \in 0 .. Len(more)
    BY <1>4, <1>7
  <1>12. end \in Seq(Admissions) /\ Len(end) = Len(more) - m /\ \A i \in 1 .. Len(more) - m : end[i] = more[m + i]
    BY <1>7, <1>11, SuffixIs
  <1>13. SumOf(granted) = SumOf(grants) + w
    BY <1>5, <1>6, SumOfAppend
  <1> HIDE DEF granted, end
  <1>14. granted = end
    <2>1. Len(granted) = Len(end)
      BY <1>4, <1>6, <1>7, <1>10, <1>12
    <2>2. ASSUME NEW i \in 1 .. Len(granted) PROVE granted[i] = end[i]
      <3>1. i \in 1 .. Len(more) - m
        BY <1>4, <1>6, <1>7, <1>10
      <3>2. CASE i = Len(grants) + 1
        <4>1. m + i = Len(events) + 1
          BY <1>4, <1>6, <3>2
        <4> QED BY <1>7, <1>10, <1>12, <3>1, <3>2, <4>1
      <3>3. CASE i # Len(grants) + 1
        <4>1. i \in 1 .. Len(grants) /\ m + i \in 1 .. Len(events) /\ i \in 1 .. Len(events) - m
          BY <1>4, <1>6, <1>10, <3>3
        <4> QED BY <1>6, <1>7, <1>10, <1>12, <3>1, <4>1
      <3> QED BY <3>2, <3>3
    <2> QED BY <1>10, <1>12, <2>1, <2>2, SameSequence
  <1>15. Window(k, more, granted)
    <2>1. \E n \in 0 .. Len(more) : YoungEnd(period, more, n) /\ granted = Suffix(more, n)
      BY <1>9, <1>11, <1>14 DEF end
    <2> QED BY <1>7, <1>8, <1>13, <2>1 DEF Window
  <1> QED BY <1>15 DEF more, granted, e

LEMMA OlderIs ==
  ASSUME NEW k \in Keys, NEW s \in Seq(Admissions)
  PROVE  /\ Older(k, s) \in Seq(Admissions) /\ Len(Older(k, s)) = Len(s)
         /\ \A i \in 1 .. Len(s) :
              /\ Older(k, s)[i].w = s[i].w
              /\ Older(k, s)[i].age = IF s[i].age <= LimWindows[k].period THEN s[i].age + 1
                                     ELSE LimWindows[k].period + 1
  <1> DEFINE period == LimWindows[k].period
  <1>1. Len(s) \in Nat /\ DOMAIN s = 1 .. Len(s) /\ \A i \in 1 .. Len(s) : s[i] \in Admissions
    BY AdmissionFacts
  <1>2. period \in Nat
    BY WindowFacts
  <1> HIDE DEF period
  <1>3. Older(k, s) = [i \in 1 .. Len(s) |-> [s[i] EXCEPT !.age = Min({@ + 1, period + 1})]]
    BY <1>1 DEF Older, period
  <1>4. ASSUME NEW i \in 1 .. Len(s)
        PROVE  /\ [s[i] EXCEPT !.age = Min({@ + 1, period + 1})] \in Admissions
               /\ [s[i] EXCEPT !.age = Min({@ + 1, period + 1})].w = s[i].w
               /\ [s[i] EXCEPT !.age = Min({@ + 1, period + 1})].age
                    = IF s[i].age <= period THEN s[i].age + 1 ELSE period + 1
    <2> DEFINE least == Min({s[i].age + 1, period + 1})
    <2>1. s[i] \in Admissions /\ s[i].age \in Nat
      BY <1>1 DEF Admissions
    <2>2. least = IF s[i].age <= period THEN s[i].age + 1 ELSE period + 1
      BY <1>2, <2>1 DEF Min
    <2>3. least \in Nat
      BY <1>2, <2>1, <2>2
    <2> HIDE DEF least
    <2>4. [s[i] EXCEPT !.age = least] \in Admissions /\ [s[i] EXCEPT !.age = least].w = s[i].w
          /\ [s[i] EXCEPT !.age = least].age = least
      BY <2>1, <2>3 DEF Admissions
    <2> QED BY <2>2, <2>4 DEF least
  <1> DEFINE step(i) == [s[i] EXCEPT !.age = Min({@ + 1, period + 1})]
  <1>5. \A i \in 1 .. Len(s) : step(i) \in Admissions
    BY <1>4
  <1>6. Older(k, s) = [i \in 1 .. Len(s) |-> step(i)]
    BY <1>3
  <1> HIDE DEF step
  <1>7. /\ Older(k, s) \in Seq(Admissions) /\ Len(Older(k, s)) = Len(s)
        /\ \A i \in 1 .. Len(s) : Older(k, s)[i] = step(i)
    <2>1. [i \in 1 .. Len(s) |-> step(i)] \in Seq(Admissions)
      BY <1>1, <1>5, IsASeq
    <2>2. Len(Older(k, s)) = Len(s)
      BY <1>1, <1>6, <2>1, LenProperties
    <2> QED BY <1>6, <2>1, <2>2
  <1> QED BY <1>4, <1>7 DEF step, period

LEMMA TickKeepsWindow ==
  ASSUME NEW k \in Keys, NEW events, NEW grants, Window(k, events, grants)
  PROVE  Window(k, Older(k, events), NoOlder(LimWindows[k].period - 1, Older(k, grants)))
  <1> DEFINE period == LimWindows[k].period  late == Older(k, events)  aged == Older(k, grants)
  <1>1. events \in Seq(Admissions) /\ Ordered(events) /\ SumOf(grants) <= LimWindows[k].limit
    BY DEF Window
  <1>2. PICK m \in 0 .. Len(events) : YoungEnd(period, events, m) /\ grants = Suffix(events, m)
    BY DEF Window
  <1>3. period \in Nat /\ period > 0 /\ period - 1 \in Nat
    BY WindowFacts
  <1>4. Len(events) \in Nat /\ \A i \in 1 .. Len(events) : events[i] \in Admissions /\ events[i].age \in Nat
    BY <1>1, AdmissionFacts
  <1>5. /\ grants \in Seq(Admissions) /\ Len(grants) = Len(events) - m
        /\ \A i \in 1 .. Len(events) - m : grants[i] = events[m + i]
    BY <1>1, <1>2, SuffixIs
  <1>6. /\ late \in Seq(Admissions) /\ Len(late) = Len(events)
        /\ \A i \in 1 .. Len(events) :
             /\ late[i].w = events[i].w
             /\ late[i].age = IF events[i].age <= period THEN events[i].age + 1 ELSE period + 1
    BY <1>1, OlderIs
  <1>7. /\ aged \in Seq(Admissions) /\ Len(aged) = Len(grants)
        /\ \A i \in 1 .. Len(grants) :
             /\ aged[i].w = grants[i].w
             /\ aged[i].age = IF grants[i].age <= period THEN grants[i].age + 1 ELSE period + 1
    BY <1>5, OlderIs
  <1> HIDE DEF late, aged, period
  <1>8. Ordered(late)
    <2>1. ASSUME NEW i \in 1 .. Len(late), NEW j \in i .. Len(late) PROVE late[j].age <= late[i].age
      <3>1. i \in 1 .. Len(events) /\ j \in i .. Len(events) /\ j \in 1 .. Len(events)
        BY <1>4, <1>6
      <3>2. events[j].age <= events[i].age /\ events[j].age \in Nat /\ events[i].age \in Nat
        BY <1>1, <1>4, <3>1 DEF Ordered
      <3> QED BY <1>3, <1>6, <3>1, <3>2
    <2> QED BY <2>1 DEF Ordered
  <1>9. m \in 0 .. Len(late)
    BY <1>6
  <1>10. aged = Suffix(late, m)
    <2> DEFINE end == Suffix(late, m)
    <2>1. end \in Seq(Admissions) /\ Len(end) = Len(late) - m /\ \A i \in 1 .. Len(late) - m : end[i] = late[m + i]
      BY <1>6, <1>9, SuffixIs
    <2> HIDE DEF end
    <2>2. Len(aged) = Len(end)
      BY <1>5, <1>6, <1>7, <2>1
    <2>3. ASSUME NEW i \in 1 .. Len(aged) PROVE aged[i] = end[i]
      <3>1. i \in 1 .. Len(events) - m /\ i \in 1 .. Len(grants) /\ i \in 1 .. Len(late) - m
            /\ m + i \in 1 .. Len(late) /\ m + i \in 1 .. Len(events)
        BY <1>4, <1>5, <1>6, <1>7
      <3>2. aged[i].w = late[m + i].w /\ aged[i].age = late[m + i].age
        <4>1. grants[i] = events[m + i]
          BY <1>5, <3>1
        <4> QED BY <1>6, <1>7, <3>1, <4>1
      <3>3. aged[i] \in Admissions /\ late[m + i] \in Admissions
        BY <1>6, <1>7, <3>1, AdmissionFacts
      <3>4. aged[i] = late[m + i]
        BY <3>2, <3>3 DEF Admissions
      <3> QED BY <2>1, <3>1, <3>4
    <2>4. aged = end
      BY <1>7, <2>1, <2>2, <2>3, SameSequence
    <2> QED BY <2>4 DEF end
  <1>11. Ordered(aged)
    BY <1>6, <1>8, <1>9, <1>10, SuffixIsOrdered
  <1>12. PICK q \in 0 .. Len(aged) :
          /\ NoOlder(period - 1, aged) = Suffix(aged, q)
          /\ \A i \in 1 .. q : aged[i].age > period - 1
          /\ \A i \in q + 1 .. Len(aged) : aged[i].age <= period - 1
    <2> DEFINE a == period - 1
    <2>1. a \in Nat
      BY <1>3
    <2> HIDE DEF a
    <2>2. \E q \in 0 .. Len(aged) :
          /\ NoOlder(a, aged) = Suffix(aged, q)
          /\ \A i \in 1 .. q : aged[i].age > a
          /\ \A i \in q + 1 .. Len(aged) : aged[i].age <= a
      BY <1>7, <1>11, <2>1, NoOlderIs
    <2> QED BY <2>2 DEF a
  <1> DEFINE left == NoOlder(period - 1, aged)  n == m + q
  <1>13. Len(aged) = Len(late) - m /\ \A i \in 1 .. Len(late) - m : aged[i] = late[m + i]
    BY <1>6, <1>9, <1>10, SuffixIs
  <1>14. n \in 0 .. Len(late) /\ left = Suffix(late, n)
    BY <1>6, <1>9, <1>10, <1>12, <1>13, SuffixOfSuffix
  <1> HIDE DEF left
  <1>15. YoungEnd(period, late, n)
    <2>1. ASSUME NEW i \in 1 .. n PROVE late[i].age >= period
      <3>1. CASE i \in 1 .. m
        <4>1. events[i].age >= period /\ i \in 1 .. Len(events) /\ events[i].age \in Nat
          BY <1>2, <1>4, <3>1 DEF YoungEnd
        <4> QED BY <1>3, <1>6, <4>1
      <3>2. CASE i \notin 1 .. m
        <4> DEFINE j == i - m
        <4>1. j \in 1 .. q /\ j \in 1 .. Len(late) - m /\ m + j = i /\ i \in 1 .. Len(late)
          BY <1>4, <1>6, <1>13, <3>2
        <4>2. late[i].age > period - 1 /\ late[i].age \in Nat
          <5> HIDE DEF j
          <5>1. aged[j].age > period - 1 /\ aged[j] = late[i]
            BY <1>12, <1>13, <4>1
          <5> QED BY <1>6, <4>1, <5>1, AdmissionFacts
        <4> QED BY <1>3, <4>2
      <3> QED BY <3>1, <3>2
    <2>2. ASSUME NEW i \in n + 1 .. Len(late) PROVE late[i].age < period
      <3> DEFINE j == i - m
      <3>1. j \in q + 1 .. Len(aged) /\ j \in 1 .. Len(late) - m /\ m + j = i /\ i \in 1 .. Len(late)
        BY <1>4, <1>6, <1>13
      <3>2. late[i].age <= period - 1 /\ late[i].age \in Nat
        <4> HIDE DEF j
        <4>1. aged[j].age <= period - 1 /\ aged[j] = late[i]
          BY <1>12, <1>13, <3>1
        <4> QED BY <1>6, <3>1, <4>1, AdmissionFacts
      <3> QED BY <1>3, <3>2
    <2> QED BY <1>14, <2>1, <2>2 DEF YoungEnd
  <1>16. SumOf(left) <= LimWindows[k].limit
    <2>1. SumOf(aged) = SumOf(grants)
      BY <1>5, <1>7, SumOfSameWeights
    <2>2. aged = Suffix(aged, 0)
      <3>1. Suffix(aged, 0) \in Seq(Admissions) /\ Len(Suffix(aged, 0)) = Len(aged) - 0
            /\ \A i \in 1 .. Len(aged) - 0 : Suffix(aged, 0)[i] = aged[0 + i]
        <4>1. 0 \in 0 .. Len(aged)
          BY <1>7, AdmissionFacts
        <4> QED BY <1>7, <4>1, SuffixIs
      <3>2. Len(aged) \in Nat
        BY <1>7, AdmissionFacts
      <3>3. Len(Suffix(aged, 0)) = Len(aged) /\ \A i \in 1 .. Len(aged) : aged[i] = Suffix(aged, 0)[i]
        BY <3>1, <3>2
      <3> QED BY <1>7, <3>1, <3>3, SameSequence
    <2>3. 0 \in 0 .. Len(aged) /\ q \in 0 .. Len(aged)
      BY <1>7, <1>12, AdmissionFacts
    <2>4. SumOf(Suffix(aged, q)) <= SumOf(Suffix(aged, 0))
      BY <1>7, <2>3, SuffixWeighsLess
    <2>5. SumOf(Suffix(aged, q)) \in Nat /\ SumOf(aged) \in Nat
      BY <1>7, <2>3, SuffixIs, SumIsNatural
    <2>6. LimWindows[k].limit \in Nat
      BY WindowFacts
    <2>7. SumOf(left) <= SumOf(grants)
      BY <1>12, <2>1, <2>2, <2>4 DEF left
    <2> QED BY <1>1, <1>12, <2>1, <2>5, <2>6, <2>7 DEF left
  <1>17. \E x \in 0 .. Len(late) : YoungEnd(period, late, x) /\ left = Suffix(late, x)
    BY <1>14, <1>15
  <1>18. Window(k, late, left)
    BY <1>6, <1>8, <1>16, <1>17 DEF Window, period
  <1> QED BY <1>18 DEF late, left, aged, period

\* The limiter: its windows, and what is waited with.
LimInv ==
  /\ limQueue \in Seq(LimCallers)
  /\ limAsk \in [LimCallers -> LimRequests \cup {<<>>}]
  /\ DOMAIN limEvents = Keys /\ DOMAIN limGrants = Keys
  /\ \A k \in Keys : Window(k, limEvents[k], limGrants[k])

LEMMA WeightIsNatural ==
  ASSUME NEW r \in LimRequests \cup {<<>>}, NEW k \in Keys PROVE Weight(r, k) \in Nat
  <1>1. CASE r \in LimRequests
    BY <1>1, LimAssumption DEF Weight
  <1>2. CASE r = <<>>
    BY <1>2 DEF Weight
  <1> QED BY <1>1, <1>2

LEMMA WindowStartsEmpty == ASSUME NEW k \in Keys PROVE Window(k, <<>>, <<>>)
  <1>1. <<>> \in Seq(Admissions) /\ Len(<<>>) = 0
    OBVIOUS
  <1>2. Ordered(<<>>)
    BY <1>1 DEF Ordered
  <1>3. YoungEnd(LimWindows[k].period, <<>>, 0) /\ <<>> = Suffix(<<>>, 0) /\ 0 \in 0 .. Len(<<>>)
    BY <1>1 DEF YoungEnd, Suffix
  <1>4. SumOf(<<>>) = 0
    <2>1. PICK f : Sums(f, <<>>) /\ SumOf(<<>>) = f[Len(<<>>)]
      BY <1>1, SumOfIs
    <2> QED BY <1>1, <2>1 DEF Sums
  <1>5. SumOf(<<>>) <= LimWindows[k].limit
    BY <1>4, WindowFacts
  <1> QED BY <1>1, <1>2, <1>3, <1>5 DEF Window

LEMMA LimiterStarts == LimInit => LimInv
  <1> SUFFICES ASSUME LimInit PROVE LimInv
    OBVIOUS
  <1>1. \A k \in Keys : limEvents[k] = <<>> /\ limGrants[k] = <<>>
    BY DEF LimInit
  <1>2. \A k \in Keys : Window(k, limEvents[k], limGrants[k])
    BY <1>1, WindowStartsEmpty
  <1> QED BY <1>2 DEF LimInit, LimInv

LEMMA LimiterSteps == LimInv /\ [LimNext]_limVars => LimInv'
  <1> SUFFICES ASSUME LimInv, [LimNext]_limVars PROVE LimInv'
    OBVIOUS
  <1>1. /\ limQueue \in Seq(LimCallers)
        /\ limAsk \in [LimCallers -> LimRequests \cup {<<>>}]
        /\ DOMAIN limEvents = Keys /\ DOMAIN limGrants = Keys
        /\ \A k \in Keys : Window(k, limEvents[k], limGrants[k])
    BY DEF LimInv
  <1>2. ASSUME NEW c \in LimCallers, GiveUp(c) PROVE LimInv'
    <2>1. PICK i \in DOMAIN limQueue : limQueue' = RemoveAt(limQueue, i)
      BY <1>2 DEF GiveUp
    <2>2. Len(limQueue) \in Nat /\ i \in 1 .. Len(limQueue) /\ \A n \in 1 .. Len(limQueue) : limQueue[n] \in LimCallers
      BY <1>1, <2>1
    <2>3. SubSeq(limQueue, 1, i - 1) \in Seq(LimCallers) /\ SubSeq(limQueue, i + 1, Len(limQueue)) \in Seq(LimCallers)
      BY <1>1, <2>2
    <2>4. limQueue' \in Seq(LimCallers)
      BY <2>1, <2>3 DEF RemoveAt
    <2> QED BY <1>1, <1>2, <2>4 DEF GiveUp, LimInv
  <1>3. ASSUME NEW c \in LimCallers, NEW r \in LimRequests, Acquire(c, r) PROVE LimInv'
    <2>1. limQueue' \in Seq(LimCallers) /\ limAsk' \in [LimCallers -> LimRequests \cup {<<>>}]
      BY <1>1, <1>3 DEF Acquire
    <2> QED BY <1>1, <1>3, <2>1 DEF Acquire, LimInv
  <1>4. ASSUME HolderStep PROVE LimInv'
    <2>1. CASE limBlocked > 0
      BY <1>1, <1>4, <2>1 DEF HolderStep, LimInv
    <2>2. CASE ~(limBlocked > 0)
      <3> DEFINE kept == [k \in Keys |-> Prune(k, limEvents[k])]
                 r == limAsk[Head(limQueue)]
                 delays == [k \in Keys |-> TimeUntilAvailable(k, kept[k], Weight(r, k))]
                 entry(k) == [age |-> 0, w |-> Weight(r, k)]
      <3>1. \A k \in Keys : Window(k, kept[k], limGrants[k])
        BY <1>1, PruneKeepsWindow
      <3>2. limQueue # <<>> /\ r \in LimRequests \cup {<<>>} /\ Tail(limQueue) \in Seq(LimCallers)
        BY <1>1, <1>4 DEF HolderStep
      <3>3. limAsk' = limAsk
            /\ IF \A k \in Keys : delays[k] = 0
               THEN /\ limEvents' = [k \in Keys |-> Append(kept[k], entry(k))]
                    /\ limGrants' = [k \in Keys |-> Append(limGrants[k], entry(k))]
                    /\ limQueue' = Tail(limQueue)
               ELSE /\ limEvents' = kept
                    /\ limQueue' = limQueue /\ limGrants' = limGrants
        BY <1>4, <2>2 DEF HolderStep
      <3>4. DOMAIN kept = Keys /\ \A k \in Keys : delays[k] = TimeUntilAvailable(k, kept[k], Weight(r, k))
        OBVIOUS
      <3> HIDE DEF kept, delays, r
      <3>5. CASE \A k \in Keys : delays[k] = 0
        <4>1. ASSUME NEW k \in Keys
              PROVE  Window(k, Append(kept[k], entry(k)), Append(limGrants[k], entry(k)))
          <5>1. Weight(r, k) \in Nat /\ TimeUntilAvailable(k, kept[k], Weight(r, k)) = 0
            BY <3>2, <3>4, <3>5, WeightIsNatural
          <5>2. Window(k, kept[k], limGrants[k])
            BY <3>1
          <5>3. SumOf(limGrants[k]) + Weight(r, k) <= LimWindows[k].limit
            BY <5>1, <5>2, GrantFitsWindow
          <5> QED BY <5>1, <5>2, <5>3, GrantKeepsWindow
        <4> HIDE DEF entry
        <4>2. \A k \in Keys : Window(k, limEvents'[k], limGrants'[k])
          BY <3>3, <3>5, <4>1
        <4>3. DOMAIN limEvents' = Keys /\ DOMAIN limGrants' = Keys /\ limQueue' \in Seq(LimCallers)
          BY <3>2, <3>3, <3>5
        <4> QED BY <1>1, <3>3, <4>2, <4>3 DEF LimInv
      <3>6. CASE ~(\A k \in Keys : delays[k] = 0)
        BY <1>1, <3>1, <3>3, <3>4, <3>6 DEF LimInv
      <3> QED BY <3>5, <3>6
    <2> QED BY <2>1, <2>2
  <1>5. ASSUME NEW n \in LimPenalties, Penalize(n) PROVE LimInv'
    BY <1>1, <1>5 DEF Penalize, LimInv
  <1>6. ASSUME LimTick PROVE LimInv'
    <2>1. /\ limEvents' = [k \in Keys |-> Older(k, limEvents[k])]
          /\ limGrants' = [k \in Keys |-> NoOlder(LimWindows[k].period - 1, Older(k, limGrants[k]))]
          /\ limQueue' = limQueue /\ limAsk' = limAsk
      BY <1>6 DEF LimTick
    <2>2. \A k \in Keys : Window(k, limEvents'[k], limGrants'[k])
      BY <1>1, <2>1, TickKeepsWindow
    <2> QED BY <1>1, <2>1, <2>2 DEF LimInv
  <1>7. CASE UNCHANGED limVars
    BY <1>1, <1>7 DEF limVars, LimInv
  <1> QED BY <1>2, <1>3, <1>4, <1>5, <1>6, <1>7 DEF LimNext

\* No stretch of a window's period sees more weight admitted than its limit, for any
\* callers, windows, requests and penalties.  Code: WeightedLimiter.acquire.
THEOREM PeriodsAreHeld == LimSpec => []WindowsHold
  <1>1. LimInv => WindowsHold
    BY DEF LimInv, WindowsHold, Window
  <1> QED BY LimiterStarts, LimiterSteps, <1>1, PTL DEF LimSpec

-----------------------------------------------------------------------------
(* The recorder: what is read back. *)

Items(q) == {q[k] : k \in 1 .. Len(q)}
Rising(q) == \A i, j \in 1 .. Len(q) : i < j => q[i] < q[j]
Under(A, B) == \A x \in A, y \in B : x < y

\* Every part rises, and every part is under the later ones.
InOrder(parts) ==
  /\ \A i \in 1 .. Len(parts) : Rising(parts[i])
  /\ \A i, j \in 1 .. Len(parts) : i < j => Under(Items(parts[i]), Items(parts[j]))

Lines(pieces) == [i \in 1 .. Len(pieces) |-> pieces[i].lines]

\* The records in a file, and in all files of a stream.
Filed(pieces) == UNION {Items(pieces[i].lines) : i \in 1 .. Len(pieces)}
Stored(files) == UNION {Filed(files[h]) : h \in Hours}

FilesInOrder(files) ==
  /\ files \in [Hours -> Seq(Pieces)]
  /\ \A h \in Hours : InOrder(Lines(files[h]))
  /\ \A g, h \in Hours : g < h => Under(Filed(files[g]), Filed(files[h]))

\* The files of a stream: none of a later hour than the open one; and as long as nothing
\* failed, only the piece being written has no end.
StreamFits(s, files, open, hour, faults) ==
  /\ FilesInOrder(files)
  /\ \A h \in Hours : h > hour => files[h] = << >>
  /\ s \in DOMAIN open =>
       /\ open[s] \in Hours /\ open[s] <= hour /\ files[open[s]] # << >>
       /\ \A h \in Hours : h > open[s] => files[h] = << >>
  /\ faults = 0 =>
       \A h \in Hours : \A i \in Unended(files[h]) : s \in DOMAIN open /\ h = open[s] /\ i = Len(files[h])

\* The buffer is what was recorded last; what is stored is of its stream, not lost, and
\* before the buffer; and as long as nothing failed nothing else is missing.
BufferFits(buffer, log) ==
  /\ log \in Seq(Streams) /\ buffer \in Seq(Streams \X Nat)
  /\ \A k \in 1 .. Len(buffer) : buffer[k][2] \in 1 .. Len(log) /\ log[buffer[k][2]] = buffer[k][1]
  /\ \A j, k \in 1 .. Len(buffer) : j < k => buffer[j][2] < buffer[k][2]

Buffered(buffer) == {buffer[k][2] : k \in 1 .. Len(buffer)}

RecordsFit(buffer, log, lost, faults, disk) ==
  /\ BufferFits(buffer, log)
  /\ lost \subseteq 1 .. Len(log) /\ Under(lost, Buffered(buffer))
  /\ \A s \in Streams :
       /\ Under(Stored(disk[s]), Buffered(buffer))
       /\ \A n \in Stored(disk[s]) : n \in 1 .. Len(log) /\ log[n] = s /\ n \notin lost
  /\ faults = 0 => \A n \in 1 .. Len(log) : n \in Stored(disk[log[n]]) \cup Buffered(buffer)

DiskFits(disk, open, hour, faults) ==
  /\ hour \in Hours /\ faults \in Nat
  /\ \A s \in Streams : StreamFits(s, disk[s], open, hour, faults)

RecInv ==
  /\ DiskFits(recDisk, recOpen, recHour, recFaults)
  /\ RecordsFit(recBuffer, recLog, recLost, recFaults, recDisk)

LEMMA JoinTwo ==
    ASSUME NEW q \in Seq(Nat), NEW r \in Seq(Nat)
    PROVE  /\ q \o r \in Seq(Nat)
           /\ Items(q \o r) = Items(q) \cup Items(r)
           /\ Rising(q) /\ Rising(r) /\ Under(Items(q), Items(r)) => Rising(q \o r)
  <1> DEFINE m == Len(q)  n == Len(r)  both == q \o r
  <1>1. /\ m \in Nat /\ n \in Nat /\ both \in Seq(Nat) /\ Len(both) = m + n
        /\ \A i \in 1 .. m : both[i] = q[i]
        /\ \A i \in m + 1 .. m + n : both[i] = r[i - m]
    OBVIOUS
  <1> HIDE DEF m, n, both
  <1>2. Items(both) = Items(q) \cup Items(r)
    <2>1. ASSUME NEW k \in 1 .. m + n PROVE both[k] \in Items(q) \cup Items(r)
      <3>1. CASE k <= m
        <4>1. k \in 1 .. m
          BY <1>1, <3>1
        <4> QED BY <1>1, <4>1 DEF Items, m
      <3>2. CASE k > m
        <4>1. k \in m + 1 .. m + n /\ k - m \in 1 .. n
          BY <1>1, <3>2
        <4> QED BY <1>1, <4>1 DEF Items, n
      <3> QED BY <1>1, <3>1, <3>2
    <2>2. ASSUME NEW k \in 1 .. m PROVE q[k] \in Items(both)
      <3>1. k \in 1 .. m + n /\ both[k] = q[k]
        BY <1>1
      <3> QED BY <1>1, <3>1 DEF Items
    <2>3. ASSUME NEW k \in 1 .. n PROVE r[k] \in Items(both)
      <3>1. m + k \in 1 .. m + n /\ m + k \in m + 1 .. m + n /\ m + k - m = k
        BY <1>1
      <3>2. both[m + k] = r[k]
        BY <1>1, <3>1
      <3> QED BY <1>1, <3>1, <3>2 DEF Items
    <2> QED BY <1>1, <2>1, <2>2, <2>3 DEF Items, m, n
  <1>3. ASSUME Rising(q), Rising(r), Under(Items(q), Items(r)) PROVE Rising(both)
    <2> SUFFICES ASSUME NEW i \in 1 .. m + n, NEW j \in 1 .. m + n, i < j PROVE both[i] < both[j]
      BY <1>1 DEF Rising
    <2>1. CASE j <= m
      <3>1. i \in 1 .. m /\ j \in 1 .. m
        BY <1>1, <2>1
      <3>2. q[i] < q[j]
        BY <1>3, <3>1 DEF Rising, m
      <3> QED BY <1>1, <3>1, <3>2
    <2>2. CASE i <= m /\ j > m
      <3>1. i \in 1 .. m /\ j \in m + 1 .. m + n /\ j - m \in 1 .. n
        BY <1>1, <2>2
      <3>2. q[i] \in Items(q) /\ r[j - m] \in Items(r)
        BY <3>1 DEF Items, m, n
      <3>3. q[i] < r[j - m]
        BY <1>3, <3>2 DEF Under
      <3> QED BY <1>1, <3>1, <3>3
    <2>3. CASE i > m
      <3>1. /\ i \in m + 1 .. m + n /\ j \in m + 1 .. m + n
            /\ i - m \in 1 .. n /\ j - m \in 1 .. n /\ i - m < j - m
        BY <1>1, <2>3
      <3>2. r[i - m] < r[j - m]
        BY <1>3, <3>1 DEF Rising, n
      <3> QED BY <1>1, <3>1, <3>2
    <2> QED BY <1>1, <2>1, <2>2, <2>3
  <1> QED BY <1>1, <1>2, <1>3 DEF both

LEMMA JoinedIs ==
    ASSUME NEW parts \in Seq(Seq(Nat))
    PROVE  /\ Joined(parts) \in Seq(Nat)
           /\ Items(Joined(parts)) = UNION {Items(parts[i]) : i \in 1 .. Len(parts)}
           /\ InOrder(parts) => Rising(Joined(parts))
  <1>1. PICK f : /\ f[0] = << >> /\ \A n \in 1 .. Len(parts) : f[n] = f[n - 1] \o parts[n]
                 /\ Joined(parts) = f[Len(parts)]
    BY JoinedRuns
  <1> DEFINE Upto(n) == UNION {Items(parts[i]) : i \in 1 .. n}
             Done == {n \in Nat : /\ f[n] \in Seq(Nat) /\ Items(f[n]) = Upto(n)
                                  /\ InOrder(parts) => Rising(f[n])}
  <1>2. Len(parts) \in Nat /\ \A n \in 1 .. Len(parts) : parts[n] \in Seq(Nat)
    BY LenProperties, ElementOfSeq
  <1>3. 0 \in Done
    <2>1. << >> \in Seq(Nat) /\ Len(<< >>) = 0
      BY EmptySeq
    <2>2. Items(<< >>) = {} /\ Upto(0) = {} /\ Rising(<< >>)
      BY <2>1 DEF Items, Rising
    <2> QED BY <1>1, <2>1, <2>2
  <1>4. ASSUME NEW n \in 0 .. Len(parts), n < Len(parts), n \in Done PROVE n + 1 \in Done
    <2>1. n + 1 \in 1 .. Len(parts) /\ n + 1 - 1 = n /\ n + 1 \in Nat
      BY <1>2, <1>4
    <2> DEFINE q == f[n]  r == parts[n + 1]
    <2>2. f[n + 1] = q \o r /\ r \in Seq(Nat) /\ q \in Seq(Nat) /\ Items(q) = Upto(n)
      <3>1. f[n + 1] = f[n + 1 - 1] \o parts[n + 1] /\ parts[n + 1] \in Seq(Nat)
        <4> DEFINE k == n + 1
        <4>1. k \in 1 .. Len(parts)
          BY <2>1
        <4> HIDE DEF k, Done
        <4>2. f[k] = f[k - 1] \o parts[k] /\ parts[k] \in Seq(Nat)
          BY <1>1, <1>2, <4>1
        <4> QED BY <4>2 DEF k
      <3>2. f[n] \in Seq(Nat) /\ Items(f[n]) = Upto(n)
        <4> HIDE DEF Upto
        <4> QED BY <1>4
      <3> HIDE DEF Done, Upto
      <3> QED BY <2>1, <3>1, <3>2
    <2>3. Upto(n + 1) = Upto(n) \cup Items(r)
      <3>1. 1 .. n + 1 = (1 .. n) \cup {n + 1}
        BY <1>4
      <3> QED BY <3>1
    <2>4. ASSUME InOrder(parts) PROVE Rising(q) /\ Rising(r) /\ Under(Items(q), Items(r))
      <3>1. Rising(q) /\ Rising(r)
        BY <1>4, <2>1, <2>4 DEF InOrder
      <3>2. ASSUME NEW x \in Items(q), NEW y \in Items(r) PROVE x < y
        <4>1. PICK i \in 1 .. n : x \in Items(parts[i])
          BY <2>2
        <4>2. i \in 1 .. Len(parts) /\ i < n + 1
          BY <1>2, <1>4
        <4>3. Under(Items(parts[i]), Items(r))
          BY <2>1, <2>4, <4>2 DEF InOrder
        <4> QED BY <3>2, <4>1, <4>3 DEF Under
      <3> QED BY <3>1, <3>2 DEF Under
    <2> HIDE DEF q, r, Upto
    <2>5. f[n + 1] \in Seq(Nat) /\ Items(f[n + 1]) = Upto(n + 1) /\ (InOrder(parts) => Rising(f[n + 1]))
      BY <2>2, <2>3, <2>4, JoinTwo
    <2> QED BY <2>1, <2>5
  <1>5. \A n \in 0 .. Len(parts) : n \in Done
    <2> HIDE DEF Done
    <2>1. 0 \in Nat /\ 0 \in 0 .. Len(parts)
      BY <1>2
    <2> QED BY <1>2, <1>3, <1>4, IntervalInduction
  <1>6. Len(parts) \in Done
    <2> HIDE DEF Done
    <2> QED BY <1>2, <1>5
  <1> QED BY <1>1, <1>6

-----------------------------------------------------------------------------
(* A file, and what is done to it. *)

LEMMA PieceFacts ==
    ASSUME NEW pieces \in Seq(Pieces)
    PROVE  /\ Len(pieces) \in Nat
           /\ \A i \in 1 .. Len(pieces) : pieces[i].lines \in Seq(Nat) /\ pieces[i].closed \in BOOLEAN
           /\ Lines(pieces) \in Seq(Seq(Nat)) /\ Len(Lines(pieces)) = Len(pieces)
           /\ \A i \in 1 .. Len(pieces) : Lines(pieces)[i] = pieces[i].lines
  <1>1. Len(pieces) \in Nat /\ \A i \in 1 .. Len(pieces) : pieces[i] \in Pieces
    BY LenProperties, ElementOfSeq
  <1>2. \A i \in 1 .. Len(pieces) : pieces[i].lines \in Seq(Nat) /\ pieces[i].closed \in BOOLEAN
    BY <1>1 DEF Pieces
  <1>3. Lines(pieces) \in [1 .. Len(pieces) -> Seq(Nat)]
    <2> DEFINE T == Seq(Nat)
    <2>1. \A i \in 1 .. Len(pieces) : pieces[i].lines \in T
      BY <1>2
    <2> HIDE DEF T
    <2>2. Lines(pieces) \in [1 .. Len(pieces) -> T]
      BY <2>1 DEF Lines
    <2> QED BY <2>2 DEF T
  <1>4. Lines(pieces) \in Seq(Seq(Nat)) /\ Len(Lines(pieces)) = Len(pieces)
    BY <1>1, <1>3, SeqDef, LenProperties
  <1> QED BY <1>1, <1>2, <1>4 DEF Lines

\* A file in order stays so when the lines of its pieces are the same.
LEMMA CloseKeepsFile ==
    ASSUME NEW pieces \in Seq(Pieces), InOrder(Lines(pieces))
    PROVE  /\ Close(pieces) \in Seq(Pieces) /\ InOrder(Lines(Close(pieces)))
           /\ Filed(Close(pieces)) = Filed(pieces) /\ Len(Close(pieces)) = Len(pieces)
           /\ \A i \in Unended(Close(pieces)) : i \in Unended(pieces) /\ i # Len(pieces)
  <1> DEFINE new == Close(pieces)
  <1>1. /\ Len(pieces) \in Nat
        /\ \A i \in 1 .. Len(pieces) : pieces[i] \in Pieces /\ pieces[i].lines \in Seq(Nat)
    BY PieceFacts, ElementOfSeq
  <1>2. ASSUME NEW i \in 1 .. Len(pieces)
        PROVE  /\ new[i] \in Pieces /\ new[i].lines = pieces[i].lines
               /\ i = Len(pieces) => new[i].closed
               /\ i # Len(pieces) => new[i] = pieces[i]
    <2>1. new[i] = IF i = Len(pieces) THEN Piece(pieces[i].lines, TRUE) ELSE pieces[i]
      BY DEF Close
    <2>2. Piece(pieces[i].lines, TRUE) \in Pieces
      BY <1>1 DEF Piece, Pieces
    <2>3. Piece(pieces[i].lines, TRUE).lines = pieces[i].lines /\ Piece(pieces[i].lines, TRUE).closed
      BY DEF Piece
    <2> HIDE DEF new
    <2>4. CASE i = Len(pieces)
      <3>1. new[i] = Piece(pieces[i].lines, TRUE)
        BY <2>1, <2>4
      <3> QED BY <2>2, <2>3, <2>4, <3>1
    <2>5. CASE i # Len(pieces)
      <3>1. new[i] = pieces[i]
        BY <2>1, <2>5
      <3> QED BY <1>1, <2>5, <3>1
    <2> QED BY <2>4, <2>5
  <1>3. new \in [1 .. Len(pieces) -> Pieces]
    <2>1. new = [i \in 1 .. Len(pieces) |-> new[i]]
      BY DEF Close
    <2> HIDE DEF new
    <2>2. \A i \in 1 .. Len(pieces) : new[i] \in Pieces
      BY <1>2
    <2> QED BY <2>1, <2>2
  <1> HIDE DEF new
  <1>4. new \in Seq(Pieces) /\ Len(new) = Len(pieces)
    BY <1>1, <1>3, SeqDef, LenProperties
  <1>5. Lines(new) = Lines(pieces)
    BY <1>2, <1>4 DEF Lines
  <1>6. Filed(new) = Filed(pieces)
    BY <1>2, <1>4 DEF Filed
  <1>7. \A i \in Unended(new) : i \in Unended(pieces) /\ i # Len(pieces)
    BY <1>2, <1>4 DEF Unended
  <1> QED BY <1>4, <1>5, <1>6, <1>7 DEF new

LEMMA OpenKeepsFile ==
    ASSUME NEW pieces \in Seq(Pieces), InOrder(Lines(pieces))
    PROVE  LET new == Append(pieces, Piece(<< >>, FALSE)) IN
           /\ new \in Seq(Pieces) /\ new # << >> /\ InOrder(Lines(new)) /\ Filed(new) = Filed(pieces)
           /\ Len(new) = Len(pieces) + 1
           /\ \A i \in Unended(new) : i \in Unended(pieces) \/ i = Len(new)
  <1> DEFINE piece == Piece(<< >>, FALSE)  n == Len(pieces)  new == Append(pieces, piece)
  <1>1. piece \in Pieces /\ piece.lines = << >>
    <2>1. << >> \in Seq(Nat)
      BY EmptySeq
    <2> QED BY <2>1 DEF Piece, Pieces
  <1>2. n \in Nat /\ \A i \in 1 .. n : pieces[i].lines \in Seq(Nat)
    BY PieceFacts
  <1> HIDE DEF piece
  <1>3. /\ new \in Seq(Pieces) /\ Len(new) = n + 1 /\ new[n + 1] = piece
        /\ \A i \in 1 .. n : new[i] = pieces[i]
    BY <1>1, AppendProperties
  <1> HIDE DEF new, n
  <1>4. Items(piece.lines) = {} /\ Rising(piece.lines)
    <2>1. Len(<< >>) = 0
      BY EmptySeq
    <2> QED BY <1>1, <2>1 DEF Items, Rising
  <1>5. Filed(new) = Filed(pieces)
    <2>1. 1 .. n + 1 = (1 .. n) \cup {n + 1}
      BY <1>2
    <2>2. Filed(new) = (UNION {Items(new[i].lines) : i \in 1 .. n}) \cup Items(piece.lines)
      <3> DEFINE F(i) == Items(new[i].lines)
      <3>1. Filed(new) = UNION {F(i) : i \in 1 .. n + 1} /\ F(n + 1) = Items(piece.lines)
        BY <1>3 DEF Filed
      <3> HIDE DEF F
      <3>2. UNION {F(i) : i \in 1 .. n + 1} = (UNION {F(i) : i \in 1 .. n}) \cup F(n + 1)
        BY <2>1
      <3> QED BY <3>1, <3>2 DEF F
    <2>3. {Items(new[i].lines) : i \in 1 .. n} = {Items(pieces[i].lines) : i \in 1 .. n}
      BY <1>3
    <2> QED BY <1>4, <2>2, <2>3 DEF Filed, n
  <1>6. InOrder(Lines(new))
    <2>1. /\ Len(Lines(new)) = n + 1 /\ \A i \in 1 .. n + 1 : Lines(new)[i] = new[i].lines
          /\ Len(Lines(pieces)) = n /\ \A i \in 1 .. n : Lines(pieces)[i] = pieces[i].lines
      BY <1>3, PieceFacts DEF n
    <2>2. ASSUME NEW i \in 1 .. n + 1 PROVE Rising(Lines(new)[i])
      <3>1. CASE i = n + 1
        BY <1>3, <1>4, <2>1, <3>1
      <3>2. CASE i # n + 1
        <4>1. i \in 1 .. n
          BY <1>2, <3>2
        <4> QED BY <1>3, <2>1, <4>1 DEF InOrder
      <3> QED BY <3>1, <3>2
    <2>3. ASSUME NEW i \in 1 .. n + 1, NEW j \in 1 .. n + 1, i < j
          PROVE  Under(Items(Lines(new)[i]), Items(Lines(new)[j]))
      <3>1. CASE j = n + 1
        <4>1. Items(Lines(new)[j]) = {}
          BY <1>3, <1>4, <2>1, <3>1
        <4> QED BY <4>1 DEF Under
      <3>2. CASE j # n + 1
        <4>1. i \in 1 .. n /\ j \in 1 .. n
          BY <1>2, <2>3, <3>2
        <4>2. Lines(new)[i] = Lines(pieces)[i] /\ Lines(new)[j] = Lines(pieces)[j]
          BY <1>2, <1>3, <2>1, <4>1
        <4> QED BY <2>1, <2>3, <4>1, <4>2 DEF InOrder
      <3> QED BY <3>1, <3>2
    <2> QED BY <2>1, <2>2, <2>3 DEF InOrder
  <1>7. \A i \in Unended(new) : i \in Unended(pieces) \/ i = Len(new)
    <2>1. ASSUME NEW i \in Unended(new), i # Len(new) PROVE i \in Unended(pieces)
      <3>1. i \in 1 .. n /\ ~new[i].closed
        BY <1>2, <1>3, <2>1 DEF Unended
      <3> QED BY <1>3, <3>1 DEF Unended, n
    <2> QED BY <2>1
  <1>8. new # << >>
    <2>1. Len(<< >>) = 0
      BY EmptySeq
    <2> QED BY <1>2, <1>3, <2>1
  <1> QED BY <1>3, <1>5, <1>6, <1>7, <1>8 DEF new, piece, n

\* Lines put at the end of a file, all of them after what it has.
LEMMA AppendKeepsFile ==
    ASSUME NEW pieces \in Seq(Pieces), InOrder(Lines(pieces)), pieces # << >>,
           NEW lines \in Seq(Nat), Rising(lines), Under(Filed(pieces), Items(lines))
    PROVE  LET new == AppendLines(pieces, lines) IN
           /\ new \in Seq(Pieces) /\ new # << >> /\ InOrder(Lines(new))
           /\ Filed(new) = Filed(pieces) \cup Items(lines)
           /\ Len(new) = Len(pieces) /\ Unended(new) = Unended(pieces)
  <1> DEFINE n == Len(pieces)  new == AppendLines(pieces, lines)
  <1>1. /\ n \in Nat
        /\ \A i \in 1 .. n : pieces[i] \in Pieces /\ pieces[i].lines \in Seq(Nat) /\ pieces[i].closed \in BOOLEAN
    BY PieceFacts, ElementOfSeq
  <1>2. n \in 1 .. n
    BY <1>1, EmptySeq
  <1> DEFINE last == pieces[n].lines
  <1>3. /\ last \o lines \in Seq(Nat) /\ Items(last \o lines) = Items(last) \cup Items(lines)
        /\ Rising(last \o lines)
    <2>1. last \in Seq(Nat)
      BY <1>1, <1>2
    <2>2. Rising(last)
      <3>1. Lines(pieces)[n] = last /\ Len(Lines(pieces)) = n
        BY <1>2, PieceFacts
      <3> HIDE DEF n, last
      <3> QED BY <1>2, <3>1 DEF InOrder
    <2>3. Items(last) \subseteq Filed(pieces)
      BY <1>2 DEF Filed
    <2>4. Under(Items(last), Items(lines))
      BY <2>3 DEF Under
    <2> HIDE DEF last
    <2> QED BY <2>1, <2>2, <2>4, JoinTwo
  <1> HIDE DEF last, n
  <1>4. ASSUME NEW i \in 1 .. n
        PROVE  /\ new[i] \in Pieces /\ new[i].closed = pieces[i].closed
               /\ new[i].lines = IF i = n THEN last \o lines ELSE pieces[i].lines
    <2>1. new[i] = IF i = n THEN Piece(pieces[i].lines \o lines, pieces[i].closed) ELSE pieces[i]
      BY DEF AppendLines, n
    <2>2. CASE i = n
      <3> HIDE DEF new
      <3>1. new[i] = Piece(last \o lines, pieces[i].closed)
        BY <2>1, <2>2 DEF last
      <3> QED BY <1>1, <1>3, <2>2, <3>1 DEF Piece, Pieces
    <2>3. CASE i # n
      <3> HIDE DEF new
      <3> QED BY <1>1, <2>1, <2>3
    <2> QED BY <2>2, <2>3
  <1>5. new \in [1 .. n -> Pieces]
    <2>1. new = [i \in 1 .. n |-> new[i]]
      BY DEF AppendLines, n
    <2> HIDE DEF new
    <2>2. \A i \in 1 .. n : new[i] \in Pieces
      BY <1>4
    <2> QED BY <2>1, <2>2
  <1> HIDE DEF new
  <1>6. new \in Seq(Pieces) /\ Len(new) = n
    BY <1>1, <1>5, SeqDef, LenProperties
  <1>7. Filed(new) = Filed(pieces) \cup Items(lines)
    <2>1. ASSUME NEW x \in Filed(new) PROVE x \in Filed(pieces) \cup Items(lines)
      <3>1. PICK i \in 1 .. n : x \in Items(new[i].lines)
        BY <1>6, <2>1 DEF Filed
      <3>2. CASE i = n
        <4>1. x \in Items(last) \cup Items(lines)
          BY <1>3, <1>4, <3>1, <3>2
        <4> QED BY <1>2, <4>1 DEF Filed, last, n
      <3>3. CASE i # n
        BY <1>4, <3>1, <3>3 DEF Filed, n
      <3> QED BY <3>2, <3>3
    <2>2. ASSUME NEW i \in 1 .. n, NEW x \in Items(pieces[i].lines) PROVE x \in Filed(new)
      <3>1. x \in Items(new[i].lines)
        <4>1. CASE i = n
          BY <1>3, <1>4, <2>2, <4>1 DEF last
        <4>2. CASE i # n
          BY <1>4, <2>2, <4>2
        <4> QED BY <4>1, <4>2
      <3> QED BY <1>6, <3>1 DEF Filed
    <2>3. ASSUME NEW x \in Items(lines) PROVE x \in Filed(new)
      <3>1. x \in Items(new[n].lines)
        BY <1>2, <1>3, <1>4
      <3> QED BY <1>2, <1>6, <3>1 DEF Filed
    <2>4. Filed(pieces) \subseteq Filed(new)
      BY <2>2 DEF Filed, n
    <2> QED BY <2>1, <2>3, <2>4
  <1>8. InOrder(Lines(new))
    <2>1. /\ Len(Lines(new)) = n /\ \A i \in 1 .. n : Lines(new)[i] = new[i].lines
          /\ Len(Lines(pieces)) = n /\ \A i \in 1 .. n : Lines(pieces)[i] = pieces[i].lines
      BY <1>6, PieceFacts DEF n
    <2>2. ASSUME NEW i \in 1 .. n PROVE Rising(Lines(new)[i])
      <3>1. CASE i = n
        BY <1>3, <1>4, <2>1, <3>1
      <3>2. CASE i # n
        BY <1>4, <2>1, <3>2 DEF InOrder
      <3> QED BY <3>1, <3>2
    <2>3. ASSUME NEW i \in 1 .. n, NEW j \in 1 .. n, i < j
          PROVE  Under(Items(Lines(new)[i]), Items(Lines(new)[j]))
      <3>1. i # n /\ Lines(new)[i] = pieces[i].lines
        <4>1. i # n
          BY <1>1, <2>3
        <4> QED BY <1>4, <2>1, <4>1
      <3>2. Under(Items(pieces[i].lines), Items(pieces[j].lines))
        BY <2>1, <2>3 DEF InOrder
      <3>3. CASE j = n
        <4>1. Items(Lines(new)[j]) = Items(last) \cup Items(lines)
          BY <1>3, <1>4, <2>1, <3>3
        <4>2. Items(pieces[i].lines) \subseteq Filed(pieces)
          BY DEF Filed, n
        <4>3. Under(Items(pieces[i].lines), Items(last))
          BY <3>2, <3>3 DEF last
        <4> QED BY <3>1, <4>1, <4>2, <4>3 DEF Under
      <3>4. CASE j # n
        <4>1. Lines(new)[j] = pieces[j].lines
          BY <1>4, <2>1, <3>4
        <4> QED BY <3>1, <3>2, <4>1
      <3> QED BY <3>3, <3>4
    <2> QED BY <2>1, <2>2, <2>3 DEF InOrder
  <1>9. Unended(new) = Unended(pieces)
    BY <1>4, <1>6 DEF Unended, n
  <1>10. new # << >>
    <2>1. Len(<< >>) = 0
      BY EmptySeq
    <2> QED BY <1>2, <1>6, <2>1
  <1> QED BY <1>6, <1>7, <1>8, <1>9, <1>10 DEF new, n

-----------------------------------------------------------------------------
(* What is read of a file, and of a stream. *)

LEMMA UntilIs ==
    ASSUME NEW bad \in SUBSET Nat, NEW last
    PROVE  (bad = {} => Until(bad, last) = last) /\ (bad # {} => Until(bad, last) \in bad)
  <1>1. ASSUME bad # {} PROVE Min(bad) \in bad
    <2>1. \E x \in bad : \A y \in bad : x <= y
      BY <1>1, LeastNatural
    <2> QED BY <2>1 DEF Min
  <1> QED BY <1>1 DEF Until

LEMMA FileIsRead ==
    ASSUME NEW pieces \in Seq(Pieces), InOrder(Lines(pieces))
    PROVE  /\ ReadFile(pieces) \in Seq(Nat) /\ Rising(ReadFile(pieces))
           /\ Items(ReadFile(pieces)) \subseteq Filed(pieces)
           /\ (\A i \in Unended(pieces) : i = Len(pieces)) => Items(ReadFile(pieces)) = Filed(pieces)
  <1> DEFINE N == Len(pieces)  bad == Unended(pieces)  n == Until(bad, N)
             parts == [i \in 1 .. n |-> pieces[i].lines]
  <1>1. N \in Nat /\ \A i \in 1 .. N : pieces[i].lines \in Seq(Nat)
    BY PieceFacts
  <1>2. bad \in SUBSET Nat /\ bad \subseteq 1 .. N
    BY <1>1 DEF Unended
  <1>3. ReadFile(pieces) = Joined(parts)
    BY DEF ReadFile
  <1> HIDE DEF N, bad
  <1>4. n \in 0 .. N /\ ((\A i \in bad : i = N) => n = N)
    <2>1. bad = {} => n = N
      BY <1>2, UntilIs
    <2>2. bad # {} => n \in bad
      BY <1>2, UntilIs
    <2> HIDE DEF n
    <2>3. n \in 0 .. N
      <3>1. CASE bad = {}
        BY <1>1, <2>1, <3>1
      <3>2. CASE bad # {}
        <4>1. n \in 1 .. N
          BY <1>2, <2>2, <3>2
        <4> QED BY <1>1, <4>1
      <3> QED BY <3>1, <3>2
    <2> QED BY <2>1, <2>2, <2>3
  <1> HIDE DEF n
  <1>5. \A i \in 1 .. n : parts[i] = pieces[i].lines /\ i \in 1 .. N
    BY <1>1, <1>4
  <1>6. parts \in Seq(Seq(Nat)) /\ Len(parts) = n
    <2> DEFINE T == Seq(Nat)
    <2>1. \A i \in 1 .. n : pieces[i].lines \in T
      BY <1>1, <1>5
    <2> HIDE DEF T
    <2>2. parts \in [1 .. n -> T]
      BY <2>1
    <2> HIDE DEF parts
    <2>3. parts \in Seq(T) /\ Len(parts) = n
      BY <1>4, <2>2, SeqDef, LenProperties
    <2> QED BY <2>3 DEF T
  <1> HIDE DEF parts
  <1>7. InOrder(parts)
    <2>1. Len(Lines(pieces)) = N /\ \A i \in 1 .. N : Lines(pieces)[i] = pieces[i].lines
      BY PieceFacts DEF N
    <2>2. \A i \in 1 .. n : Rising(parts[i])
      BY <1>5, <2>1 DEF InOrder
    <2>3. \A i, j \in 1 .. n : i < j => Under(Items(parts[i]), Items(parts[j]))
      BY <1>5, <2>1 DEF InOrder
    <2> QED BY <1>6, <2>2, <2>3 DEF InOrder
  <1>8. /\ Joined(parts) \in Seq(Nat) /\ Rising(Joined(parts))
        /\ Items(Joined(parts)) = UNION {Items(parts[i]) : i \in 1 .. n}
    BY <1>6, <1>7, JoinedIs
  <1>9. UNION {Items(parts[i]) : i \in 1 .. n} \subseteq Filed(pieces)
    BY <1>5 DEF Filed, N
  <1>10. ASSUME \A i \in bad : i = N PROVE Filed(pieces) = UNION {Items(parts[i]) : i \in 1 .. n}
    <2>1. n = N
      BY <1>4, <1>10
    <2>2. {Items(parts[i]) : i \in 1 .. n} = {Items(pieces[i].lines) : i \in 1 .. N}
      BY <1>5, <2>1
    <2> QED BY <2>2 DEF Filed, N
  <1> QED BY <1>3, <1>8, <1>9, <1>10 DEF bad, N

LEMMA FileFacts ==
    ASSUME NEW files, FilesInOrder(files), NEW h \in Hours
    PROVE  files[h] \in Seq(Pieces) /\ InOrder(Lines(files[h]))
  BY DEF FilesInOrder

LEMMA EmptyFile == Filed(<< >>) = {} /\ Unended(<< >>) = {}
  <1>1. Len(<< >>) = 0
    BY EmptySeq
  <1> QED BY <1>1 DEF Filed, Unended

LEMMA StreamIsRead ==
    ASSUME NEW files, FilesInOrder(files)
    PROVE  /\ ReadStream(files) \in Seq(Nat) /\ Rising(ReadStream(files))
           /\ Items(ReadStream(files)) \subseteq Stored(files)
  <1> DEFINE bad == {h \in Hours : Unended(files[h]) # {}}  n == Until(bad, MaxHour) + 1
             parts == [k \in 1 .. n |-> ReadFile(files[k - 1])]
  <1>1. MaxHour \in Nat /\ Hours = 0 .. MaxHour
    BY RecorderAssumption DEF Hours
  <1>2. bad \in SUBSET Nat /\ bad \subseteq 0 .. MaxHour
    BY <1>1
  <1>3. ReadStream(files) = Joined(parts)
    BY DEF ReadStream
  <1> HIDE DEF bad
  <1>4. n \in 1 .. MaxHour + 1
    <2>1. bad = {} => Until(bad, MaxHour) = MaxHour
      BY <1>2, UntilIs
    <2>2. bad # {} => Until(bad, MaxHour) \in bad
      BY <1>2, UntilIs
    <2>3. Until(bad, MaxHour) \in 0 .. MaxHour
      <3>1. CASE bad = {}
        BY <1>1, <2>1, <3>1
      <3>2. CASE bad # {}
        BY <1>2, <2>2, <3>2
      <3> QED BY <3>1, <3>2
    <2> DEFINE m == Until(bad, MaxHour)
    <2>4. n = m + 1 /\ m \in 0 .. MaxHour
      BY <2>3
    <2> HIDE DEF n, m
    <2> QED BY <1>1, <2>4
  <1> HIDE DEF n
  <1>5. ASSUME NEW k \in 1 .. n
        PROVE  /\ k - 1 \in Hours /\ parts[k] = ReadFile(files[k - 1])
               /\ parts[k] \in Seq(Nat) /\ Rising(parts[k]) /\ Items(parts[k]) \subseteq Filed(files[k - 1])
    <2>1. k - 1 \in Hours
      BY <1>1, <1>4
    <2>2. parts[k] = ReadFile(files[k - 1])
      OBVIOUS
    <2> HIDE DEF parts
    <2>3. files[k - 1] \in Seq(Pieces) /\ InOrder(Lines(files[k - 1]))
      BY <2>1, FileFacts
    <2> QED BY <2>1, <2>2, <2>3, FileIsRead
  <1>6. parts \in Seq(Seq(Nat)) /\ Len(parts) = n
    <2> DEFINE T == Seq(Nat)
    <2>1. \A i \in 1 .. n : parts[i] \in T
      BY <1>5
    <2>2. parts = [i \in 1 .. n |-> parts[i]]
      OBVIOUS
    <2> HIDE DEF T, parts
    <2>3. parts \in [1 .. n -> T]
      BY <2>1, <2>2
    <2>4. n \in Nat
      BY <1>1, <1>4
    <2>5. parts \in Seq(T) /\ Len(parts) = n
      BY <2>3, <2>4, SeqDef, LenProperties
    <2> QED BY <2>5 DEF T
  <1> HIDE DEF parts
  <1>7. InOrder(parts)
    <2>1. ASSUME NEW i \in 1 .. n, NEW j \in 1 .. n, i < j PROVE Under(Items(parts[i]), Items(parts[j]))
      <3>1. /\ i - 1 \in Hours /\ j - 1 \in Hours
            /\ Items(parts[i]) \subseteq Filed(files[i - 1]) /\ Items(parts[j]) \subseteq Filed(files[j - 1])
        BY <1>5
      <3>2. i - 1 < j - 1
        BY <1>1, <1>4, <2>1
      <3>3. Under(Filed(files[i - 1]), Filed(files[j - 1]))
        BY <3>1, <3>2 DEF FilesInOrder
      <3> QED BY <3>1, <3>3 DEF Under
    <2>2. \A i \in 1 .. n : Rising(parts[i])
      BY <1>5
    <2> QED BY <1>6, <2>1, <2>2 DEF InOrder
  <1>8. /\ Joined(parts) \in Seq(Nat) /\ Rising(Joined(parts))
        /\ Items(Joined(parts)) = UNION {Items(parts[i]) : i \in 1 .. n}
    BY <1>6, <1>7, JoinedIs
  <1>9. UNION {Items(parts[i]) : i \in 1 .. n} \subseteq Stored(files)
    BY <1>5 DEF Stored
  <1> QED BY <1>3, <1>8, <1>9

\* When only the last piece of the last file may have no end, everything is read.
LEMMA EverythingIsRead ==
    ASSUME NEW files, FilesInOrder(files), NEW top \in Hours,
           \A h \in Hours : h > top => files[h] = << >>,
           \A h \in Hours : \A i \in Unended(files[h]) : h = top /\ i = Len(files[h])
    PROVE  Stored(files) \subseteq Items(ReadStream(files))
  <1> DEFINE bad == {h \in Hours : Unended(files[h]) # {}}  n == Until(bad, MaxHour) + 1
             parts == [k \in 1 .. n |-> ReadFile(files[k - 1])]
  <1>1. MaxHour \in Nat /\ Hours = 0 .. MaxHour
    BY RecorderAssumption DEF Hours
  <1>2. bad \in SUBSET Nat /\ bad \subseteq {top}
    <2>1. ASSUME NEW h \in bad PROVE h \in Nat /\ h = top
      <3>1. h \in Hours /\ Unended(files[h]) # {}
        OBVIOUS
      <3> QED BY <1>1, <3>1
    <2> HIDE DEF bad
    <2> QED BY <2>1
  <1>3. ReadStream(files) = Joined(parts)
    BY DEF ReadStream
  <1> HIDE DEF bad
  <1>4. n = MaxHour + 1 \/ n = top + 1
    <2>1. bad = {} => Until(bad, MaxHour) = MaxHour
      BY <1>2, UntilIs
    <2>2. bad # {} => Until(bad, MaxHour) \in bad
      BY <1>2, UntilIs
    <2> QED BY <1>2, <2>1, <2>2
  <1> HIDE DEF n
  <1>5. n \in 1 .. MaxHour + 1
    BY <1>1, <1>4
  <1>6. ASSUME NEW k \in 1 .. n
        PROVE  parts[k] \in Seq(Nat) /\ Rising(parts[k]) /\ Items(parts[k]) = Filed(files[k - 1])
    <2>1. k - 1 \in Hours
      BY <1>1, <1>5
    <2>2. parts[k] = ReadFile(files[k - 1])
      OBVIOUS
    <2> HIDE DEF parts
    <2>3. files[k - 1] \in Seq(Pieces) /\ InOrder(Lines(files[k - 1]))
      BY <2>1, FileFacts
    <2>4. \A i \in Unended(files[k - 1]) : i = Len(files[k - 1])
      BY <2>1
    <2> QED BY <2>2, <2>3, <2>4, FileIsRead
  <1>7. parts \in Seq(Seq(Nat)) /\ Len(parts) = n
    <2> DEFINE T == Seq(Nat)
    <2>1. \A i \in 1 .. n : parts[i] \in T
      BY <1>6
    <2>2. parts = [i \in 1 .. n |-> parts[i]]
      OBVIOUS
    <2> HIDE DEF T, parts
    <2>3. parts \in [1 .. n -> T]
      BY <2>1, <2>2
    <2>4. n \in Nat
      BY <1>1, <1>5
    <2>5. parts \in Seq(T) /\ Len(parts) = n
      BY <2>3, <2>4, SeqDef, LenProperties
    <2> QED BY <2>5 DEF T
  <1> HIDE DEF parts
  <1>8. Items(Joined(parts)) = UNION {Items(parts[i]) : i \in 1 .. n}
    BY <1>7, JoinedIs
  <1>9. ASSUME NEW h \in Hours, NEW x \in Filed(files[h]) PROVE x \in Items(Joined(parts))
    <2>1. ~(h > top)
      BY <1>9, EmptyFile
    <2> DEFINE k == h + 1
    <2>2. k \in 1 .. n /\ k - 1 = h
      BY <1>1, <1>4, <2>1
    <2> HIDE DEF k
    <2>3. Items(parts[k]) = Filed(files[h])
      BY <1>6, <2>2
    <2> QED BY <1>8, <1>9, <2>2, <2>3
  <1> QED BY <1>3, <1>9 DEF Stored

-----------------------------------------------------------------------------
(* The files of a stream, and what a flush does to them. *)

\* More can be put into this file: it is after everything that is stored, and no file is
\* after this one.
RoomFor(more, files, h) ==
  /\ Under(Stored(files), more)
  /\ more # {} => \A g \in Hours : g > h => files[g] = << >>

Replaced(files, h, p) == [files EXCEPT ![h] = p]

\* One file changes, by what is after everything that is stored.
LEMMA FileChanges ==
    ASSUME NEW files, FilesInOrder(files), NEW h \in Hours,
           NEW p \in Seq(Pieces), InOrder(Lines(p)),
           NEW more, Filed(p) = Filed(files[h]) \cup more, RoomFor(more, files, h)
    PROVE  LET new == Replaced(files, h, p) IN
           /\ FilesInOrder(new) /\ Stored(new) = Stored(files) \cup more
           /\ new[h] = p /\ \A g \in Hours : g # h => new[g] = files[g]
  <1> DEFINE new == Replaced(files, h, p)
  <1>1. files \in [Hours -> Seq(Pieces)]
    BY DEF FilesInOrder
  <1>2. new \in [Hours -> Seq(Pieces)] /\ new[h] = p /\ \A g \in Hours : g # h => new[g] = files[g]
    BY <1>1 DEF Replaced
  <1> HIDE DEF new
  <1>3. \A g \in Hours : Filed(files[g]) \subseteq Stored(files)
    BY DEF Stored
  <1>4. \A g \in Hours : InOrder(Lines(new[g]))
    <2>1. ASSUME NEW g \in Hours PROVE InOrder(Lines(new[g]))
      <3>1. CASE g = h
        BY <1>2, <3>1
      <3>2. CASE g # h
        BY <1>2, <3>2 DEF FilesInOrder
      <3> QED BY <3>1, <3>2
    <2> QED BY <2>1
  <1>5. ASSUME NEW g \in Hours, NEW k \in Hours, g < k PROVE Under(Filed(new[g]), Filed(new[k]))
    <2>1. Under(Filed(files[g]), Filed(files[k]))
      BY <1>5 DEF FilesInOrder
    <2>2. CASE g # h /\ k # h
      BY <1>2, <2>1, <2>2
    <2>3. CASE k = h /\ g # h
      <3>1. Filed(new[g]) = Filed(files[g]) /\ Filed(new[k]) = Filed(files[k]) \cup more
        BY <1>2, <2>3
      <3> QED BY <1>3, <2>1, <3>1 DEF Under, RoomFor
    <2>4. CASE g = h /\ k # h
      <3>1. Filed(new[g]) = Filed(files[g]) \cup more /\ Filed(new[k]) = Filed(files[k])
        BY <1>2, <2>4
      <3>2. CASE more = {}
        BY <2>1, <3>1, <3>2
      <3>3. CASE more # {}
        <4>1. Filed(files[k]) = {}
          <5>1. k > h
            BY <1>5, <2>4, RecorderAssumption DEF Hours
          <5> QED BY <3>3, <5>1, EmptyFile DEF RoomFor
        <4> QED BY <3>1, <4>1 DEF Under
      <3> QED BY <3>2, <3>3
    <2>5. g # k
      BY <1>5, RecorderAssumption DEF Hours
    <2> QED BY <2>2, <2>3, <2>4, <2>5
  <1>6. Stored(new) = Stored(files) \cup more
    <2>1. ASSUME NEW x \in Stored(new) PROVE x \in Stored(files) \cup more
      <3>1. PICK g \in Hours : x \in Filed(new[g])
        BY <2>1 DEF Stored
      <3>2. CASE g = h
        BY <1>2, <1>3, <3>1, <3>2
      <3>3. CASE g # h
        BY <1>2, <1>3, <3>1, <3>3
      <3> QED BY <3>2, <3>3
    <2>2. ASSUME NEW x \in Stored(files) PROVE x \in Stored(new)
      <3>1. PICK g \in Hours : x \in Filed(files[g])
        BY <2>2 DEF Stored
      <3>2. x \in Filed(new[g])
        <4>1. CASE g = h
          BY <1>2, <3>1, <4>1
        <4>2. CASE g # h
          BY <1>2, <3>1, <4>2
        <4> QED BY <4>1, <4>2
      <3> QED BY <3>2 DEF Stored
    <2>3. ASSUME NEW x \in more PROVE x \in Stored(new)
      <3>1. x \in Filed(new[h])
        BY <1>2, <2>3
      <3> QED BY <3>1 DEF Stored
    <2> QED BY <2>1, <2>2, <2>3
  <1> QED BY <1>2, <1>4, <1>5, <1>6 DEF FilesInOrder, new

\* Closing the file of a handle ends its last piece.
LEMMA ClosedFits ==
    ASSUME NEW s, NEW files, NEW open, NEW hour, NEW faults, NEW none,
           StreamFits(s, files, open, hour, faults), s \in DOMAIN open, s \notin DOMAIN none
    PROVE  LET new == [files EXCEPT ![open[s]] = Close(@)] IN
           /\ StreamFits(s, new, none, hour, faults) /\ Stored(new) = Stored(files)
           /\ \A g \in Hours : g # open[s] => new[g] = files[g]
  <1> DEFINE o == open[s]  p == Close(files[o])  new == Replaced(files, o, p)
  <1>1. /\ FilesInOrder(files) /\ o \in Hours /\ o <= hour /\ files[o] # << >>
        /\ \A h \in Hours : h > hour => files[h] = << >>
        /\ faults = 0 => \A h \in Hours : \A i \in Unended(files[h]) : h = o /\ i = Len(files[h])
    BY DEF StreamFits
  <1> HIDE DEF o
  <1>2. files[o] \in Seq(Pieces) /\ InOrder(Lines(files[o]))
    BY <1>1, FileFacts
  <1>3. /\ p \in Seq(Pieces) /\ InOrder(Lines(p)) /\ Filed(p) = Filed(files[o]) /\ Len(p) = Len(files[o])
        /\ \A i \in Unended(p) : i \in Unended(files[o]) /\ i # Len(files[o])
    BY <1>2, CloseKeepsFile
  <1> HIDE DEF p
  <1>4. /\ FilesInOrder(new) /\ Stored(new) = Stored(files)
        /\ new[o] = p /\ \A g \in Hours : g # o => new[g] = files[g]
    <2> DEFINE more == {}
    <2>1. Filed(p) = Filed(files[o]) \cup more /\ Stored(files) \cup more = Stored(files)
      BY <1>3
    <2>2. RoomFor(more, files, o)
      BY DEF RoomFor, Under
    <2> HIDE DEF more
    <2>3. /\ FilesInOrder(new) /\ Stored(new) = Stored(files) \cup more
          /\ new[o] = p /\ \A g \in Hours : g # o => new[g] = files[g]
      BY <1>1, <1>3, <2>1, <2>2, FileChanges
    <2> HIDE DEF new
    <2> QED BY <2>1, <2>3
  <1> HIDE DEF new
  <1>5. ASSUME NEW h \in Hours, h > hour PROVE new[h] = << >>
    <2>1. h # o
      <3>1. h \in Int /\ o \in Int /\ o <= hour
        BY <1>1, RecorderAssumption DEF Hours
      <3> QED BY <1>1, <1>2, <1>5
    <2> QED BY <1>1, <1>4, <1>5, <2>1
  <1>6. ASSUME faults = 0, NEW h \in Hours, NEW i \in Unended(new[h]) PROVE FALSE
    <2>1. CASE h = o
      BY <1>1, <1>3, <1>4, <1>6, <2>1
    <2>2. CASE h # o
      BY <1>1, <1>4, <1>6, <2>2
    <2> QED BY <2>1, <2>2
  <1>7. StreamFits(s, new, none, hour, faults)
    BY <1>4, <1>5, <1>6 DEF StreamFits
  <1> QED BY <1>4, <1>7 DEF new, p, o, Replaced

\* The file that _file_for gives is of this hour, and open.
LEMMA FileForFits ==
    ASSUME NEW s, NEW files, NEW faults, StreamFits(s, files, recOpen, recHour, faults), recHour \in Hours,
           NEW open, s \in DOMAIN open, open[s] = recHour
    PROVE  StreamFits(s, FileFor(files, s), open, recHour, faults) /\ Stored(FileFor(files, s)) = Stored(files)
  <1>1. CASE s \in DOMAIN recOpen /\ recOpen[s] = recHour
    <2>1. FileFor(files, s) = files
      BY <1>1 DEF FileFor
    <2> QED BY <1>1, <2>1 DEF StreamFits
  <1>2. CASE ~(s \in DOMAIN recOpen /\ recOpen[s] = recHour)
    <2> DEFINE rotated == IF s \in DOMAIN recOpen THEN [files EXCEPT ![recOpen[s]] = Close(@)] ELSE files
               none == [x \in {} |-> 0]
               p == Append(rotated[recHour], Piece(<< >>, FALSE))
               new == Replaced(rotated, recHour, p)
    <2>1. FileFor(files, s) = new
      BY <1>2 DEF FileFor, Replaced
    <2>2. StreamFits(s, rotated, none, recHour, faults) /\ Stored(rotated) = Stored(files)
      <3>1. CASE s \in DOMAIN recOpen
        <4>1. s \notin DOMAIN none
          OBVIOUS
        <4>2. rotated = [files EXCEPT ![recOpen[s]] = Close(@)]
          BY <3>1
        <4> HIDE DEF rotated, none
        <4> QED BY <3>1, <4>1, <4>2, ClosedFits
      <3>2. CASE s \notin DOMAIN recOpen
        <4>1. rotated = files /\ s \notin DOMAIN none
          BY <3>2
        <4> HIDE DEF rotated, none
        <4> QED BY <3>2, <4>1 DEF StreamFits
      <3> QED BY <3>1, <3>2
    <2>3. /\ FilesInOrder(rotated) /\ \A h \in Hours : h > recHour => rotated[h] = << >>
          /\ faults = 0 => \A h \in Hours : Unended(rotated[h]) = {}
      <3>1. s \notin DOMAIN none
        OBVIOUS
      <3> HIDE DEF rotated, none
      <3> QED BY <2>2, <3>1 DEF StreamFits
    <2> HIDE DEF rotated
    <2>4. rotated[recHour] \in Seq(Pieces) /\ InOrder(Lines(rotated[recHour]))
      BY <2>3, FileFacts
    <2>5. /\ p \in Seq(Pieces) /\ p # << >> /\ InOrder(Lines(p)) /\ Filed(p) = Filed(rotated[recHour])
          /\ \A i \in Unended(p) : i \in Unended(rotated[recHour]) \/ i = Len(p)
      BY <2>4, OpenKeepsFile
    <2> HIDE DEF p
    <2>6. /\ FilesInOrder(new) /\ Stored(new) = Stored(rotated)
          /\ new[recHour] = p /\ \A g \in Hours : g # recHour => new[g] = rotated[g]
      <3> DEFINE more == {}
      <3>1. Filed(p) = Filed(rotated[recHour]) \cup more /\ Stored(rotated) \cup more = Stored(rotated)
        BY <2>5
      <3>2. RoomFor(more, rotated, recHour)
        BY DEF RoomFor, Under
      <3> HIDE DEF more
      <3>3. /\ FilesInOrder(new) /\ Stored(new) = Stored(rotated) \cup more
            /\ new[recHour] = p /\ \A g \in Hours : g # recHour => new[g] = rotated[g]
        BY <2>3, <2>5, <3>1, <3>2, FileChanges
      <3> HIDE DEF new
      <3> QED BY <3>1, <3>3
    <2> HIDE DEF new
    <2>7. \A h \in Hours : h > recHour => new[h] = << >>
      <3>1. \A h \in Hours : h > recHour => h # recHour
        BY RecorderAssumption DEF Hours
      <3> QED BY <2>3, <2>6, <3>1
    <2>8. ASSUME faults = 0, NEW h \in Hours, NEW i \in Unended(new[h]) PROVE h = recHour /\ i = Len(new[h])
      <3>1. CASE h = recHour
        BY <2>3, <2>5, <2>6, <2>8, <3>1
      <3>2. CASE h # recHour
        BY <2>3, <2>6, <2>8, <3>2
      <3> QED BY <3>1, <3>2
    <2>9. recHour <= recHour
      BY RecorderAssumption DEF Hours
    <2>10. StreamFits(s, new, open, recHour, faults)
      BY <2>5, <2>6, <2>7, <2>8, <2>9 DEF StreamFits
    <2> QED BY <2>1, <2>2, <2>6, <2>10
  <1> QED BY <1>1, <1>2

\* The lines of a flush go to the end of the open file.
LEMMA AppendedFits ==
    ASSUME NEW s, NEW files, NEW open, NEW hour, NEW faults,
           StreamFits(s, files, open, hour, faults), s \in DOMAIN open, open[s] = hour,
           NEW lines \in Seq(Nat), Rising(lines), Under(Stored(files), Items(lines))
    PROVE  LET new == Replaced(files, hour, AppendLines(files[hour], lines)) IN
           StreamFits(s, new, open, hour, faults) /\ Stored(new) = Stored(files) \cup Items(lines)
  <1> DEFINE p == AppendLines(files[hour], lines)  new == Replaced(files, hour, p)
  <1>1. /\ FilesInOrder(files) /\ hour \in Hours /\ hour <= hour /\ files[hour] # << >>
        /\ \A h \in Hours : h > hour => files[h] = << >>
        /\ faults = 0 => \A h \in Hours : \A i \in Unended(files[h]) : h = hour /\ i = Len(files[h])
    BY DEF StreamFits
  <1>2. files[hour] \in Seq(Pieces) /\ InOrder(Lines(files[hour]))
    BY <1>1, FileFacts
  <1>3. Under(Filed(files[hour]), Items(lines))
    <2>1. Filed(files[hour]) \subseteq Stored(files)
      BY <1>1 DEF Stored
    <2> QED BY <2>1 DEF Under
  <1>4. /\ p \in Seq(Pieces) /\ p # << >> /\ InOrder(Lines(p)) /\ Filed(p) = Filed(files[hour]) \cup Items(lines)
        /\ Len(p) = Len(files[hour]) /\ Unended(p) = Unended(files[hour])
    BY <1>1, <1>2, <1>3, AppendKeepsFile
  <1> HIDE DEF p
  <1>5. /\ FilesInOrder(new) /\ Stored(new) = Stored(files) \cup Items(lines)
        /\ new[hour] = p /\ \A g \in Hours : g # hour => new[g] = files[g]
    <2> DEFINE more == Items(lines)
    <2>1. Filed(p) = Filed(files[hour]) \cup more
      BY <1>4
    <2>2. RoomFor(more, files, hour)
      BY <1>1 DEF RoomFor
    <2> HIDE DEF more
    <2>3. /\ FilesInOrder(new) /\ Stored(new) = Stored(files) \cup more
          /\ new[hour] = p /\ \A g \in Hours : g # hour => new[g] = files[g]
      BY <1>1, <1>4, <2>1, <2>2, FileChanges
    <2> QED BY <2>3 DEF more
  <1> HIDE DEF new
  <1>6. \A h \in Hours : h > hour => new[h] = << >>
    <2>1. \A h \in Hours : h > hour => h # hour
      BY <1>1, RecorderAssumption DEF Hours
    <2> QED BY <1>1, <1>5, <2>1
  <1>7. ASSUME faults = 0, NEW h \in Hours, NEW i \in Unended(new[h]) PROVE h = hour /\ i = Len(new[h])
    <2>1. CASE h = hour
      BY <1>1, <1>4, <1>5, <1>7, <2>1
    <2>2. CASE h # hour
      BY <1>1, <1>5, <1>7, <2>2
    <2> QED BY <2>1, <2>2
  <1>8. StreamFits(s, new, open, hour, faults)
    BY <1>1, <1>4, <1>5, <1>6, <1>7 DEF StreamFits
  <1> QED BY <1>5, <1>8 DEF new, p

LEMMA LinesAreTheStreams ==
    ASSUME NEW s, NEW buffer, NEW log, BufferFits(buffer, log)
    PROVE  /\ LinesOf(s, buffer) \in Seq(Nat) /\ Rising(LinesOf(s, buffer))
           /\ Items(LinesOf(s, buffer)) = {buffer[k][2] : k \in {j \in 1 .. Len(buffer) : buffer[j][1] = s}}
  <1> DEFINE n == Len(buffer)
             Part(k) == IF buffer[k][1] = s THEN <<buffer[k][2]>> ELSE << >>
             parts == [k \in 1 .. n |-> Part(k)]
  <1>1. n \in Nat /\ \A k \in 1 .. n : buffer[k][2] \in Nat
    <2>1. buffer \in Seq(Streams \X Nat)
      BY DEF BufferFits
    <2>2. n \in Nat /\ \A k \in 1 .. n : buffer[k] \in Streams \X Nat
      BY <2>1, LenProperties, ElementOfSeq
    <2> QED BY <2>2
  <1>2. LinesOf(s, buffer) = Joined(parts)
    BY DEF LinesOf
  <1>3. ASSUME NEW k \in 1 .. n
        PROVE  /\ parts[k] \in Seq(Nat) /\ Rising(parts[k])
               /\ Items(parts[k]) = IF buffer[k][1] = s THEN {buffer[k][2]} ELSE {}
    <2>1. parts[k] = Part(k)
      OBVIOUS
    <2> HIDE DEF parts
    <2>2. CASE buffer[k][1] = s
      <3>1. parts[k] = <<buffer[k][2]>>
        BY <2>1, <2>2
      <3>2. Len(<<buffer[k][2]>>) = 1 /\ <<buffer[k][2]>>[1] = buffer[k][2]
        OBVIOUS
      <3>3. Items(<<buffer[k][2]>>) = {buffer[k][2]}
        BY <3>2 DEF Items
      <3>4. Rising(<<buffer[k][2]>>)
        BY <3>2 DEF Rising
      <3>5. <<buffer[k][2]>> \in Seq(Nat)
        BY <1>1
      <3> QED BY <2>2, <3>1, <3>3, <3>4, <3>5
    <2>3. CASE buffer[k][1] # s
      <3>1. parts[k] = << >> /\ Len(<< >>) = 0 /\ << >> \in Seq(Nat)
        BY <2>1, <2>3, EmptySeq
      <3> QED BY <2>3, <3>1 DEF Items, Rising
    <2> QED BY <2>2, <2>3
  <1>4. parts \in Seq(Seq(Nat)) /\ Len(parts) = n
    <2> DEFINE T == Seq(Nat)
    <2>1. parts = [k \in 1 .. n |-> parts[k]]
      OBVIOUS
    <2> HIDE DEF parts
    <2>2. \A k \in 1 .. n : parts[k] \in T
      BY <1>3
    <2> HIDE DEF T, n
    <2>3. parts \in [1 .. n -> T]
      BY <2>1, <2>2
    <2>4. parts \in Seq(T) /\ Len(parts) = n
      BY <1>1, <2>3, SeqDef, LenProperties
    <2> QED BY <2>4 DEF T
  <1> HIDE DEF parts
  <1>5. InOrder(parts)
    <2>1. ASSUME NEW i \in 1 .. n, NEW j \in 1 .. n, i < j PROVE Under(Items(parts[i]), Items(parts[j]))
      <3>1. buffer[i][2] < buffer[j][2]
        BY <2>1 DEF BufferFits
      <3>2. Items(parts[i]) \subseteq {buffer[i][2]} /\ Items(parts[j]) \subseteq {buffer[j][2]}
        BY <1>3
      <3> QED BY <3>1, <3>2 DEF Under
    <2> QED BY <1>3, <1>4, <2>1 DEF InOrder
  <1>6. /\ Joined(parts) \in Seq(Nat) /\ Rising(Joined(parts))
        /\ Items(Joined(parts)) = UNION {Items(parts[i]) : i \in 1 .. n}
    BY <1>4, <1>5, JoinedIs
  <1>7. UNION {Items(parts[i]) : i \in 1 .. n} = {buffer[k][2] : k \in {j \in 1 .. n : buffer[j][1] = s}}
    <2> HIDE DEF n
    <2>1. ASSUME NEW x \in UNION {Items(parts[i]) : i \in 1 .. n}
          PROVE  x \in {buffer[k][2] : k \in {j \in 1 .. n : buffer[j][1] = s}}
      <3>1. PICK i \in 1 .. n : x \in Items(parts[i])
        BY <2>1
      <3>2. buffer[i][1] = s /\ x = buffer[i][2]
        BY <1>3, <3>1
      <3> QED BY <3>2
    <2>2. ASSUME NEW k \in 1 .. n, buffer[k][1] = s PROVE buffer[k][2] \in UNION {Items(parts[i]) : i \in 1 .. n}
      <3>1. buffer[k][2] \in Items(parts[k])
        BY <1>3, <2>2
      <3> QED BY <3>1
    <2> QED BY <2>1, <2>2
  <1> QED BY <1>2, <1>6, <1>7

-----------------------------------------------------------------------------
(* The recorder's steps. *)

\* More faults ask less of the files.
LEMMA FaultsAskLess ==
    ASSUME NEW s, NEW files, NEW open, NEW hour, NEW faults, NEW more,
           StreamFits(s, files, open, hour, faults), more = 0 => faults = 0
    PROVE  StreamFits(s, files, open, hour, more)
  BY DEF StreamFits

\* The records of a stream in the buffer.
OfStream(s, buffer) == {buffer[k][2] : k \in {j \in 1 .. Len(buffer) : buffer[j][1] = s}}

LEMMA FlushedStream ==
    ASSUME NEW buffer, NEW log, NEW failing \in SUBSET InBuffer(buffer), NEW s \in Streams,
           DiskFits(recDisk, recOpen, recHour, recFaults),
           RecordsFit(buffer, log, recLost, recFaults, recDisk), Flush(buffer, failing)
    PROVE  /\ StreamFits(s, recDisk'[s], recOpen', recHour, recFaults')
           /\ Stored(recDisk'[s]) = Stored(recDisk[s]) \cup IF s \in failing THEN {} ELSE OfStream(s, buffer)
  <1> DEFINE files == recDisk[s]  streams == InBuffer(buffer)
  <1>1. /\ StreamFits(s, files, recOpen, recHour, recFaults) /\ recHour \in Hours /\ recFaults \in Nat
        /\ BufferFits(buffer, log) /\ Under(Stored(files), Buffered(buffer))
    BY DEF DiskFits, RecordsFit
  <1>2. /\ DOMAIN recOpen' = DOMAIN recOpen \cup streams
        /\ s \in DOMAIN recOpen' => recOpen'[s] = IF s \in streams THEN recHour ELSE recOpen[s]
        /\ recDisk'[s] = IF s \notin streams THEN files
                         ELSE IF s \in failing THEN FileFor(files, s)
                         ELSE [FileFor(files, s) EXCEPT ![recHour] = AppendLines(@, LinesOf(s, buffer))]
        /\ recFaults' = recFaults + IF failing = {} THEN 0 ELSE 1
    <2>1. /\ recOpen' = [x \in DOMAIN recOpen \cup streams |-> IF x \in streams THEN recHour ELSE recOpen[x]]
          /\ recDisk' = [x \in Streams |->
                IF x \notin streams THEN recDisk[x]
                ELSE IF x \in failing THEN FileFor(recDisk[x], x)
                ELSE [FileFor(recDisk[x], x) EXCEPT ![recHour] = AppendLines(@, LinesOf(x, buffer))]]
          /\ recFaults' = recFaults + IF failing = {} THEN 0 ELSE 1
      BY DEF Flush
    <2> HIDE DEF streams
    <2> QED BY <2>1
  <1>3. recFaults' = 0 => recFaults = 0
    BY <1>1, <1>2
  <1>4. buffer \in Seq(Streams \X Nat) /\ DOMAIN buffer = 1 .. Len(buffer)
    BY <1>1, LenProperties DEF BufferFits
  <1> HIDE DEF files
  <1>5. CASE s \notin streams
    <2>1. recDisk'[s] = files /\ s \notin failing
      BY <1>2, <1>5
    <2>2. OfStream(s, buffer) = {}
      BY <1>4, <1>5 DEF OfStream, InBuffer
    <2>3. StreamFits(s, files, recOpen', recHour, recFaults)
      BY <1>1, <1>2, <1>5 DEF StreamFits
    <2> QED BY <1>3, <2>1, <2>2, <2>3, FaultsAskLess DEF files
  <1>6. CASE s \in streams
    <2> DEFINE opened == FileFor(files, s)
    <2>1. s \in DOMAIN recOpen' /\ recOpen'[s] = recHour
      BY <1>2, <1>6
    <2>2. StreamFits(s, opened, recOpen', recHour, recFaults) /\ Stored(opened) = Stored(files)
      BY <1>1, <2>1, FileForFits
    <2> HIDE DEF opened
    <2>3. CASE s \in failing
      <3>1. recDisk'[s] = opened
        BY <1>2, <1>6, <2>3 DEF opened
      <3> QED BY <1>3, <2>2, <2>3, <3>1, FaultsAskLess DEF files
    <2>4. CASE s \notin failing
      <3> DEFINE lines == LinesOf(s, buffer)  new == Replaced(opened, recHour, AppendLines(opened[recHour], lines))
      <3>1. recDisk'[s] = new
        BY <1>2, <1>6, <2>4 DEF opened, Replaced
      <3>2. lines \in Seq(Nat) /\ Rising(lines) /\ Items(lines) = OfStream(s, buffer)
        BY <1>1, LinesAreTheStreams DEF OfStream
      <3>3. Under(Stored(opened), Items(lines))
        <4>1. OfStream(s, buffer) \subseteq Buffered(buffer)
          BY DEF OfStream, Buffered
        <4> HIDE DEF lines
        <4> QED BY <1>1, <2>2, <3>2, <4>1 DEF Under
      <3> HIDE DEF lines
      <3>4. StreamFits(s, new, recOpen', recHour, recFaults) /\ Stored(new) = Stored(opened) \cup Items(lines)
        BY <2>1, <2>2, <3>2, <3>3, AppendedFits
      <3> HIDE DEF new
      <3> QED BY <1>3, <2>2, <2>4, <3>1, <3>2, <3>4, FaultsAskLess DEF files
    <2> QED BY <2>3, <2>4
  <1> QED BY <1>5, <1>6

LEMMA FlushKeeps ==
    ASSUME NEW buffer, NEW log, NEW failing \in SUBSET InBuffer(buffer),
           DiskFits(recDisk, recOpen, recHour, recFaults),
           RecordsFit(buffer, log, recLost, recFaults, recDisk),
           Flush(buffer, failing), recHour' = recHour
    PROVE  /\ DiskFits(recDisk', recOpen', recHour', recFaults')
           /\ RecordsFit(recBuffer', log, recLost', recFaults', recDisk')
  <1> DEFINE Gone == {buffer[i][2] : i \in {j \in DOMAIN buffer : buffer[j][1] \in failing}}
  <1>1. /\ recBuffer' = << >> /\ recLost' = recLost \cup Gone
        /\ recFaults' = recFaults + IF failing = {} THEN 0 ELSE 1
    BY DEF Flush
  <1>2. /\ recHour \in Hours /\ recFaults \in Nat /\ recFaults' \in Nat
        /\ recFaults' = 0 => recFaults = 0 /\ failing = {}
    BY <1>1 DEF DiskFits
  <1>3. ASSUME NEW s \in Streams
        PROVE  /\ StreamFits(s, recDisk'[s], recOpen', recHour, recFaults')
               /\ Stored(recDisk'[s]) = Stored(recDisk[s]) \cup IF s \in failing THEN {} ELSE OfStream(s, buffer)
    BY FlushedStream
  <1>4. DiskFits(recDisk', recOpen', recHour', recFaults')
    BY <1>2, <1>3 DEF DiskFits
  <1>5. /\ BufferFits(buffer, log)
        /\ recLost \subseteq 1 .. Len(log) /\ Under(recLost, Buffered(buffer))
        /\ \A s \in Streams :
             /\ Under(Stored(recDisk[s]), Buffered(buffer))
             /\ \A n \in Stored(recDisk[s]) : n \in 1 .. Len(log) /\ log[n] = s /\ n \notin recLost
        /\ recFaults = 0 => \A n \in 1 .. Len(log) : n \in Stored(recDisk[log[n]]) \cup Buffered(buffer)
    BY DEF RecordsFit
  <1>6. /\ log \in Seq(Streams) /\ buffer \in Seq(Streams \X Nat)
        /\ \A k \in 1 .. Len(buffer) : buffer[k][2] \in 1 .. Len(log) /\ log[buffer[k][2]] = buffer[k][1]
    BY <1>5 DEF BufferFits
  <1>7. DOMAIN buffer = 1 .. Len(buffer) /\ Len(log) \in Nat
    BY <1>6, LenProperties
  <1>8. ASSUME NEW n \in Gone PROVE n \in 1 .. Len(log) /\ log[n] \in failing /\ n \in Buffered(buffer)
    BY <1>6, <1>7 DEF Buffered
  <1> HIDE DEF Gone
  <1>9. BufferFits(recBuffer', log) /\ Buffered(recBuffer') = {}
    <2>1. << >> \in Seq(Streams \X Nat) /\ Len(<< >>) = 0
      BY EmptySeq
    <2> QED BY <1>1, <1>6, <2>1 DEF BufferFits, Buffered
  <1>10. recLost' \subseteq 1 .. Len(log)
    BY <1>1, <1>5, <1>8
  <1>11. ASSUME NEW s \in Streams, NEW n \in Stored(recDisk'[s])
         PROVE  n \in 1 .. Len(log) /\ log[n] = s /\ n \notin recLost'
    <2>1. CASE n \in Stored(recDisk[s])
      <3>1. n \in 1 .. Len(log) /\ log[n] = s /\ n \notin recLost
        BY <1>5, <2>1
      <3>2. ASSUME n \in Gone PROVE FALSE
        <4>1. n < n
          BY <1>5, <1>8, <2>1, <3>2 DEF Under
        <4> QED BY <3>1, <4>1
      <3> QED BY <1>1, <3>1, <3>2
    <2>2. CASE n \notin Stored(recDisk[s])
      <3>1. s \notin failing /\ n \in OfStream(s, buffer)
        BY <1>3, <2>2, <1>11
      <3>2. n \in 1 .. Len(log) /\ log[n] = s /\ n \in Buffered(buffer)
        BY <1>6, <3>1 DEF OfStream, Buffered
      <3>3. ASSUME n \in recLost PROVE FALSE
        <4>1. n < n
          BY <1>5, <3>2, <3>3 DEF Under
        <4> QED BY <3>2, <4>1
      <3> QED BY <1>1, <1>8, <3>1, <3>2, <3>3
    <2> QED BY <2>1, <2>2
  <1>12. ASSUME recFaults' = 0, NEW n \in 1 .. Len(log) PROVE n \in Stored(recDisk'[log[n]])
    <2>1. n \in Stored(recDisk[log[n]]) \cup Buffered(buffer) /\ failing = {}
      BY <1>2, <1>5, <1>12
    <2>2. log[n] \in Streams
      BY <1>6, ElementOfSeq
    <2>3. Stored(recDisk'[log[n]]) = Stored(recDisk[log[n]]) \cup OfStream(log[n], buffer)
      BY <1>3, <2>1, <2>2
    <2>4. ASSUME n \in Buffered(buffer) PROVE n \in OfStream(log[n], buffer)
      <3>1. PICK k \in 1 .. Len(buffer) : n = buffer[k][2]
        BY <2>4 DEF Buffered
      <3>2. log[n] = buffer[k][1]
        BY <1>6, <3>1
      <3> QED BY <3>1, <3>2 DEF OfStream
    <2> QED BY <2>1, <2>3, <2>4
  <1>13. RecordsFit(recBuffer', log, recLost', recFaults', recDisk')
    <2>1. Under(recLost', Buffered(recBuffer')) /\ \A s \in Streams : Under(Stored(recDisk'[s]), Buffered(recBuffer'))
      BY <1>9 DEF Under
    <2> QED BY <1>9, <1>10, <1>11, <1>12, <2>1 DEF RecordsFit
  <1> QED BY <1>4, <1>13

\* What is recorded is the newest in the buffer.
LEMMA RecordedFits ==
    ASSUME NEW s \in Streams, RecordsFit(recBuffer, recLog, recLost, recFaults, recDisk)
    PROVE  RecordsFit(Append(recBuffer, <<s, Len(recLog) + 1>>), Append(recLog, s), recLost, recFaults, recDisk)
  <1> DEFINE n == Len(recLog)  m == Len(recBuffer)  entry == <<s, n + 1>>
             log == Append(recLog, s)  buffer == Append(recBuffer, entry)
  <1>1. /\ recLog \in Seq(Streams) /\ recBuffer \in Seq(Streams \X Nat)
        /\ \A k \in 1 .. m : recBuffer[k][2] \in 1 .. n /\ recLog[recBuffer[k][2]] = recBuffer[k][1]
        /\ \A j, k \in 1 .. m : j < k => recBuffer[j][2] < recBuffer[k][2]
    BY DEF RecordsFit, BufferFits
  <1>2. n \in Nat /\ m \in Nat /\ entry \in Streams \X Nat
    BY <1>1, LenProperties
  <1>3. log \in Seq(Streams) /\ Len(log) = n + 1 /\ log[n + 1] = s /\ \A i \in 1 .. n : log[i] = recLog[i]
    BY <1>1, AppendProperties
  <1>4. /\ buffer \in Seq(Streams \X Nat) /\ Len(buffer) = m + 1
        /\ buffer[m + 1] = entry /\ \A i \in 1 .. m : buffer[i] = recBuffer[i]
    <2> HIDE DEF entry
    <2> QED BY <1>1, <1>2, AppendProperties
  <1>5. entry[1] = s /\ entry[2] = n + 1
    OBVIOUS
  <1> HIDE DEF log, buffer, entry, n, m
  <1>6. ASSUME NEW k \in 1 .. m + 1
        PROVE  buffer[k][2] \in 1 .. n + 1 /\ log[buffer[k][2]] = buffer[k][1]
    <2>1. CASE k = m + 1
      BY <1>2, <1>3, <1>4, <1>5, <2>1
    <2>2. CASE k # m + 1
      <3>1. k \in 1 .. m
        BY <1>2, <2>2
      <3>2. buffer[k] = recBuffer[k] /\ recBuffer[k][2] \in 1 .. n
        BY <1>1, <1>4, <3>1
      <3>3. recBuffer[k][2] \in 1 .. n + 1 /\ log[recBuffer[k][2]] = recLog[recBuffer[k][2]]
        BY <1>2, <1>3, <3>2
      <3> QED BY <1>1, <3>1, <3>2, <3>3
    <2> QED BY <2>1, <2>2
  <1>7. ASSUME NEW j \in 1 .. m + 1, NEW k \in 1 .. m + 1, j < k PROVE buffer[j][2] < buffer[k][2]
    <2>1. j \in 1 .. m
      BY <1>2, <1>7
    <2>2. buffer[j] = recBuffer[j] /\ recBuffer[j][2] \in 1 .. n
      BY <1>1, <1>4, <2>1
    <2>3. CASE k = m + 1
      <3>1. buffer[k][2] = n + 1
        BY <1>4, <1>5, <2>3
      <3> QED BY <1>2, <2>2, <3>1
    <2>4. CASE k # m + 1
      <3>1. k \in 1 .. m
        BY <1>2, <2>4
      <3> QED BY <1>1, <1>4, <1>7, <2>1, <3>1
    <2> QED BY <2>3, <2>4
  <1>8. BufferFits(buffer, log)
    BY <1>3, <1>4, <1>6, <1>7 DEF BufferFits
  <1>9. Buffered(buffer) = Buffered(recBuffer) \cup {n + 1}
    <2>1. ASSUME NEW k \in 1 .. m + 1 PROVE buffer[k][2] \in Buffered(recBuffer) \cup {n + 1}
      <3>1. CASE k = m + 1
        BY <1>4, <1>5, <3>1
      <3>2. CASE k # m + 1
        <4>1. k \in 1 .. m
          BY <1>2, <3>2
        <4> QED BY <1>4, <4>1 DEF Buffered, m
      <3> QED BY <3>1, <3>2
    <2>2. ASSUME NEW k \in 1 .. m PROVE recBuffer[k][2] \in Buffered(buffer)
      <3>1. k \in 1 .. m + 1 /\ buffer[k] = recBuffer[k]
        BY <1>2, <1>4
      <3> QED BY <1>4, <3>1 DEF Buffered
    <2>3. n + 1 \in Buffered(buffer)
      <3>1. m + 1 \in 1 .. m + 1 /\ buffer[m + 1][2] = n + 1
        BY <1>2, <1>4, <1>5
      <3> QED BY <1>4, <3>1 DEF Buffered
    <2>4. Buffered(buffer) \subseteq Buffered(recBuffer) \cup {n + 1}
      BY <1>4, <2>1 DEF Buffered
    <2>5. Buffered(recBuffer) \subseteq Buffered(buffer)
      BY <2>2 DEF Buffered, m
    <2> QED BY <2>3, <2>4, <2>5
  <1>10. ASSUME NEW A, Under(A, Buffered(recBuffer)), A \subseteq 1 .. n
         PROVE  Under(A, Buffered(buffer)) /\ A \subseteq 1 .. n + 1
    BY <1>2, <1>9, <1>10 DEF Under
  <1>11. /\ recLost \subseteq 1 .. n /\ Under(recLost, Buffered(recBuffer))
         /\ \A x \in Streams :
              /\ Under(Stored(recDisk[x]), Buffered(recBuffer))
              /\ \A i \in Stored(recDisk[x]) : i \in 1 .. n /\ recLog[i] = x /\ i \notin recLost
         /\ recFaults = 0 => \A i \in 1 .. n : i \in Stored(recDisk[recLog[i]]) \cup Buffered(recBuffer)
    BY DEF RecordsFit, n
  <1>12. recLost \subseteq 1 .. n + 1 /\ Under(recLost, Buffered(buffer))
    BY <1>10, <1>11
  <1>13. ASSUME NEW x \in Streams
         PROVE  /\ Under(Stored(recDisk[x]), Buffered(buffer))
                /\ \A i \in Stored(recDisk[x]) : i \in 1 .. n + 1 /\ log[i] = x /\ i \notin recLost
    <2>1. Stored(recDisk[x]) \subseteq 1 .. n /\ Under(Stored(recDisk[x]), Buffered(recBuffer))
      BY <1>11
    <2>2. Under(Stored(recDisk[x]), Buffered(buffer)) /\ Stored(recDisk[x]) \subseteq 1 .. n + 1
      BY <1>10, <2>1
    <2> QED BY <1>3, <1>11, <2>1, <2>2
  <1>14. ASSUME recFaults = 0, NEW i \in 1 .. n + 1 PROVE i \in Stored(recDisk[log[i]]) \cup Buffered(buffer)
    <2>1. CASE i = n + 1
      BY <1>9, <2>1
    <2>2. CASE i # n + 1
      <3>1. i \in 1 .. n
        BY <1>2, <2>2
      <3> QED BY <1>3, <1>9, <1>11, <1>14, <3>1
    <2> QED BY <2>1, <2>2
  <1>15. RecordsFit(buffer, log, recLost, recFaults, recDisk)
    BY <1>3, <1>8, <1>12, <1>13, <1>14 DEF RecordsFit
  <1> QED BY <1>15 DEF buffer, log, entry, n

LEMMA RecInvInit == RecInit => RecInv
  <1> SUFFICES ASSUME RecInit PROVE RecInv
    OBVIOUS
  <1>1. /\ recBuffer = << >> /\ recHour = 0 /\ recOpen = [s \in {} |-> 0]
        /\ recDisk = [s \in Streams |-> [h \in Hours |-> << >>]]
        /\ recFaults = 0 /\ recLog = << >> /\ recLost = {}
    BY DEF RecInit
  <1>2. ASSUME NEW s \in Streams
        PROVE  /\ \A h \in Hours : recDisk[s][h] = << >>
               /\ recDisk[s] \in [Hours -> Seq(Pieces)] /\ Stored(recDisk[s]) = {}
    <2>1. recDisk[s] = [h \in Hours |-> << >>] /\ << >> \in Seq(Pieces)
      BY <1>1, EmptySeq
    <2>2. \A h \in Hours : recDisk[s][h] = << >>
      BY <2>1
    <2>3. recDisk[s] \in [Hours -> Seq(Pieces)]
      <3> DEFINE T == Seq(Pieces)
      <3>1. << >> \in T
        BY <2>1
      <3> HIDE DEF T
      <3>2. recDisk[s] \in [Hours -> T]
        BY <2>1, <3>1
      <3> QED BY <3>2 DEF T
    <2> QED BY <2>2, <2>3, EmptyFile DEF Stored
  <1>3. ASSUME NEW s \in Streams PROVE StreamFits(s, recDisk[s], recOpen, recHour, recFaults)
    <2>1. s \notin DOMAIN recOpen
      BY <1>1
    <2>2. Lines(<< >>) = << >> /\ InOrder(<< >>)
      <3>1. Len(<< >>) = 0
        BY EmptySeq
      <3> QED BY <3>1 DEF Lines, InOrder
    <2>3. FilesInOrder(recDisk[s])
      <3>1. \A h \in Hours : InOrder(Lines(recDisk[s][h])) /\ Filed(recDisk[s][h]) = {}
        BY <1>2, <2>2, EmptyFile
      <3>2. \A g, h \in Hours : g < h => Under(Filed(recDisk[s][g]), Filed(recDisk[s][h]))
        BY <3>1 DEF Under
      <3> QED BY <1>2, <3>1, <3>2 DEF FilesInOrder
    <2>4. \A h \in Hours : Unended(recDisk[s][h]) = {}
      BY <1>2, EmptyFile
    <2> QED BY <1>2, <2>1, <2>3, <2>4 DEF StreamFits
  <1>4. DiskFits(recDisk, recOpen, recHour, recFaults)
    BY <1>1, <1>3, RecorderAssumption DEF DiskFits, Hours
  <1>5. RecordsFit(recBuffer, recLog, recLost, recFaults, recDisk)
    <2>1. Len(<< >>) = 0 /\ << >> \in Seq(Streams) /\ << >> \in Seq(Streams \X Nat)
      BY EmptySeq
    <2>2. BufferFits(recBuffer, recLog) /\ Buffered(recBuffer) = {}
      BY <1>1, <2>1 DEF BufferFits, Buffered
    <2> QED BY <1>1, <1>2, <2>1, <2>2 DEF RecordsFit, Under
  <1> QED BY <1>4, <1>5 DEF RecInv

LEMMA WriteKeeps ==
    ASSUME RecInv, NEW s \in Streams, Write(s)
    PROVE  RecInv'
  <1> DEFINE buffer == Append(recBuffer, <<s, Len(recLog) + 1>>)
  <1>1. /\ DiskFits(recDisk, recOpen, recHour, recFaults)
        /\ RecordsFit(buffer, recLog', recLost, recFaults, recDisk)
    <2>1. recLog' = Append(recLog, s)
      BY DEF Write
    <2> QED BY <2>1, RecordedFits DEF RecInv
  <1>2. /\ recHour' = recHour
        /\ \/ recBuffer' = buffer /\ UNCHANGED <<recOpen, recDisk, recFaults, recLost>>
           \/ \E failing \in Faults(buffer) : Flush(buffer, failing)
    BY DEF Write
  <1> HIDE DEF buffer
  <1>3. CASE recBuffer' = buffer /\ UNCHANGED <<recOpen, recDisk, recFaults, recLost>>
    BY <1>1, <1>2, <1>3 DEF RecInv
  <1>4. CASE \E failing \in Faults(buffer) : Flush(buffer, failing)
    <2>1. PICK failing \in Faults(buffer) : Flush(buffer, failing)
      BY <1>4
    <2>2. failing \in SUBSET InBuffer(buffer)
      BY DEF Faults
    <2>3. /\ DiskFits(recDisk', recOpen', recHour', recFaults')
          /\ RecordsFit(recBuffer', recLog', recLost', recFaults', recDisk')
      BY <1>1, <1>2, <2>1, <2>2, FlushKeeps
    <2> QED BY <2>3 DEF RecInv
  <1> QED BY <1>2, <1>3, <1>4

LEMMA FlushedKeeps ==
    ASSUME RecInv, NEW failing \in Faults(recBuffer), Flush(recBuffer, failing), UNCHANGED <<recHour, recLog>>
    PROVE  RecInv'
  <1>1. failing \in SUBSET InBuffer(recBuffer)
    BY DEF Faults
  <1>2. /\ DiskFits(recDisk, recOpen, recHour, recFaults)
        /\ RecordsFit(recBuffer, recLog, recLost, recFaults, recDisk)
    BY DEF RecInv
  <1>3. /\ DiskFits(recDisk', recOpen', recHour', recFaults')
        /\ RecordsFit(recBuffer', recLog, recLost', recFaults', recDisk')
    BY <1>1, <1>2, FlushKeeps
  <1> QED BY <1>3 DEF RecInv

LEMMA HourPassesKeeps ==
    ASSUME RecInv, HourPasses
    PROVE  RecInv'
  <1>1. recHour' \in Hours /\ recHour < recHour' /\ recHour \in Hours
    BY RecorderAssumption DEF RecInv, DiskFits, HourPasses, Hours
  <1>2. UNCHANGED <<recBuffer, recOpen, recDisk, recFaults, recLog, recLost>>
    BY DEF HourPasses
  <1>3. ASSUME NEW s \in Streams PROVE StreamFits(s, recDisk[s], recOpen, recHour', recFaults)
    <2>1. StreamFits(s, recDisk[s], recOpen, recHour, recFaults)
      BY DEF RecInv, DiskFits
    <2>2. \A h \in Hours : (h > recHour' => h > recHour) /\ (h <= recHour => h <= recHour')
      BY <1>1, RecorderAssumption DEF Hours
    <2> QED BY <2>1, <2>2 DEF StreamFits
  <1>4. DiskFits(recDisk', recOpen', recHour', recFaults')
    BY <1>1, <1>2, <1>3 DEF RecInv, DiskFits
  <1>5. RecordsFit(recBuffer', recLog', recLost', recFaults', recDisk')
    BY <1>2 DEF RecInv
  <1> QED BY <1>4, <1>5 DEF RecInv

\* What is on disk holds the same records.
LEMMA SameRecords ==
    ASSUME RecordsFit(recBuffer, recLog, recLost, recFaults, recDisk),
           NEW disk, \A s \in Streams : Stored(disk[s]) = Stored(recDisk[s])
    PROVE  RecordsFit(recBuffer, recLog, recLost, recFaults, disk)
  <1>1. ASSUME recFaults = 0, NEW n \in 1 .. Len(recLog)
        PROVE  n \in Stored(disk[recLog[n]]) \cup Buffered(recBuffer)
    <2>1. recLog[n] \in Streams
      <3>1. recLog \in Seq(Streams)
        BY DEF RecordsFit, BufferFits
      <3> QED BY <3>1, ElementOfSeq
    <2> QED BY <1>1, <2>1 DEF RecordsFit
  <1> QED BY <1>1 DEF RecordsFit

LEMMA StopCloseKeeps ==
    ASSUME RecInv, StopClose
    PROVE  RecInv'
  <1> DEFINE none == [x \in {} |-> 0]
  <1>1. /\ recOpen' = none /\ UNCHANGED <<recBuffer, recHour, recFaults, recLog, recLost>>
        /\ \A s \in Streams : recDisk'[s] = IF s \in DOMAIN recOpen THEN [recDisk[s] EXCEPT ![recOpen[s]] = Close(@)]
                                            ELSE recDisk[s]
    BY DEF StopClose
  <1>2. \A s : s \notin DOMAIN none
    OBVIOUS
  <1> HIDE DEF none
  <1>3. ASSUME NEW s \in Streams
        PROVE  StreamFits(s, recDisk'[s], none, recHour, recFaults) /\ Stored(recDisk'[s]) = Stored(recDisk[s])
    <2>1. StreamFits(s, recDisk[s], recOpen, recHour, recFaults)
      BY DEF RecInv, DiskFits
    <2>2. CASE s \in DOMAIN recOpen
      <3> DEFINE files == recDisk[s]  new == [files EXCEPT ![recOpen[s]] = Close(@)]
      <3>1. recDisk'[s] = new
        BY <1>1, <2>2
      <3> HIDE DEF files
      <3>2. StreamFits(s, files, recOpen, recHour, recFaults) /\ s \notin DOMAIN none
        BY <1>2, <2>1 DEF files
      <3>3. StreamFits(s, new, none, recHour, recFaults) /\ Stored(new) = Stored(files)
        BY <2>2, <3>2, ClosedFits
      <3> QED BY <3>1, <3>3 DEF files
    <2>3. CASE s \notin DOMAIN recOpen
      <3>1. recDisk'[s] = recDisk[s]
        BY <1>1, <2>3
      <3> QED BY <1>2, <2>1, <2>3, <3>1 DEF StreamFits
    <2> QED BY <2>2, <2>3
  <1>4. DiskFits(recDisk', recOpen', recHour', recFaults')
    BY <1>1, <1>3 DEF RecInv, DiskFits
  <1>5. RecordsFit(recBuffer', recLog', recLost', recFaults', recDisk')
    BY <1>1, <1>3, SameRecords DEF RecInv
  <1> QED BY <1>4, <1>5 DEF RecInv

LEMMA RecCrashKeeps ==
    ASSUME RecInv, RecCrash
    PROVE  RecInv'
  <1> DEFINE Gone == {recBuffer[i][2] : i \in DOMAIN recBuffer}
  <1>1. /\ recBuffer' = << >> /\ recLost' = recLost \cup Gone
        /\ recFaults' = recFaults + 1 /\ recOpen' = [s \in {} |-> 0]
        /\ UNCHANGED <<recHour, recDisk, recLog>>
    BY DEF RecCrash
  <1>2. recFaults' \in Nat /\ recFaults' # 0
    BY <1>1 DEF RecInv, DiskFits
  <1>3. ASSUME NEW s \in Streams PROVE StreamFits(s, recDisk[s], recOpen', recHour, recFaults')
    <2>1. StreamFits(s, recDisk[s], recOpen, recHour, recFaults) /\ s \notin DOMAIN recOpen'
      BY <1>1 DEF RecInv, DiskFits
    <2> QED BY <1>2, <2>1 DEF StreamFits
  <1>4. DiskFits(recDisk', recOpen', recHour', recFaults')
    BY <1>1, <1>2, <1>3 DEF RecInv, DiskFits
  <1>5. /\ recLog \in Seq(Streams) /\ recBuffer \in Seq(Streams \X Nat)
        /\ \A k \in 1 .. Len(recBuffer) : recBuffer[k][2] \in 1 .. Len(recLog)
        /\ recLost \subseteq 1 .. Len(recLog)
        /\ \A s \in Streams :
             /\ Under(Stored(recDisk[s]), Buffered(recBuffer))
             /\ \A n \in Stored(recDisk[s]) : n \in 1 .. Len(recLog) /\ recLog[n] = s /\ n \notin recLost
    BY DEF RecInv, RecordsFit, BufferFits
  <1>6. Gone = Buffered(recBuffer) /\ Gone \subseteq 1 .. Len(recLog) /\ Len(recLog) \in Nat
    <2>1. DOMAIN recBuffer = 1 .. Len(recBuffer) /\ Len(recLog) \in Nat
      BY <1>5, LenProperties
    <2> QED BY <1>5, <2>1 DEF Buffered
  <1> HIDE DEF Gone
  <1>7. BufferFits(recBuffer', recLog') /\ Buffered(recBuffer') = {}
    <2>1. << >> \in Seq(Streams \X Nat) /\ Len(<< >>) = 0
      BY EmptySeq
    <2> QED BY <1>1, <1>5, <2>1 DEF BufferFits, Buffered
  <1>8. ASSUME NEW s \in Streams, NEW n \in Stored(recDisk[s])
        PROVE  n \in 1 .. Len(recLog) /\ recLog[n] = s /\ n \notin recLost'
    <2>1. n \in 1 .. Len(recLog) /\ recLog[n] = s /\ n \notin recLost
      BY <1>5
    <2>2. ASSUME n \in Gone PROVE FALSE
      <3>1. n < n
        BY <1>5, <1>6, <2>2 DEF Under
      <3> QED BY <1>6, <2>1, <3>1
    <2> QED BY <1>1, <2>1, <2>2
  <1>9. RecordsFit(recBuffer', recLog', recLost', recFaults', recDisk')
    <2>1. recLost' \subseteq 1 .. Len(recLog)
      BY <1>1, <1>5, <1>6
    <2> QED BY <1>1, <1>2, <1>7, <1>8, <2>1 DEF RecordsFit, Under
  <1> QED BY <1>4, <1>9 DEF RecInv

LEMMA RecStepKeeps == RecInv /\ [RecNext]_recVars => RecInv'
  <1> SUFFICES ASSUME RecInv, [RecNext]_recVars PROVE RecInv'
    OBVIOUS
  <1>1. ASSUME UNCHANGED <<recBuffer, recHour, recOpen, recDisk, recFaults, recLog, recLost>> PROVE RecInv'
    BY <1>1 DEF RecInv
  <1>2. CASE \E s \in Streams : Write(s)
    BY <1>2, WriteKeeps
  <1>3. CASE FlushTimer
    BY <1>3, FlushedKeeps DEF FlushTimer
  <1>4. CASE HourPasses
    BY <1>4, HourPassesKeeps
  <1>5. CASE StopFlush
    <2>1. CASE UNCHANGED <<recBuffer, recOpen, recDisk, recFaults, recLost>>
      BY <1>1, <1>5, <2>1 DEF StopFlush
    <2>2. CASE \E failing \in Faults(recBuffer) : Flush(recBuffer, failing)
      BY <1>5, <2>2, FlushedKeeps DEF StopFlush
    <2> QED BY <1>5, <2>1, <2>2 DEF StopFlush
  <1>6. CASE StopClose
    BY <1>6, StopCloseKeeps
  <1>7. CASE RecCrash
    BY <1>7, RecCrashKeeps
  <1>8. CASE RecRestart
    BY <1>1, <1>8 DEF RecRestart
  <1>9. CASE UNCHANGED recVars
    BY <1>1, <1>9 DEF recVars
  <1> QED BY <1>2, <1>3, <1>4, <1>5, <1>6, <1>7, <1>8, <1>9 DEF RecNext

LEMMA RecInvReadsBack == RecInv => RecordsReadBack
  <1> SUFFICES ASSUME RecInv, NEW s \in Streams
               PROVE  LET read == ReadStream(recDisk[s])
                          recorded == {i \in 1 .. Len(recLog) : recLog[i] = s}
                      IN  /\ \A i, j \in 1 .. Len(read) : i < j => read[i] < read[j]
                          /\ Range(read) \subseteq recorded \ recLost
                          /\ recUp = "stopped" /\ recBuffer = << >> /\ recFaults = 0 => recorded \subseteq Range(read)
    BY DEF RecordsReadBack
  <1> DEFINE files == recDisk[s]  read == ReadStream(files)
             recorded == {i \in 1 .. Len(recLog) : recLog[i] = s}
  <1>1. FilesInOrder(files) /\ StreamFits(s, files, recOpen, recHour, recFaults) /\ recHour \in Hours
    BY DEF RecInv, DiskFits, StreamFits
  <1>2. RecordsFit(recBuffer, recLog, recLost, recFaults, recDisk)
    BY DEF RecInv
  <1>3. read \in Seq(Nat) /\ Rising(read) /\ Items(read) \subseteq Stored(files)
    <2> HIDE DEF files
    <2> QED BY <1>1, StreamIsRead
  <1>4. Range(read) = Items(read)
    <2> HIDE DEF read
    <2>1. DOMAIN read = 1 .. Len(read)
      BY <1>3, LenProperties
    <2> QED BY <2>1 DEF Range, Items
  <1>5. Stored(files) \subseteq recorded \ recLost
    BY <1>2 DEF RecordsFit
  <1>6. ASSUME recBuffer = << >>, recFaults = 0 PROVE recorded \subseteq Items(read)
    <2>1. Buffered(recBuffer) = {}
      <3>1. Len(<< >>) = 0
        BY EmptySeq
      <3> QED BY <1>6, <3>1 DEF Buffered
    <2>2. recorded \subseteq Stored(files)
      BY <1>2, <1>6, <2>1 DEF RecordsFit
    <2>3. Stored(files) \subseteq Items(read)
      <3> HIDE DEF files
      <3>1. CASE s \in DOMAIN recOpen
        <4> DEFINE top == recOpen[s]
        <4>1. /\ top \in Hours /\ \A h \in Hours : h > top => files[h] = << >>
              /\ \A h \in Hours : \A i \in Unended(files[h]) : h = top /\ i = Len(files[h])
          BY <1>1, <1>6, <3>1 DEF StreamFits
        <4> HIDE DEF top
        <4> QED BY <1>1, <4>1, EverythingIsRead
      <3>2. CASE s \notin DOMAIN recOpen
        <4>1. \A h \in Hours : Unended(files[h]) = {}
          BY <1>1, <1>6, <3>2 DEF StreamFits
        <4>2. \A h \in Hours : h > recHour => files[h] = << >>
          BY <1>1 DEF StreamFits
        <4> QED BY <1>1, <4>1, <4>2, EverythingIsRead
      <3> QED BY <3>1, <3>2
    <2> QED BY <2>2, <2>3
  <1> HIDE DEF recorded
  <1>7. \A i, j \in 1 .. Len(read) : i < j => read[i] < read[j]
    BY <1>3 DEF Rising
  <1> HIDE DEF read
  <1>8. /\ Range(read) \subseteq recorded \ recLost
        /\ recUp = "stopped" /\ recBuffer = << >> /\ recFaults = 0 => recorded \subseteq Range(read)
    BY <1>3, <1>4, <1>5, <1>6
  <1> QED BY <1>7, <1>8 DEF read, recorded

\* What is read back of a recording is in the order it was recorded, each record once and
\* none that was lost, and without a fault nothing is missing, for any streams, buffer,
\* hours, records, crashes and failed writes.
THEOREM RecordingsReadBack == RecSpec => []RecordsReadBack
  BY RecInvInit, RecStepKeeps, RecInvReadsBack, PTL DEF RecSpec
=============================================================================
