----------------------- MODULE CycleExecution_proofs -----------------------
(***************************************************************************)
(* Proofs about CycleExecution, for every plan length, size, adapter and   *)
(* number of attempts.                                                     *)
(***************************************************************************)
EXTENDS CycleExecution, SequenceTheorems, TLAPS

\* Where the cycle waits bounds what its counters can be: a leg that is being worked is not
\* past the last one, and an unwind that runs has a route and a hop on it.
Waiting ==
    /\ pc \in {"leg", "taker", "query", "post", "poll", "recancel", "cancel"} =>
         ctx.legs_filled < Legs
    /\ pc = "recancel" => requeues < MaxRequeues
    /\ pc \in {"unwind", "hop"} => uw.path # <<>> /\ uw.hop \in 1 .. Len(uw.path)
    /\ pc = "hop" => uw.attempt < MaxAttempts

IInv == TypeOK /\ Waiting

LEMMA NextAsset == \A a \in Asset : Next1(a) \in Asset /\ a \in Nat
  <1> SUFFICES ASSUME NEW a \in Asset PROVE Next1(a) \in Asset /\ a \in Nat
    OBVIOUS
  <1>1. a \in Nat /\ Legs \in Nat /\ Legs >= 2 /\ OtherAssets \in Nat
    BY CycleAssumption DEF Asset
  <1>2. (a + 1) % Legs \in 0 .. Legs - 1
    BY <1>1
  <1>3. 0 .. Legs - 1 \subseteq Asset
    BY <1>1 DEF Asset
  <1> QED BY <1>1, <1>2, <1>3 DEF Next1

LEMMA StartIsAsset == Start \in Asset
  BY CycleAssumption DEF Start, Asset

LEMMA MoveType ==
  ASSUME NEW h \in Balances, NEW a \in Asset, NEW b \in Asset, NEW q \in Int
  PROVE  Move(h, a, b, q) \in Balances
  BY DEF Move, Balances

LEMMA AllInStartType == AllInStart \in Balances
  BY CycleAssumption DEF AllInStart, Balances

LEMMA NoOrderType == NoOrder \in Orders
  BY StartIsAsset DEF NoOrder, Orders, OrderIds, Start

\* A route is a way home that passes no asset twice.
LEMMA RouteFacts ==
  ASSUME NEW path \in Routes
  PROVE  /\ Len(path) \in 1 .. MaxHops /\ DOMAIN path = 1 .. Len(path) /\ path # <<>>
         /\ \A i \in 1 .. Len(path) : path[i] \in Asset
         /\ path[Len(path)] = Start
         /\ \A i, j \in 1 .. Len(path) : path[i] = path[j] => i = j
  <1>1. PICK n \in 1 .. MaxHops : path \in [1 .. n -> Asset]
    BY DEF Routes
  <1>2. n \in Nat
    BY <1>1, CycleAssumption
  <1>3. path \in Seq(Asset)
    BY <1>1, <1>2, SeqDef
  <1>4. Len(path) \in Nat /\ DOMAIN path = 1 .. Len(path)
    BY <1>3, LenProperties
  <1>5. Len(path) = n
    BY <1>1, <1>2, <1>4
  <1>6. \A i \in 1 .. Len(path) : path[i] \in Asset
    BY <1>1, <1>5
  <1>7. path # <<>>
    BY <1>1, <1>3, <1>5, EmptySeq
  <1> QED BY <1>1, <1>4, <1>5, <1>6, <1>7 DEF Routes

LEMMA InitIInv == Init => IInv
  <1> SUFFICES ASSUME Init PROVE IInv
    OBVIOUS
  <1>1. uw \in Unwinds
    BY AllInStartType, StartIsAsset, CycleAssumption DEF Init, NoUnwind, Unwinds, Start
  <1>2. result \in Results
    BY StartIsAsset DEF Init, NoResult, Results, Outcomes, Start
  <1>3. ctx \in Contexts
    BY StartIsAsset, CycleAssumption DEF Init, Contexts
  <1>6. /\ pc \in {"leg", "taker", "query", "post", "poll", "recancel", "cancel", "finalize",
                   "unwind", "hop", "done", "raised", "cancelled", "stopped"}
        /\ recorded \in Balances /\ hold \in Balances
        /\ working \in Orders /\ stray \subseteq Orders
    BY AllInStartType, NoOrderType DEF Init
  <1>7. budgetExpired \in BOOLEAN /\ deadlinePassed \in BOOLEAN
    BY DEF Init
  <1>8. requeues \in 0 .. MaxRequeues
    BY CycleAssumption DEF Init
  <1>4. TypeOK
    BY <1>1, <1>2, <1>3, <1>6, <1>7, <1>8 DEF TypeOK
  <1>5. Waiting
    BY CycleAssumption DEF Init, Waiting
  <1> QED BY <1>4, <1>5 DEF IInv

-----------------------------------------------------------------------------
(* One lemma per group of actions; each keeps the types and the waiting points. *)

LEMMA LegInRange ==
  ASSUME IInv, pc \in {"leg", "taker", "query", "post", "poll", "recancel", "cancel"}
  PROVE  Leg \in Asset /\ Leg \in Nat /\ Next1(Leg) \in Asset /\ Leg + 1 \in 0 .. Legs
  <1>1. ctx.legs_filled \in 0 .. Legs /\ ctx.legs_filled < Legs
    BY DEF IInv, TypeOK, Waiting, Contexts
  <1>2. Leg \in Asset /\ Leg \in Nat /\ Leg + 1 \in 0 .. Legs
    BY <1>1, CycleAssumption DEF Asset, Leg
  <1> QED BY <1>2, NextAsset

LEMMA ResizedLotsType == ASSUME IInv PROVE ResizedLots \subseteq Nat
  <1>1. ctx.running \in Nat
    BY DEF IInv, TypeOK, Contexts
  <1> QED BY <1>1 DEF ResizedLots

LEMMA LegLoopIInv ==
  ASSUME IInv, AbortLeg \/ SendLeg PROVE IInv'
  <1> USE DEF exec, clock, venue
  <1>1. CASE AbortLeg
    BY <1>1 DEF IInv, TypeOK, Waiting, AbortLeg
  <1>2. CASE SendLeg
    <2>1. working' \in Orders
      BY <1>2, LegInRange, ResizedLotsType
      DEF SendLeg, SendLegNow, NewOrder, Orders, OrderIds
    <2>2. requeues' \in 0 .. MaxRequeues /\ pc' \in {"post", "taker"}
      BY <1>2, CycleAssumption DEF SendLeg, SendLegNow
    <2>3. deadlinePassed' \in BOOLEAN
      BY <1>2 DEF SendLeg, SendLegNow
    <2> QED
      BY <1>2, <2>1, <2>2, <2>3 DEF IInv, TypeOK, Waiting, SendLeg, SendLegNow
  <1> QED BY <1>1, <1>2

LEMMA AbandonType ==
  ASSUME IInv, Abandon(working) PROVE stray' \subseteq Orders
  BY DEF IInv, TypeOK, Abandon

LEMMA LegAnsweredIInv ==
  ASSUME IInv, pc \in {"taker", "query", "post", "poll", "recancel", "cancel"},
         NEW status, LegAnswered(status), stray' \subseteq Orders
  PROVE  IInv'
  <1>1. working' \in Orders
    BY NoOrderType DEF LegAnswered
  <1>2. /\ ctx' \in Contexts /\ recorded' \in Balances
        /\ pc' \in {"leg", "finalize"}
        /\ pc' = "leg" => ctx'.legs_filled < Legs
    <2>1. CASE LegFilled(working.filled)
      <3>1. working.filled \in Nat /\ recorded \in Balances
        BY DEF IInv, TypeOK, Orders
      <3>2. recorded' \in Balances
        BY <2>1, <3>1, LegInRange, MoveType DEF LegFilled
      <3>3. ctx' \in Contexts
        BY <2>1, <3>1, LegInRange DEF LegFilled, Contexts
      <3>4. /\ pc' \in {"leg", "finalize"}
            /\ pc' = "leg" => ctx'.legs_filled < Legs
        BY <2>1, LegInRange, CycleAssumption DEF LegFilled
      <3> QED BY <3>2, <3>3, <3>4
    <2>2. CASE LegUnfilled
      BY <2>2 DEF LegUnfilled, IInv, TypeOK, Waiting
    <2> QED BY <2>1, <2>2 DEF LegAnswered
  <1> QED
    BY <1>1, <1>2 DEF LegAnswered, IInv, TypeOK, Waiting, clock

LEMMA LegAnswersIInv ==
  ASSUME IInv, TakerAnswered \/ LegErrored \/ TakerTimedOut \/ TimeoutQueried
  PROVE  IInv'
  <1>1. CASE TakerAnswered
    <2>1. stray' \subseteq Orders
      BY <1>1 DEF TakerAnswered, IInv, TypeOK
    <2> QED BY <1>1, <2>1, LegAnsweredIInv DEF TakerAnswered
  <1>2. CASE LegErrored
    BY <1>2, LegAnsweredIInv, AbandonType DEF LegErrored
  <1>3. CASE TakerTimedOut
    BY <1>3 DEF TakerTimedOut, IInv, TypeOK, Waiting, clock, venue
  <1>4. CASE TimeoutQueried
    BY <1>4, LegAnsweredIInv, AbandonType DEF TimeoutQueried
  <1> QED BY <1>1, <1>2, <1>3, <1>4

LEMMA MakerIInv ==
  ASSUME IInv,
         PostAnswered \/ PollSeesFill \/ Recancel \/ Requeue \/ MakerCrossedOut
           \/ MakerDeadline \/ MakerCancelled
  PROVE  IInv'
  <1>1. CASE PostAnswered
    <2>1. CASE UNCHANGED stray /\ \E status : LegAnswered(status)
      <3>1. stray' \subseteq Orders
        BY <2>1 DEF IInv, TypeOK
      <3> QED BY <1>1, <2>1, <3>1, LegAnsweredIInv DEF PostAnswered
    <2>2. CASE /\ pc' \in {"poll", "cancel"}
               /\ working' = [working EXCEPT !.tracked = TRUE]
               /\ UNCHANGED <<ctx, recorded, clock, requeues, stray, hold, uw, result>>
      <3>1. working' \in Orders
        BY <2>2 DEF IInv, TypeOK, Orders
      <3> QED BY <1>1, <2>2, <3>1 DEF PostAnswered, IInv, TypeOK, Waiting, clock
    <2> QED BY <1>1, <2>1, <2>2 DEF PostAnswered
  <1>2. CASE PollSeesFill
    BY <1>2, LegAnsweredIInv, AbandonType DEF PollSeesFill
  <1>3. CASE Requeue
    <2>1. pc = "recancel" /\ requeues' \in 0 .. MaxRequeues /\ requeues + 1 \in Nat
      BY <1>3, CycleAssumption DEF Requeue, IInv, TypeOK, Waiting
    <2>2. working' \in Orders
      BY <1>3, <2>1, LegInRange DEF Requeue, NewOrder, IInv, TypeOK, Orders, OrderIds
    <2>3. stray' \subseteq Orders
      BY <1>3, AbandonType DEF Requeue
    <2> QED BY <1>3, <2>1, <2>2, <2>3 DEF Requeue, IInv, TypeOK, Waiting, clock
  <1>4. CASE MakerCrossedOut
    <2>1. stray' \subseteq Orders
      BY <1>4 DEF MakerCrossedOut, IInv, TypeOK
    <2> QED BY <1>4, <2>1, LegAnsweredIInv DEF MakerCrossedOut
  <1>5. CASE MakerDeadline
    BY <1>5 DEF MakerDeadline, IInv, TypeOK, Waiting, clock, venue
  <1>6. CASE MakerCancelled
    <2>1. stray' \subseteq Orders
      BY <1>6 DEF MakerCancelled, IInv, TypeOK
    <2> QED BY <1>6, <2>1, LegAnsweredIInv DEF MakerCancelled
  <1>7. CASE Recancel
    BY <1>7 DEF Recancel, IInv, TypeOK, Waiting, clock, venue
  <1> QED BY <1>1, <1>2, <1>3, <1>4, <1>5, <1>6, <1>7

LEMMA PathsAreRoutes ==
  ASSUME NEW a \in Asset, NEW path \in Paths(a), path # <<>>
  PROVE  path \in Routes /\ Len(path) \in 1 .. MaxHops
  <1>1. path \in Routes
    BY DEF Paths
  <1> QED BY <1>1, RouteFacts

LEMMA FinalizeIInv ==
  ASSUME IInv, FinalizeComplete \/ FinalizeUncommitted \/ FinalizeCommitted
  PROVE  IInv'
  <1>1. ctx.running \in Nat /\ ctx.current \in Asset
    BY DEF IInv, TypeOK, Contexts
  <1>2. CASE FinalizeComplete
    <2>1. result' \in Results
      BY <1>1, <1>2, StartIsAsset DEF FinalizeComplete, Closed, Results, Outcomes, Start
    <2> QED BY <1>2, <2>1 DEF FinalizeComplete, IInv, TypeOK, Waiting, clock, venue
  <1>3. CASE FinalizeUncommitted
    <2>1. result' \in Results
      BY <1>3, StartIsAsset DEF FinalizeUncommitted, Closed, Results, Outcomes, Start
    <2> QED BY <1>3, <2>1 DEF FinalizeUncommitted, IInv, TypeOK, Waiting, clock, venue
  <1>4. CASE FinalizeCommitted
    <2>1. PICK path \in Paths(ctx.current) :
            IF path = <<>>
            THEN Stuck /\ pc' = "done" /\ UNCHANGED uw
            ELSE /\ uw' = [path |-> path, hop |-> 1, at |-> ctx.current,
                           left |-> ctx.running, out |-> 0, attempt |-> 0,
                           seen |-> recorded]
                 /\ pc' = "unwind"
                 /\ UNCHANGED result
      BY <1>4 DEF FinalizeCommitted
    <2>2. CASE path = <<>>
      <3>1. result' \in Results
        BY <1>1, <2>1, <2>2 DEF Stuck, Results, Outcomes
      <3> QED
        BY <1>4, <2>1, <2>2, <3>1
        DEF FinalizeCommitted, IInv, TypeOK, Waiting, clock, venue
    <2>3. CASE path # <<>>
      <3>1. path \in Routes /\ Len(path) \in 1 .. MaxHops
        BY <1>1, <2>3, PathsAreRoutes
      <3>2. uw' \in Unwinds
        BY <1>1, <2>1, <2>3, <3>1, CycleAssumption DEF Unwinds, IInv, TypeOK
      <3>3. uw'.path # <<>> /\ uw'.hop \in 1 .. Len(uw'.path)
        BY <1>1, <2>1, <2>3, <3>1, CycleAssumption
      <3> QED
        BY <1>4, <2>1, <2>3, <3>2, <3>3
        DEF FinalizeCommitted, IInv, TypeOK, Waiting, clock, venue
    <2> QED BY <2>2, <2>3
  <1> QED BY <1>2, <1>3, <1>4

LEMMA HopAssets ==
  ASSUME IInv, pc \in {"unwind", "hop"}
  PROVE  /\ uw.path \in Routes /\ uw.at \in Asset /\ HopTo \in Asset
         /\ uw.hop \in 1 .. Len(uw.path) /\ uw.hop \in 1 .. MaxHops
  <1>1. uw.path \in Routes /\ uw.hop \in 1 .. Len(uw.path) /\ uw.at \in Asset
    BY DEF IInv, TypeOK, Waiting, Unwinds
  <1>2. Len(uw.path) \in 1 .. MaxHops /\ uw.path[uw.hop] \in Asset
    BY <1>1, RouteFacts
  <1> DEFINE len == Len(uw.path)
  <1>3. len \in 1 .. MaxHops /\ uw.hop \in 1 .. len
    BY <1>1, <1>2
  <1> HIDE DEF len
  <1>4. uw.hop \in 1 .. MaxHops
    BY <1>3, CycleAssumption
  <1> QED BY <1>1, <1>2, <1>4 DEF HopTo

LEMMA DustType == Dust \in Nat
  BY CycleAssumption DEF Dust

LEMMA SellableType ==
  ASSUME IInv, uw.left > 0
  PROVE  \A n \in Sellable : n \in Nat /\ n <= uw.left
  <1>1. uw.left \in Nat /\ uw.left > 0
    BY DEF IInv, TypeOK, Unwinds
  <1>2. CASE Buys
    BY <1>1, <1>2 DEF Sellable
  <1>3. CASE ~Buys
    BY <1>1, <1>3 DEF Sellable
  <1> QED BY <1>2, <1>3

LEMMA AfterSellingType ==
  ASSUME IInv, pc = "hop", NEW q \in Nat
  PROVE  /\ AfterSelling(q) \in Unwinds
         /\ AfterSelling(q).path = uw.path /\ AfterSelling(q).hop = uw.hop
  <1>1. uw \in Unwinds /\ uw.attempt + 1 \in 0 .. MaxAttempts
    <2>1. uw \in Unwinds /\ uw.attempt < MaxAttempts
      BY DEF IInv, TypeOK, Waiting
    <2>2. uw.attempt \in 0 .. MaxAttempts
      BY <2>1 DEF Unwinds
    <2> QED BY <2>1, <2>2, CycleAssumption
  <1>2. Move(uw.seen, uw.at, HopTo, q) \in Balances
    BY <1>1, HopAssets, MoveType DEF Unwinds
  <1>3. uw.out + q \in Nat /\ (IF uw.left - q <= Dust THEN 0 ELSE uw.left - q) \in Nat
    BY <1>1, DustType DEF Unwinds
  <1> QED BY <1>1, <1>2, <1>3 DEF AfterSelling, Unwinds

LEMMA AttemptIInv ==
  ASSUME IInv, SendHop \/ HopDust \/ HopUnavailable
  PROVE  IInv'
  <1>1. /\ pc = "unwind" /\ uw.attempt < MaxAttempts /\ uw \in Unwinds
        /\ uw.attempt + 1 \in 0 .. MaxAttempts /\ uw.left \in Nat
    <2>1. pc = "unwind" /\ uw.attempt < MaxAttempts
      BY DEF SendHop, HopDust, HopUnavailable, MayAttempt
    <2>2. uw \in Unwinds
      BY DEF IInv, TypeOK
    <2>3. uw.attempt \in 0 .. MaxAttempts /\ uw.left \in Nat
      BY <2>2 DEF Unwinds
    <2>4. uw.attempt + 1 \in 0 .. MaxAttempts
      BY <2>1, <2>3, CycleAssumption
    <2> QED BY <2>1, <2>2, <2>3, <2>4
  <1>2. CASE SendHop
    <2>1. PICK n \in Sellable \ {0} :
            working' = NewOrder(<<"UW", uw.hop, uw.attempt>>, uw.at, HopTo, n, "taker")
      BY <1>2 DEF SendHop
    <2>2. uw.left > 0 /\ uw.attempt \in Nat /\ uw.hop \in Nat
      BY <1>1, <1>2, CycleAssumption DEF SendHop, MayAttempt, Unwinds
    <2>3. n \in Nat
      BY <2>2, SellableType
    <2>4. working' \in Orders
      BY <1>1, <2>1, <2>2, <2>3, HopAssets DEF NewOrder, Orders, OrderIds
    <2> QED BY <1>1, <1>2, <2>4 DEF SendHop, IInv, TypeOK, Waiting, clock
  <1>3. CASE HopDust
    <2>1. uw' \in Unwinds /\ uw'.path = uw.path /\ uw'.hop = uw.hop
      BY <1>1, <1>3 DEF HopDust, Unwinds
    <2> QED BY <1>1, <1>3, <2>1 DEF HopDust, IInv, TypeOK, Waiting, clock, venue
  <1>4. CASE HopUnavailable
    <2>1. uw' \in Unwinds /\ uw'.path = uw.path /\ uw'.hop = uw.hop
      BY <1>1, <1>4 DEF HopUnavailable, Unwinds
    <2> QED BY <1>1, <1>4, <2>1 DEF HopUnavailable, IInv, TypeOK, Waiting, clock, venue
  <1> QED BY <1>2, <1>3, <1>4

LEMMA HopAnswersIInv ==
  ASSUME IInv, HopAnswered \/ HopErrored \/ HopRaises
  PROVE  IInv'
  <1>1. /\ pc = "hop" /\ working.filled \in Nat /\ uw \in Unwinds
        /\ uw.attempt + 1 \in 0 .. MaxAttempts
    <2>1. pc = "hop"
      BY DEF HopAnswered, HopErrored, HopRaises
    <2>2. working \in Orders /\ uw \in Unwinds
      BY DEF IInv, TypeOK
    <2>3. uw.attempt < MaxAttempts
      BY <2>1 DEF IInv, Waiting
    <2>4. working.filled \in Nat /\ uw.attempt \in 0 .. MaxAttempts
      BY <2>2 DEF Orders, Unwinds
    <2>5. uw.attempt + 1 \in 0 .. MaxAttempts
      BY <2>3, <2>4, CycleAssumption
    <2> QED BY <2>1, <2>2, <2>4, <2>5
  <1>2. [uw EXCEPT !.attempt = @ + 1] \in Unwinds
    BY <1>1 DEF Unwinds
  <1>3. uw' \in Unwinds /\ uw'.path = uw.path /\ uw'.hop = uw.hop
    <2>1. CASE uw' = AfterSelling(working.filled)
      BY <1>1, <2>1, AfterSellingType
    <2>2. CASE uw' = [uw EXCEPT !.attempt = @ + 1]
      BY <1>1, <1>2, <2>2 DEF Unwinds
    <2>3. CASE uw' = uw
      BY <1>1, <2>3
    <2> QED BY <2>1, <2>2, <2>3 DEF HopAnswered, HopErrored, HopRaises
  <1>4. stray' \subseteq Orders
    BY AbandonType DEF HopAnswered, HopErrored, HopRaises, IInv, TypeOK
  <1> QED
    BY <1>1, <1>3, <1>4, NoOrderType
    DEF HopAnswered, HopErrored, HopRaises, IInv, TypeOK, Waiting, clock

LEMMA UnwindEndsIInv ==
  ASSUME IInv, NextHop \/ UnwindSucceeds \/ UnwindFails
  PROVE  IInv'
  <1>1. /\ pc = "unwind" /\ uw \in Unwinds /\ uw.out \in Nat /\ uw.seen \in Balances
        /\ ctx.running \in Nat /\ ctx.current \in Asset
    BY DEF NextHop, UnwindSucceeds, Unwound, UnwindFails, IInv, TypeOK, Unwinds, Contexts
  <1>2. CASE NextHop
    <2>0. /\ HopTo \in Asset /\ uw.path \in Routes /\ uw.hop \in 1 .. Len(uw.path)
          /\ uw.hop < Len(uw.path) /\ Len(uw.path) \in 1 .. MaxHops
      BY <1>1, <1>2, HopAssets, RouteFacts DEF NextHop
    <2>1. uw.hop + 1 \in 1 .. Len(uw.path) /\ uw.hop + 1 \in 0 .. MaxHops
      <3> DEFINE len == Len(uw.path)
      <3>1. len \in 1 .. MaxHops /\ uw.hop \in 1 .. len /\ uw.hop < len
        BY <2>0
      <3> HIDE DEF len
      <3>2. uw.hop + 1 \in 1 .. len /\ uw.hop + 1 \in 0 .. MaxHops
        BY <3>1, CycleAssumption
      <3> QED BY <3>2 DEF len
    <2>3. 0 \in 0 .. MaxAttempts /\ HopTo \in Asset
      BY <2>0, CycleAssumption
    <2>4. uw' = [uw EXCEPT !.hop = uw.hop + 1, !.at = HopTo, !.left = uw.out, !.out = 0,
                           !.attempt = 0]
      BY <1>2 DEF NextHop
    <2>2. uw' \in Unwinds /\ uw'.path = uw.path /\ uw'.hop = uw.hop + 1
      BY <1>1, <2>1, <2>3, <2>4 DEF Unwinds
    <2> QED BY <1>1, <1>2, <2>1, <2>2 DEF NextHop, IInv, TypeOK, Waiting, clock, venue
  <1>3. CASE UnwindSucceeds
    <2>1. result' \in Results
      BY <1>1, <1>3, StartIsAsset
      DEF UnwindSucceeds, Unwound, Closed, Results, Outcomes, Start
    <2> QED
      BY <1>1, <1>3, <2>1 DEF UnwindSucceeds, Unwound, IInv, TypeOK, Waiting, clock, venue
  <1>4. CASE UnwindFails
    <2>1. result' \in Results
      BY <1>1, <1>4 DEF UnwindFails, Stuck, Results, Outcomes
    <2> QED BY <1>1, <1>4, <2>1 DEF UnwindFails, IInv, TypeOK, Waiting, clock, venue
  <1> QED BY <1>2, <1>3, <1>4

LEMMA FillableType ==
  ASSUME NEW a, NEW n \in Int, NEW q \in Fillable(a, n) PROVE q \in Nat
  BY DEF Fillable

LEMMA FilledType ==
  ASSUME NEW o \in Orders, NEW n \in Nat, NEW s \in {"matched", "resting", "filled"}
  PROVE  [o EXCEPT !.filled = n, !.at = s] \in Orders
  <1> DEFINE p == [o EXCEPT !.filled = n]
  <1>1. p \in Orders
    BY DEF Orders
  <1> HIDE DEF p
  <1>2. [p EXCEPT !.at = s] \in Orders
    BY <1>1 DEF Orders
  <1> QED BY <1>2 DEF p

LEMMA TradedType ==
  ASSUME NEW o \in Orders, NEW q \in Nat PROVE Traded(o, q) \in Orders
  <1>1. o.filled + q \in Nat
    BY DEF Orders
  <1> QED BY <1>1, FilledType DEF Traded

LEMMA WatchedOrderIInv ==
  ASSUME IInv, MatchTaker \/ PostMaker \/ TradeResting
  PROVE  IInv'
  <1>1. /\ working \in Orders /\ working.from \in Asset /\ working.to \in Asset
        /\ working.qty \in Nat /\ working.filled \in Nat /\ hold \in Balances
    BY DEF IInv, TypeOK, Orders
  <1>2. CASE MatchTaker
    <2>1. PICK q \in Fillable(working.from, working.qty) :
            /\ working' = [working EXCEPT !.filled = q, !.at = "matched"]
            /\ hold' = Move(hold, working.from, working.to, q)
      BY <1>2 DEF MatchTaker
    <2>2. q \in Nat
      BY <1>1, FillableType
    <2>3. working' \in Orders
      BY <1>1, <2>1, <2>2, FilledType
    <2>4. hold' \in Balances
      BY <1>1, <2>1, <2>2, MoveType
    <2> QED BY <1>2, <2>3, <2>4 DEF MatchTaker, IInv, TypeOK, Waiting, exec, clock
  <1>3. CASE PostMaker
    <2>1. working' \in Orders
      BY <1>1, <1>3 DEF PostMaker, Orders
    <2> QED BY <1>3, <2>1 DEF PostMaker, IInv, TypeOK, Waiting, exec, clock
  <1>4. CASE TradeResting
    <2>1. PICK q \in Fillable(working.from, working.qty - working.filled) \ {0} :
            /\ working' = Traded(working, q)
            /\ hold' = Move(hold, working.from, working.to, q)
      BY <1>4 DEF TradeResting
    <2>2. q \in Nat
      BY <1>1, FillableType
    <2>3. working' \in Orders /\ hold' \in Balances
      BY <1>1, <2>1, <2>2, MoveType, TradedType
    <2> QED BY <1>4, <2>3 DEF TradeResting, IInv, TypeOK, Waiting, exec, clock
  <1> QED BY <1>2, <1>3, <1>4

LEMMA StrayIInv ==
  ASSUME IInv, StrayFills \/ StrayPosts
  PROVE  IInv'
  <1>1. hold \in Balances /\ stray \subseteq Orders
    BY DEF IInv, TypeOK
  <1>2. CASE StrayFills
    <2>1. PICK o \in stray : \E q \in Fillable(o.from, o.qty - o.filled) :
            /\ hold' = Move(hold, o.from, o.to, q)
            /\ stray' = (stray \ {o}) \cup
                        (IF o.kind = "maker" /\ Traded(o, q).at = "resting"
                         THEN {Traded(o, q)} ELSE {})
            /\ UNCHANGED <<exec, clock, working>>
      BY <1>2 DEF StrayFills
    <2>2. /\ o \in Orders /\ o.from \in Asset /\ o.to \in Asset
          /\ o.qty - o.filled \in Int
      BY <1>1, <2>1 DEF Orders
    <2>3. PICK q \in Fillable(o.from, o.qty - o.filled) :
            /\ hold' = Move(hold, o.from, o.to, q)
            /\ stray' = (stray \ {o}) \cup
                        (IF o.kind = "maker" /\ Traded(o, q).at = "resting"
                         THEN {Traded(o, q)} ELSE {})
            /\ UNCHANGED <<exec, clock, working>>
      BY <2>1
    <2>5. q \in Nat
      BY <2>2, <2>3, FillableType
    <2>4. stray' \subseteq Orders /\ hold' \in Balances
      BY <1>1, <2>1, <2>2, <2>3, <2>5, MoveType, TradedType
    <2> QED BY <2>3, <2>4 DEF IInv, TypeOK, Waiting, exec, clock
  <1>3. CASE StrayPosts
    <2>1. PICK o \in stray, arrives \in BOOLEAN :
            /\ stray' = (stray \ {o}) \cup
                        (IF arrives THEN {[o EXCEPT !.at = "resting"]} ELSE {})
            /\ UNCHANGED <<exec, clock, working, hold>>
      BY <1>3 DEF StrayPosts
    <2>2. [o EXCEPT !.at = "resting"] \in Orders
      BY <1>1, <2>1 DEF Orders
    <2>3. stray' \subseteq Orders
      BY <1>1, <2>1, <2>2
    <2> QED BY <2>1, <2>3 DEF IInv, TypeOK, Waiting, exec, clock
  <1> QED BY <1>2, <1>3

LEMMA ClockAndStopIInv ==
  ASSUME IInv, BudgetExpires \/ DeadlinePasses \/ Cancelled \/ StopCancelsOrders
  PROVE  IInv'
  <1>1. CASE BudgetExpires
    <2>1. budgetExpired' \in BOOLEAN /\ deadlinePassed' \in BOOLEAN
      BY <1>1 DEF BudgetExpires
    <2> QED BY <1>1, <2>1 DEF BudgetExpires, IInv, TypeOK, Waiting, exec, venue
  <1>2. CASE DeadlinePasses
    <2>1. deadlinePassed' \in BOOLEAN
      BY <1>2 DEF DeadlinePasses
    <2> QED BY <1>2, <2>1 DEF DeadlinePasses, IInv, TypeOK, Waiting, exec, venue
  <1>3. CASE Cancelled
    BY <1>3, AbandonType, NoOrderType DEF Cancelled, IInv, TypeOK, Waiting, clock
  <1>4. CASE StopCancelsOrders
    BY <1>4 DEF StopCancelsOrders, IInv, TypeOK, Waiting, clock
  <1> QED BY <1>1, <1>2, <1>3, <1>4

LEMMA StepIInv == IInv /\ [Next]_vars => IInv'
  <1> SUFFICES ASSUME IInv, [Next]_vars PROVE IInv'
    OBVIOUS
  <1>1. CASE Executor
    BY <1>1, LegLoopIInv, LegAnswersIInv, MakerIInv, FinalizeIInv, AttemptIInv,
       HopAnswersIInv, UnwindEndsIInv DEF Executor, Answered, Failed
  <1>2. CASE Venue
    BY <1>2, WatchedOrderIInv, StrayIInv DEF Venue
  <1>3. CASE BudgetExpires \/ DeadlinePasses \/ Cancelled \/ StopCancelsOrders
    BY <1>3, ClockAndStopIInv
  <1>4. CASE UNCHANGED vars
    BY <1>4 DEF vars, IInv, TypeOK, Waiting
  <1> QED BY <1>1, <1>2, <1>3, <1>4 DEF Next

\* Every variable keeps its shape, and no wait is ever made outside the plan: the leg
\* index, the hop index and the attempt count stay in range for every plan and adapter.
THEOREM TypeCorrect == Spec => []TypeOK
  <1>1. IInv => TypeOK
    BY DEF IInv
  <1> QED BY InitIInv, StepIInv, <1>1, PTL DEF Spec

-----------------------------------------------------------------------------
(* One order per leg, whatever the adapter answers and whatever is lost. *)

LegWaits == {"taker", "query", "post", "poll", "recancel", "cancel"}

\* The order that is awaited for a leg belongs to the leg the loop is at, and the orders
\* left behind before belong to earlier ones: what is requeued was cancelled for crossing.
LegIdsAgree ==
    /\ pc = "recancel" => working.at = "crossed"
    /\ working.id[1] = "L" => pc \in LegWaits /\ working.id[2] = Leg
    /\ pc \in LegWaits \cup {"leg"} => \A o \in stray : o.id[1] = "L" => o.id[2] < Leg

LEMMA LegAnsweredIds ==
  ASSUME IInv, LegIdsAgree, pc \in LegWaits, NEW status, LegAnswered(status),
         stray' = stray \/ Abandon(working)
  PROVE  LegIdsAgree'
  <1>1. working'.id[1] # "L"
    BY DEF LegAnswered, NoOrder
  <1>2. /\ pc' \in {"leg", "finalize"}
        /\ pc' = "leg" => ctx'.legs_filled = Leg + 1
    BY DEF LegAnswered, LegFilled, LegUnfilled
  <1>3. stray' \subseteq stray \cup {working}
    BY DEF Abandon
  <1>4. \A o \in stray : o.id[1] = "L" => o.id[2] < Leg + 1
    <2> SUFFICES ASSUME NEW o \in stray, o.id[1] = "L" PROVE o.id[2] < Leg + 1
      OBVIOUS
    <2>1. o.id[2] < Leg /\ o.id[2] \in Nat /\ Leg \in Nat
      BY CycleAssumption DEF LegIdsAgree, IInv, TypeOK, Orders, OrderIds, Leg, Contexts
    <2> QED BY <2>1
  <1>5. working.id[1] = "L" => working.id[2] < Leg + 1
    BY CycleAssumption DEF LegIdsAgree, IInv, TypeOK, Leg, Contexts
  <1>6. pc' = "leg" => \A o \in stray' : o.id[1] = "L" => o.id[2] < Leg'
    BY <1>2, <1>3, <1>4, <1>5 DEF Leg
  <1> QED BY <1>1, <1>2, <1>6 DEF LegIdsAgree, LegWaits

LEMMA StepLegIds == IInv /\ LegIdsAgree /\ [Next]_vars => LegIdsAgree'
  <1> SUFFICES ASSUME IInv, LegIdsAgree, [Next]_vars PROVE LegIdsAgree'
    OBVIOUS
  <1> USE DEF LegWaits
  <1>1. CASE AbortLeg \/ SendLeg
    BY <1>1 DEF AbortLeg, SendLeg, SendLegNow, NewOrder, venue, LegIdsAgree, Leg
  <1>2. CASE TakerAnswered \/ LegErrored \/ TimeoutQueried
    BY <1>2, LegAnsweredIds DEF TakerAnswered, LegErrored, TimeoutQueried
  <1>3. CASE TakerTimedOut
    BY <1>3 DEF TakerTimedOut, venue, LegIdsAgree, Leg
  <1>4. CASE PostAnswered
    <2>1. CASE UNCHANGED stray /\ \E status : LegAnswered(status)
      BY <1>4, <2>1, LegAnsweredIds DEF PostAnswered
    <2>2. CASE /\ pc' \in {"poll", "cancel"} /\ UNCHANGED <<ctx, stray>>
               /\ working'.id = working.id
      BY <1>4, <2>2 DEF PostAnswered, LegIdsAgree, Leg
    <2> QED BY <1>4, <2>1, <2>2 DEF PostAnswered, IInv, TypeOK, Orders
  <1>5. CASE PollSeesFill \/ MakerCrossedOut \/ MakerCancelled
    BY <1>5, LegAnsweredIds DEF PollSeesFill, MakerCrossedOut, MakerCancelled
  <1>6. CASE Recancel \/ Requeue
    <2>1. CASE Recancel
      <3>1. working.at = "crossed"
        BY <2>1 DEF Recancel, FetchMaker
      <3> QED BY <2>1, <3>1 DEF Recancel, venue, LegIdsAgree, Leg
    <2>2. CASE Requeue
      <3>1. stray' = stray
        BY <2>2 DEF Requeue, Abandon, Live, LegIdsAgree
      <3> QED BY <2>2, <3>1 DEF Requeue, NewOrder, LegIdsAgree, Leg
    <2> QED BY <1>6, <2>1, <2>2
  <1>7. CASE MakerDeadline
    BY <1>7 DEF MakerDeadline, venue, LegIdsAgree, Leg
  <1>8. CASE FinalizeComplete \/ FinalizeUncommitted \/ FinalizeCommitted
    BY <1>8 DEF FinalizeComplete, FinalizeUncommitted, FinalizeCommitted, Stuck, venue,
       LegIdsAgree
  <1>9. CASE SendHop \/ HopDust \/ HopUnavailable
    BY <1>9 DEF SendHop, HopDust, HopUnavailable, MayAttempt, NewOrder, venue, LegIdsAgree
  <1>10. CASE HopAnswered \/ HopErrored \/ HopRaises
    BY <1>10 DEF HopAnswered, HopErrored, HopRaises, NoOrder, LegIdsAgree
  <1>11. CASE NextHop \/ UnwindSucceeds \/ UnwindFails
    BY <1>11 DEF NextHop, UnwindSucceeds, Unwound, UnwindFails, venue, LegIdsAgree
  <1>12. CASE MatchTaker \/ PostMaker \/ TradeResting
    <2>1. /\ working'.id = working.id /\ UNCHANGED <<pc, ctx, stray>>
          /\ working.at # "crossed"
      BY <1>12 DEF MatchTaker, PostMaker, TradeResting, Traded, exec, IInv, TypeOK, Orders
    <2> QED BY <2>1 DEF LegIdsAgree, Leg
  <1>13. CASE StrayFills \/ StrayPosts
    <2>1. \A p \in stray' : \E o \in stray : p.id = o.id
      <3>1. \A o \in stray : \A q : Traded(o, q).id = o.id
        BY DEF Traded, IInv, TypeOK, Orders
      <3>2. CASE StrayFills
        <4>1. PICK o \in stray : \E q : stray' \subseteq stray \cup {Traded(o, q)}
          BY <3>2 DEF StrayFills
        <4> QED BY <3>1, <4>1
      <3>3. CASE StrayPosts
        <4>1. PICK o \in stray : stray' \subseteq stray \cup {[o EXCEPT !.at = "resting"]}
          BY <3>3 DEF StrayPosts
        <4>2. [o EXCEPT !.at = "resting"].id = o.id
          BY <4>1 DEF IInv, TypeOK, Orders
        <4> QED BY <4>1, <4>2
      <3> QED BY <1>13, <3>2, <3>3
    <2>2. UNCHANGED <<pc, ctx, working>>
      BY <1>13 DEF StrayFills, StrayPosts, exec
    <2> QED BY <2>1, <2>2 DEF LegIdsAgree, Leg
  <1>14. CASE BudgetExpires \/ DeadlinePasses
    BY <1>14 DEF BudgetExpires, DeadlinePasses, exec, venue, LegIdsAgree, Leg
  <1>15. CASE Cancelled \/ StopCancelsOrders
    BY <1>15 DEF Cancelled, StopCancelsOrders, NoOrder, LegIdsAgree
  <1>16. CASE UNCHANGED vars
    BY <1>16 DEF vars, LegIdsAgree, Leg
  <1> QED
    BY <1>1, <1>2, <1>3, <1>4, <1>5, <1>6, <1>7, <1>8, <1>9, <1>10, <1>11, <1>12, <1>13,
       <1>14, <1>15, <1>16
    DEF Next, Executor, Answered, Failed, Venue

\* While an order of a leg is awaited no earlier order of that leg can still trade: for
\* every adapter and plan, with answers lost, legs requeued and the engine stopped.
THEOREM LegsAreNotDoubled == Spec => []OneOrderPerLeg
  <1>1. Init => LegIdsAgree
    BY DEF Init, LegIdsAgree, NoOrder
  <1>2. IInv /\ LegIdsAgree => OneOrderPerLeg
    <2> SUFFICES ASSUME IInv, LegIdsAgree, working.id[1] = "L", NEW o \in stray,
                        o.id[1] = working.id[1], o.id[2] = working.id[2]
                 PROVE  FALSE
      BY DEF OneOrderPerLeg, NoSecondOrder, SameWork
    <2>1. o.id[2] < Leg /\ o.id[2] = Leg /\ Leg \in Nat
      BY CycleAssumption DEF LegIdsAgree, IInv, TypeOK, Leg, Contexts
    <2> QED BY <2>1
  <1> QED BY InitIInv, StepIInv, <1>1, StepLegIds, <1>2, PTL DEF Spec

-----------------------------------------------------------------------------
(* Once the budget is gone, nothing is sent but the requeue whose cancel was under way. *)

ExpiryIsADeadline == budgetExpired => deadlinePassed

LEMMA StepExpiry == ExpiryIsADeadline /\ [Next]_vars => ExpiryIsADeadline'
  <1> SUFFICES ASSUME ExpiryIsADeadline, [Next]_vars PROVE ExpiryIsADeadline'
    OBVIOUS
  <1> USE DEF ExpiryIsADeadline, clock
  <1>1. CASE SendLeg
    BY <1>1 DEF SendLeg, SendLegNow
  <1>2. CASE BudgetExpires \/ DeadlinePasses
    BY <1>2 DEF BudgetExpires, DeadlinePasses
  <1>3. CASE UNCHANGED clock
    BY <1>3
  <1>4. UNCHANGED clock \/ SendLeg \/ BudgetExpires \/ DeadlinePasses
    BY DEF Next, Executor, Answered, Failed, Venue, vars, AbortLeg, TakerAnswered,
       TimeoutQueried, PostAnswered, PollSeesFill, Recancel, Requeue, MakerCrossedOut,
       MakerDeadline, MakerCancelled, LegAnswered, FinalizeComplete, FinalizeUncommitted,
       FinalizeCommitted, SendHop, HopDust, HopAnswered, NextHop, UnwindSucceeds, Unwound,
       UnwindFails, LegErrored, TakerTimedOut, HopUnavailable, HopErrored, HopRaises,
       MatchTaker, PostMaker, TradeResting, StrayFills, StrayPosts, Cancelled,
       StopCancelsOrders
  <1> QED BY <1>1, <1>2, <1>3, <1>4

LEMMA SendsAreTimely ==
  ASSUME IInv, ExpiryIsADeadline, Next, budgetExpired
  PROVE  /\ working'.at = "sent" /\ working' # working => pc = "recancel"
         /\ pc' = "recancel" => pc = "recancel"
  <1>1. ~SendLeg /\ ~SendHop /\ ~Recancel
    BY DEF SendLeg, SendHop, MayAttempt, Recancel, ExpiryIsADeadline
  <1>2. NoOrder.at # "sent"
    BY DEF NoOrder
  <1>3. CASE Requeue
    BY <1>3 DEF Requeue
  <1>4. CASE PostAnswered \/ MatchTaker \/ PostMaker \/ TradeResting
    <2>1. working \in Orders
      BY DEF IInv, TypeOK
    <2>2. working'.at # "sent"
      BY <1>2, <1>4, <2>1
      DEF MatchTaker, PostMaker, TradeResting, Traded, PostAnswered, LegAnswered, Orders
    <2>3. pc' # "recancel" \/ pc' = pc
      BY <1>4
      DEF MatchTaker, PostMaker, TradeResting, PostAnswered, LegAnswered, LegFilled,
          LegUnfilled, exec
    <2> QED BY <2>2, <2>3
  <1>5. CASE (UNCHANGED working \/ working' = NoOrder) /\ (pc' # "recancel" \/ pc' = pc)
    BY <1>2, <1>5
  <1>6. \/ SendLeg \/ SendHop \/ Recancel \/ Requeue
        \/ PostAnswered \/ MatchTaker \/ PostMaker \/ TradeResting
        \/ (UNCHANGED working \/ working' = NoOrder) /\ (pc' # "recancel" \/ pc' = pc)
    BY DEF Next, Executor, Answered, Failed, Venue, venue, exec, AbortLeg, TakerAnswered,
       TimeoutQueried, PollSeesFill, MakerCrossedOut, MakerDeadline, MakerCancelled,
       LegAnswered, LegFilled, LegUnfilled, FinalizeComplete, FinalizeUncommitted,
       FinalizeCommitted, HopDust, HopAnswered, NextHop, UnwindSucceeds, Unwound,
       UnwindFails, LegErrored, TakerTimedOut, HopUnavailable, HopErrored, HopRaises,
       StrayFills, StrayPosts, Cancelled, StopCancelsOrders, BudgetExpires, DeadlinePasses
  <1> QED BY <1>1, <1>3, <1>4, <1>5, <1>6

\* Once the latency budget is gone no leg and no unwind hop goes out, and no requeue is begun:
\* the only order still to come is the requeue whose cancel was being awaited.  For every
\* adapter and plan.
THEOREM ExpiryStopsSending == Spec => OnlyARequeueIsLate
  <1>1. Init => ExpiryIsADeadline
    BY DEF Init, ExpiryIsADeadline
  <1>2. IInv /\ ExpiryIsADeadline /\ [Next]_vars =>
          [budgetExpired =>
             /\ working'.at = "sent" /\ working' # working => pc = "recancel"
             /\ pc' = "recancel" => pc = "recancel"]_vars
    BY SendsAreTimely
  <1> QED BY InitIInv, StepIInv, <1>1, StepExpiry, <1>2, PTL DEF Spec, OnlyARequeueIsLate

-----------------------------------------------------------------------------
(* What a cycle's outcome says about the account, for every plan length, size and number
   of attempts where the answers are truthful: every call is answered, and a fill, whole
   or in part, is reported as one.  Where orders also fill whole, CycleExecution
   implements CyclePromise. *)

\* The simulator is truthful about IOC legs, in part filled ones included; where nothing
\* fills in part, so is every adapter, and OKX about post-only legs too.
Truthful ==
    /\ ~LostAnswers
    /\ \/ MakerLegs = {} /\ Adapter = "simulated"
       \/ ~ThinBooks /\ (MakerLegs = {} \/ Adapter = "okx")

Working == {"taker", "post", "poll", "recancel", "cancel"}
Between == {"leg", "finalize"}

\* Every order is watched until the engine stops, and there is one only while it is awaited.
Watched ==
    /\ pc \notin {"query", "raised"}
    /\ pc \in {"post", "poll", "recancel", "cancel"} => ~ThinBooks /\ Adapter = "okx"
    /\ pc \notin {"cancelled", "stopped"} => stray = {}
    /\ pc \notin Working \cup {"hop"} => working = NoOrder

\* What the fills say is held is the running amount of the current asset, or more.
Recorded ==
    pc \in Working \cup Between =>
      /\ \A a \in Asset : recorded[a] >= 0
      /\ ctx.current = IF Leg = Legs THEN Start ELSE Leg
      /\ ctx.running <= recorded[ctx.current]
      /\ Leg = 0 => recorded = AllInStart
      /\ pc \in Between => hold = recorded

\* An order's state tells whether it has filled.
FillsShow ==
    /\ working.filled <= working.qty
    /\ working.at \notin {"matched", "filled"} => working.filled = 0
    /\ ~ThinBooks => working.filled \in {0, working.qty}
    /\ working.at = "filled" => working.filled = working.qty /\ working.qty > 0

\* While a leg is worked the account is what was recorded and the fill of its one order.
LegIsWorked ==
    pc \in Working =>
      /\ working.from = Leg /\ working.to = Next1(Leg)
      /\ working.qty <= ctx.running
      /\ hold = Move(recorded, Leg, Next1(Leg), working.filled)
      /\ working.kind = IF pc = "taker" THEN "taker" ELSE "maker"
      /\ pc = "taker" => working.at \in {"sent", "matched"}
      /\ pc = "post" => working.at \in {"sent", "resting", "crossed", "refused", "filled"}
      /\ pc = "poll" => working.at \in {"resting", "crossed", "filled"}
      /\ pc = "recancel" => working.at = "crossed"
      /\ pc = "cancel" => working.at \in {"resting", "crossed", "filled"}

\* The unwinder knows what the account holds, sells no more than that and does not come back
\* to the asset it sells.
UnwindKnows ==
    pc \in {"unwind", "hop"} =>
      /\ \A i \in uw.hop .. Len(uw.path) : uw.path[i] # uw.at
      /\ \A a \in Asset : uw.seen[a] >= 0
      /\ uw.left <= uw.seen[uw.at]
      /\ uw.out <= uw.seen[HopTo]
      /\ pc = "unwind" => hold = uw.seen
      /\ pc = "hop" => /\ hold = Move(uw.seen, uw.at, HopTo, working.filled)
                       /\ working.from = uw.at /\ working.to = HopTo
                       /\ working.qty <= uw.left
                       /\ working.kind = "taker" /\ working.at \in {"sent", "matched"}

OutcomeTells ==
    /\ pc # "done" => result = NoResult
    /\ pc = "done" => result.outcome # "none"
    /\ pc = "done" /\ result.outcome \in {"COMPLETED", "PARTIAL_UNWOUND"} =>
         recorded = hold /\ result.end <= hold[Start]
    /\ pc = "done" /\ result.outcome = "ABORTED_PRE_TRADE" => hold = AllInStart

Truth == Watched /\ Recorded /\ FillsShow /\ LegIsWorked /\ UnwindKnows /\ OutcomeTells

-----------------------------------------------------------------------------
(* Assets and moves. *)

LEMMA NextAssetIs ==
  ASSUME NEW a \in 0 .. Legs - 1
  PROVE  /\ Next1(a) = IF a + 1 = Legs THEN 0 ELSE a + 1
         /\ Next1(a) # a
  <1>1. a \in 0 .. Legs - 1 /\ Legs \in Nat /\ Legs >= 2
    BY CycleAssumption
  <1>2. CASE a + 1 = Legs
    <2>1. Legs % Legs = 0
      BY <1>1
    <2> QED BY <1>1, <1>2, <2>1 DEF Next1
  <1>3. CASE a + 1 # Legs
    <2>1. a + 1 \in 0 .. Legs - 1
      BY <1>1, <1>3
    <2>2. (a + 1) % Legs = a + 1
      BY <1>1, <2>1
    <2> QED BY <1>1, <1>3, <2>2 DEF Next1
  <1> QED BY <1>2, <1>3

LEMMA MoveAt ==
  ASSUME NEW h \in Balances, NEW a \in Asset, NEW b \in Asset, a # b, NEW q \in Int
  PROVE  /\ Move(h, a, b, q)[a] = h[a] - q
         /\ Move(h, a, b, q)[b] = h[b] + q
         /\ \A c \in Asset \ {a, b} : Move(h, a, b, q)[c] = h[c]
  BY DEF Move, Balances

LEMMA MoveNothing ==
  ASSUME NEW h \in Balances, NEW a \in Asset, NEW b \in Asset, a # b
  PROVE  Move(h, a, b, 0) = h
  <1> DEFINE m == Move(h, a, b, 0)
  <1>1. m \in Balances
    BY MoveType
  <1>2. \A c \in Asset : m[c] = h[c]
    BY DEF Move, Balances
  <1> HIDE DEF m
  <1>3. m = h
    BY <1>1, <1>2 DEF Balances
  <1> QED BY <1>3 DEF m

\* A move of no more than is there leaves no debt.
LEMMA MoveKeepsNat ==
  ASSUME NEW h \in Balances, NEW a \in Asset, NEW b \in Asset, a # b, NEW q \in Nat,
         q <= h[a], \A c \in Asset : h[c] >= 0
  PROVE  /\ \A c \in Asset : Move(h, a, b, q)[c] >= 0
         /\ q <= Move(h, a, b, q)[b]
  <1>1. h[a] \in Int /\ h[b] \in Int /\ h[b] >= 0
    BY DEF Balances
  <1> DEFINE m == Move(h, a, b, q)
  <1>2. m[a] = h[a] - q /\ m[b] = h[b] + q /\ \A c \in Asset \ {a, b} : m[c] = h[c]
    BY MoveAt
  <1> HIDE DEF m
  <1>3. m[a] >= 0 /\ m[b] >= 0 /\ q <= m[b]
    BY <1>1, <1>2
  <1>4. \A c \in Asset : m[c] >= 0
    BY <1>2, <1>3
  <1> QED BY <1>3, <1>4 DEF m

-----------------------------------------------------------------------------
(* The leg loop. *)

LEMMA LegFacts ==
  ASSUME IInv, Truth, pc \in Working \cup {"leg"}
  PROVE  /\ Leg \in Asset /\ Leg \in Nat /\ Next1(Leg) \in Asset /\ Next1(Leg) # Leg
         /\ Leg < Legs /\ ctx.current = Leg /\ ctx.running \in Nat
         /\ ctx.running <= recorded[Leg] /\ recorded \in Balances
         /\ Next1(Leg) = IF Leg + 1 = Legs THEN 0 ELSE Leg + 1
  <1>1. Leg \in Asset /\ Leg \in Nat /\ Next1(Leg) \in Asset /\ Leg + 1 \in 0 .. Legs
    BY LegInRange DEF Working
  <1>2. Leg < Legs /\ ctx.running \in Nat /\ recorded \in Balances
    BY DEF IInv, Waiting, TypeOK, Contexts, Working, Leg
  <1>3. ctx.current = Leg /\ ctx.running <= recorded[Leg]
    BY <1>2, CycleAssumption DEF Truth, Recorded, Between
  <1>4. Leg \in 0 .. Legs - 1
    BY <1>1, <1>2, CycleAssumption
  <1> QED BY <1>1, <1>2, <1>3, <1>4, NextAssetIs

LEMMA AbortLegTruth ==
  ASSUME IInv, Truth, AbortLeg PROVE Truth'
  BY DEF AbortLeg, Truth, Watched, Recorded, FillsShow, LegIsWorked, UnwindKnows,
     OutcomeTells, Working, Between, Leg, venue

LEMMA SendLegTruth ==
  ASSUME Truthful, IInv, Truth, SendLeg PROVE Truth'
  <1>1. pc = "leg" /\ UNCHANGED <<ctx, recorded, stray, hold, uw, result>>
    BY DEF SendLeg, SendLegNow
  <1>2. PICK n \in ResizedLots :
          /\ working' = NewOrder(<<"L", Leg, 0>>, Leg, Next1(Leg), n,
                                 IF Leg \in MakerLegs THEN "maker" ELSE "taker")
          /\ pc' = IF Leg \in MakerLegs THEN "post" ELSE "taker"
    BY DEF SendLeg, SendLegNow
  <1>3. /\ Leg \in Asset /\ Next1(Leg) \in Asset /\ Next1(Leg) # Leg
        /\ ctx.running \in Nat /\ recorded \in Balances
    BY <1>1, LegFacts
  <1>4. n \in Nat /\ n <= ctx.running
    BY <1>1, <1>3 DEF ResizedLots
  <1>5. hold = recorded /\ Move(recorded, Leg, Next1(Leg), 0) = recorded
    BY <1>1, <1>3, MoveNothing DEF Truth, Recorded, Between
  <1>6. Watched' /\ OutcomeTells'
    BY <1>1, <1>2 DEF Truthful, Truth, Watched, OutcomeTells, Working
  <1>7. Recorded'
    BY <1>1, <1>2 DEF Truth, Recorded, Working, Between, Leg
  <1>8. FillsShow' /\ LegIsWorked'
    BY <1>1, <1>2, <1>4, <1>5 DEF FillsShow, LegIsWorked, NewOrder, Leg, Working
  <1>9. UnwindKnows'
    BY <1>2 DEF UnwindKnows
  <1> QED BY <1>6, <1>7, <1>8, <1>9 DEF Truth

\* The executor takes what it is told about a leg's order; if that is true it stays so.
LEMMA LegAnsweredTruth ==
  ASSUME Truthful, IInv, Truth, pc \in Working, NEW status, LegAnswered(status),
         AnyFill(status) <=> working.filled > 0, stray' = {}
  PROVE  Truth'
  <1> DEFINE q == working.filled
  <1>1. /\ Leg \in Asset /\ Leg \in Nat /\ Next1(Leg) \in Asset /\ Next1(Leg) # Leg
        /\ Leg < Legs /\ ctx.current = Leg /\ ctx.running \in Nat
        /\ ctx.running <= recorded[Leg] /\ recorded \in Balances
    BY LegFacts
  <1>2. q \in Nat /\ q <= recorded[Leg] /\ recorded[Leg] \in Int
    <2>1. q \in Nat /\ working.qty \in Nat
      BY DEF IInv, TypeOK, Orders
    <2>2. q <= working.qty /\ working.qty <= ctx.running
      BY DEF Truth, FillsShow, LegIsWorked
    <2>3. recorded[Leg] \in Int
      BY <1>1 DEF Balances
    <2> QED BY <1>1, <2>1, <2>2, <2>3
  <1>3. hold = Move(recorded, Leg, Next1(Leg), q) /\ \A a \in Asset : recorded[a] >= 0
    BY DEF Truth, LegIsWorked, Recorded
  <1>4. working' = NoOrder /\ UNCHANGED <<hold, uw, result>>
    BY DEF LegAnswered
  <1>5. FillsShow'
    BY <1>4 DEF FillsShow, NoOrder
  <1>6. pc' \in Between
    BY DEF LegAnswered, LegFilled, LegUnfilled, Between
  <1>7. Watched' /\ OutcomeTells'
    BY <1>4, <1>6 DEF Truth, Watched, OutcomeTells, Between, Working
  <1>8. LegIsWorked' /\ UnwindKnows'
    BY <1>6 DEF LegIsWorked, UnwindKnows, Between, Working
  <1>9. Recorded'
    <2>1. CASE q > 0
      <3>1. LegFilled(q)
        BY <2>1 DEF LegAnswered
      <3>2. recorded' = hold' /\ ctx'.running = q /\ ctx'.current = Next1(Leg)
        BY <1>3, <1>4, <3>1 DEF LegFilled
      <3>3. (\A a \in Asset : hold[a] >= 0) /\ q <= hold[Next1(Leg)]
        BY <1>1, <1>2, <1>3, MoveKeepsNat
      <3>4. Leg' = Leg + 1 /\ Leg' # 0
        BY <1>1, <3>1 DEF LegFilled, Leg
      <3>5. Next1(Leg) = IF Leg' = Legs THEN Start ELSE Leg'
        BY <1>1, <3>4, LegFacts, CycleAssumption DEF Start
      <3> HIDE DEF q
      <3> QED BY <1>4, <1>6, <3>2, <3>3, <3>4, <3>5 DEF Recorded
    <2>2. CASE q = 0
      <3>1. LegUnfilled
        BY <2>2 DEF LegAnswered
      <3>2. hold = recorded
        BY <1>1, <1>3, <2>2, MoveNothing
      <3> QED BY <1>4, <3>1, <3>2 DEF Truth, Recorded, LegUnfilled, Leg
    <2> QED BY <1>2, <2>1, <2>2
  <1> QED BY <1>5, <1>7, <1>8, <1>9 DEF Truth

\* TakerStatus hides a partial fill of a live adapter, and nothing else.
LEMMA TakerStatusTells ==
  ASSUME Truthful, IInv, Truth
  PROVE  AnyFill(TakerStatus(working.filled, working.qty)) <=> working.filled > 0
  <1>1. /\ working.filled \in Nat /\ working.qty \in Nat
        /\ ~ThinBooks => working.filled \in {0, working.qty}
    BY DEF IInv, TypeOK, Orders, Truth, FillsShow
  <1>2. ThinBooks => Adapter = "simulated"
    BY CycleAssumption DEF Truthful
  <1>3. CASE working.filled = 0
    BY <1>3 DEF AnyFill, TakerStatus
  <1>4. CASE working.filled # 0 /\ working.filled = working.qty
    BY <1>1, <1>4 DEF AnyFill, TakerStatus
  <1>5. CASE working.filled # 0 /\ working.filled # working.qty
    <2>1. Adapter = "simulated"
      BY <1>1, <1>2, <1>5
    <2> QED BY <1>1, <1>5, <2>1 DEF AnyFill, TakerStatus
  <1> QED BY <1>3, <1>4, <1>5

LEMMA TakerTruth ==
  ASSUME Truthful, IInv, Truth, TakerAnswered PROVE Truth'
  <1>1. stray' = {} /\ pc \in Working
    BY DEF TakerAnswered, Truth, Watched, Working
  <1> QED BY <1>1, LegAnsweredTruth, TakerStatusTells DEF TakerAnswered

\* What a post-only order's adapter says of it, on OKX and where nothing fills in part.
LEMMA MakerStatusTells ==
  ASSUME Truthful, IInv, Truth, pc \in {"post", "poll", "recancel", "cancel"}
  PROVE  /\ Adapter = "okx" /\ stray = {}
         /\ working.at = "filled" => working.filled > 0
         /\ working.at # "filled" => working.filled = 0
         /\ working.at = "filled" => FetchMaker(working) = "FILLED"
         /\ working.at # "filled" => ~AnyFill(FetchMaker(working))
         /\ pc = "cancel" => (AnyFill(CancelMaker(working)) <=> working.filled > 0)
  <1>1. Adapter = "okx" /\ stray = {}
    BY DEF Truth, Watched
  <1>2. /\ working.at = "filled" => working.filled > 0
        /\ working.at # "filled" => working.filled = 0
    BY DEF IInv, TypeOK, Orders, Truth, FillsShow, LegIsWorked, Working
  <1>3. working.at = "filled" => FetchMaker(working) = "FILLED"
    BY <1>1 DEF FetchMaker
  <1>4. working.at # "filled" => ~AnyFill(FetchMaker(working))
    BY <1>2 DEF FetchMaker, AnyFill
  <1>5. pc = "cancel" => (AnyFill(CancelMaker(working)) <=> working.filled > 0)
    BY <1>1, <1>2 DEF CancelMaker, AnyFill
  <1> QED BY <1>1, <1>2, <1>3, <1>4, <1>5

LEMMA PostAnsweredTruth ==
  ASSUME Truthful, IInv, Truth, PostAnswered PROVE Truth'
  <1>1. pc = "post" /\ stray' = {}
    BY DEF PostAnswered, Truth, Watched
  <1>2. CASE working.at = "refused" \/ working.at = "filled"
    <2>1. LegAnswered(IF working.at = "filled" THEN "FILLED" ELSE "REJECTED")
      BY <1>1, <1>2, MakerStatusTells DEF PostAnswered
    <2>2. AnyFill(IF working.at = "filled" THEN "FILLED" ELSE "REJECTED")
            <=> working.filled > 0
      BY <1>1, <1>2, MakerStatusTells DEF AnyFill
    <2> QED BY <1>1, <2>1, <2>2, LegAnsweredTruth DEF Working
  <1>3. CASE working.at # "refused" /\ working.at # "filled"
    <2>1. /\ pc' \in {"poll", "cancel"} /\ working' = [working EXCEPT !.tracked = TRUE]
          /\ UNCHANGED <<ctx, recorded, hold, uw, result>>
      BY <1>3 DEF PostAnswered
    <2>2. working \in Orders /\ working.at # "sent"
      BY DEF PostAnswered, IInv, TypeOK
    <2>3. /\ working'.filled = working.filled /\ working'.qty = working.qty
          /\ working'.at = working.at /\ working'.from = working.from
          /\ working'.to = working.to /\ working'.kind = working.kind
      BY <2>1, <2>2 DEF Orders
    <2>4. Watched' /\ OutcomeTells'
      BY <1>1, <2>1 DEF Truth, Watched, OutcomeTells, Working
    <2>5. Recorded'
      BY <1>1, <2>1 DEF Truth, Recorded, Working, Between, Leg
    <2>6. FillsShow' /\ UnwindKnows'
      BY <2>1, <2>3 DEF Truth, FillsShow, UnwindKnows
    <2>7. LegIsWorked'
      BY <1>1, <1>3, <2>1, <2>2, <2>3 DEF Truth, LegIsWorked, Working, Leg
    <2> QED BY <2>4, <2>5, <2>6, <2>7 DEF Truth
  <1> QED BY <1>2, <1>3

LEMMA PollTruth ==
  ASSUME Truthful, IInv, Truth, PollSeesFill \/ MakerCrossedOut \/ MakerCancelled
  PROVE  Truth'
  <1>1. CASE PollSeesFill
    <2>1. pc = "poll" /\ working.at = "filled"
      BY <1>1, MakerStatusTells DEF PollSeesFill
    <2>2. stray' = {}
      BY <1>1, <2>1, MakerStatusTells DEF PollSeesFill, Abandon, Live
    <2> QED
      BY <1>1, <2>1, <2>2, MakerStatusTells, LegAnsweredTruth
      DEF PollSeesFill, Working, AnyFill
  <1>2. CASE MakerCrossedOut
    <2>1. pc = "poll" /\ working.at # "filled" /\ stray' = {}
      BY <1>2, MakerStatusTells DEF MakerCrossedOut
    <2> QED
      BY <1>2, <2>1, MakerStatusTells, LegAnsweredTruth
      DEF MakerCrossedOut, Working, AnyFill
  <1>3. CASE MakerCancelled
    <2>1. pc = "cancel" /\ stray' = {}
      BY <1>3, MakerStatusTells DEF MakerCancelled
    <2> QED BY <1>3, <2>1, MakerStatusTells, LegAnsweredTruth DEF MakerCancelled, Working
  <1> QED BY <1>1, <1>2, <1>3

LEMMA RequeueTruth ==
  ASSUME Truthful, IInv, Truth, Requeue PROVE Truth'
  <1>1. /\ pc = "recancel" /\ pc' = "post" /\ working.at = "crossed"
        /\ working' = NewOrder(<<"L", Leg, requeues + 1>>, working.from, working.to,
                               working.qty, "maker")
        /\ UNCHANGED <<ctx, recorded, hold, uw, result>>
    BY DEF Requeue, Truth, LegIsWorked, Working
  <1>2. working.filled = 0 /\ stray' = stray
    BY <1>1, MakerStatusTells DEF Requeue, Abandon, Live
  <1>3. Watched' /\ OutcomeTells' /\ UnwindKnows'
    BY <1>1, <1>2 DEF Truth, Watched, OutcomeTells, UnwindKnows, Working
  <1>4. Recorded'
    BY <1>1 DEF Truth, Recorded, Working, Between, Leg
  <1>5. FillsShow'
    BY <1>1 DEF FillsShow, NewOrder, IInv, TypeOK, Orders
  <1>6. LegIsWorked'
    BY <1>1, <1>2 DEF Truth, LegIsWorked, NewOrder, Working, Leg
  <1> QED BY <1>3, <1>4, <1>5, <1>6 DEF Truth

\* Waiting for the answer to a cancel changes nothing but where the executor waits.
LEMMA RecancelTruth ==
  ASSUME Truthful, IInv, Truth, Recancel PROVE Truth'
  <1>1. /\ pc = "poll" /\ pc' = "recancel" /\ UNCHANGED <<ctx, recorded, venue, uw, result>>
        /\ working.at = "crossed"
    BY DEF Recancel, FetchMaker
  <1> QED
    BY <1>1 DEF Truth, Watched, Recorded, FillsShow, LegIsWorked, UnwindKnows, OutcomeTells,
       Working, Between, Leg, venue

LEMMA MakerDeadlineTruth ==
  ASSUME Truthful, IInv, Truth, MakerDeadline PROVE Truth'
  <1>1. /\ pc = "poll" /\ pc' = "cancel" /\ UNCHANGED <<ctx, recorded, venue, uw, result>>
        /\ working.at # "crossed"
    BY DEF MakerDeadline, FetchMaker
  <1> QED
    BY <1>1 DEF Truth, Watched, Recorded, FillsShow, LegIsWorked, UnwindKnows, OutcomeTells,
       Working, Between, Leg, venue

-----------------------------------------------------------------------------
(* _finalize and the unwind. *)

LEMMA FinalizeTruth ==
  ASSUME IInv, Truth, FinalizeComplete \/ FinalizeUncommitted PROVE Truth'
  <1>1. /\ pc = "finalize" /\ pc' = "done" /\ UNCHANGED <<ctx, recorded, venue, uw>>
        /\ \/ Leg = Legs /\ Closed("COMPLETED", ctx.running)
           \/ Leg = 0 /\ Closed("ABORTED_PRE_TRADE", 0)
    BY DEF FinalizeComplete, FinalizeUncommitted
  <1>2. hold = recorded
    BY <1>1 DEF Truth, Recorded, Between
  <1>3. Leg = Legs => ctx.running <= hold[Start]
    BY <1>1, <1>2 DEF Truth, Recorded, Between
  <1>4. Leg = 0 => hold = AllInStart
    BY <1>1, <1>2 DEF Truth, Recorded, Between
  <1>5. OutcomeTells'
    BY <1>1, <1>2, <1>3, <1>4 DEF OutcomeTells, Closed, venue
  <1> QED
    BY <1>1, <1>5
    DEF Truth, Watched, Recorded, FillsShow, LegIsWorked, UnwindKnows, Working, Between, venue

LEMMA FinalizeCommittedTruth ==
  ASSUME IInv, Truth, FinalizeCommitted PROVE Truth'
  <1>1. /\ pc = "finalize" /\ Leg # 0 /\ Leg # Legs
        /\ UNCHANGED <<ctx, recorded, venue>>
    BY DEF FinalizeCommitted
  <1>2. PICK path \in Paths(ctx.current) :
          IF path = <<>>
          THEN Stuck /\ pc' = "done" /\ UNCHANGED uw
          ELSE /\ uw' = [path |-> path, hop |-> 1, at |-> ctx.current,
                         left |-> ctx.running, out |-> 0, attempt |-> 0,
                         seen |-> recorded]
               /\ pc' = "unwind"
               /\ UNCHANGED result
    BY DEF FinalizeCommitted
  <1>3. /\ hold = recorded /\ ctx.current # Start /\ ctx.running <= recorded[ctx.current]
        /\ \A a \in Asset : recorded[a] >= 0
    BY <1>1 DEF Truth, Recorded, Between, Start
  <1>4. FillsShow'
    BY <1>1 DEF Truth, FillsShow, venue
  <1>5. CASE path = <<>>
    BY <1>1, <1>2, <1>4, <1>5
    DEF Truth, Watched, Recorded, LegIsWorked, UnwindKnows, OutcomeTells, Working, Between,
        Stuck, venue
  <1>6. CASE path # <<>>
    <2>1. \A i \in 1 .. Len(path) : path[i] # ctx.current
      BY <1>6, RouteFacts DEF Paths
    <2>5. path[1] \in Asset
      BY <1>6, RouteFacts DEF Paths
    <2>2. pc' = "unwind" /\ UNCHANGED result /\ HopTo' = path[1]
      BY <1>2, <1>6 DEF HopTo
    <2>3. Watched' /\ Recorded' /\ LegIsWorked' /\ OutcomeTells'
      BY <1>1, <2>2
      DEF Truth, Watched, Recorded, LegIsWorked, OutcomeTells, Working, Between, venue
    <2>4. UnwindKnows'
      BY <1>1, <1>2, <1>3, <1>6, <2>1, <2>2, <2>5 DEF UnwindKnows, venue
    <2> QED BY <1>4, <2>3, <2>4 DEF Truth
  <1> QED BY <1>5, <1>6

LEMMA UnwindFacts ==
  ASSUME IInv, Truth, pc \in {"unwind", "hop"}
  PROVE  /\ uw \in Unwinds /\ uw.at \in Asset /\ HopTo \in Asset /\ HopTo # uw.at
         /\ uw.left \in Nat /\ uw.out \in Nat /\ uw.seen \in Balances
         /\ uw.left <= uw.seen[uw.at] /\ uw.out <= uw.seen[HopTo]
         /\ uw.path[Len(uw.path)] = Start
         /\ \A i \in uw.hop .. Len(uw.path) : uw.path[i] # uw.at
         /\ \A a \in Asset : uw.seen[a] >= 0
  <1>1. /\ uw.path \in Routes /\ uw.at \in Asset /\ HopTo \in Asset
        /\ uw.hop \in 1 .. Len(uw.path)
    BY HopAssets
  <1>2. Len(uw.path) \in Nat /\ uw.path[Len(uw.path)] = Start
    BY <1>1, RouteFacts, CycleAssumption
  <1>3. \A i \in uw.hop .. Len(uw.path) : uw.path[i] # uw.at
    BY DEF Truth, UnwindKnows
  <1>4. uw.hop \in uw.hop .. Len(uw.path)
    BY <1>1, <1>2
  <1> QED BY <1>1, <1>2, <1>3, <1>4 DEF IInv, TypeOK, Unwinds, Truth, UnwindKnows, HopTo

LEMMA SendHopTruth ==
  ASSUME IInv, Truth, SendHop PROVE Truth'
  <1>1. PICK n \in Sellable \ {0} :
          working' = NewOrder(<<"UW", uw.hop, uw.attempt>>, uw.at, HopTo, n, "taker")
    BY DEF SendHop
  <1>2. /\ pc = "unwind" /\ pc' = "hop" /\ uw.left > 0
        /\ UNCHANGED <<ctx, recorded, stray, hold, uw, result>>
    BY DEF SendHop, MayAttempt
  <1>3. n \in Nat /\ n <= uw.left
    BY <1>2, SellableType
  <1>4. Watched' /\ Recorded' /\ LegIsWorked' /\ OutcomeTells'
    BY <1>2 DEF Truth, Watched, Recorded, LegIsWorked, OutcomeTells, Working, Between
  <1>5. FillsShow'
    BY <1>1, <1>3 DEF FillsShow, NewOrder
  <1>6. hold = Move(uw.seen, uw.at, HopTo, 0)
    BY <1>2, UnwindFacts, MoveNothing DEF Truth, UnwindKnows
  <1>7. UnwindKnows'
    BY <1>1, <1>2, <1>3, <1>6 DEF Truth, UnwindKnows, NewOrder, HopTo
  <1> QED BY <1>4, <1>5, <1>7 DEF Truth

LEMMA NoHopTruth ==
  ASSUME IInv, Truth, HopDust \/ HopUnavailable PROVE Truth'
  <1>1. /\ pc = "unwind" /\ UNCHANGED <<pc, ctx, recorded, venue, result>>
        /\ uw' = [uw EXCEPT !.left = 0] \/ uw' = [uw EXCEPT !.attempt = @ + 1]
    BY DEF HopDust, HopUnavailable, MayAttempt
  <1>2. /\ uw'.path = uw.path /\ uw'.hop = uw.hop /\ uw'.at = uw.at
        /\ uw'.seen = uw.seen /\ uw'.out = uw.out /\ uw'.left \in {0, uw.left}
    BY <1>1, UnwindFacts DEF Unwinds
  <1>3. 0 <= uw.seen[uw.at]
    BY <1>1, UnwindFacts
  <1>4. UnwindKnows'
    BY <1>1, <1>2, <1>3 DEF Truth, UnwindKnows, HopTo, venue
  <1> QED
    BY <1>1, <1>4
    DEF Truth, Watched, Recorded, FillsShow, LegIsWorked, OutcomeTells, Working, Between, venue

LEMMA HopAnsweredTruth ==
  ASSUME Truthful, IInv, Truth, HopAnswered PROVE Truth'
  <1> DEFINE q == working.filled
  <1>1. /\ pc = "hop" /\ pc' = "unwind" /\ working' = NoOrder
        /\ UNCHANGED <<ctx, recorded, stray, hold, result>>
    BY DEF HopAnswered
  <1>2. q \in Nat /\ q <= uw.left /\ hold = Move(uw.seen, uw.at, HopTo, q)
    <2>1. q \in Nat /\ working.qty \in Nat /\ q <= working.qty /\ working.qty <= uw.left
      BY <1>1 DEF IInv, TypeOK, Orders, Truth, FillsShow, UnwindKnows
    <2> QED BY <1>1, <2>1, UnwindFacts DEF Truth, UnwindKnows
  <1>3. Watched' /\ Recorded' /\ LegIsWorked' /\ OutcomeTells' /\ FillsShow'
    BY <1>1
    DEF Truth, Watched, Recorded, LegIsWorked, OutcomeTells, FillsShow, NoOrder, Working,
        Between
  <1>4. UnwindKnows'
    <2>1. CASE q > 0
      <3>1. uw' = AfterSelling(q)
        BY <2>1, TakerStatusTells DEF HopAnswered
      <3>2. /\ uw'.path = uw.path /\ uw'.hop = uw.hop /\ uw'.at = uw.at
            /\ uw'.seen = hold /\ uw'.out = uw.out + q
            /\ uw'.left = IF uw.left - q <= Dust THEN 0 ELSE uw.left - q
        BY <1>1, <1>2, <3>1, UnwindFacts DEF AfterSelling, Unwinds
      <3>3. \A a \in Asset : hold[a] >= 0
        <4>1. /\ uw.seen \in Balances /\ uw.at \in Asset /\ HopTo \in Asset /\ uw.at # HopTo
              /\ uw.left \in Nat /\ uw.left <= uw.seen[uw.at] /\ uw.seen[uw.at] \in Int
              /\ \A a \in Asset : uw.seen[a] >= 0
          BY <1>1, UnwindFacts DEF Balances
        <4>2. q \in Nat /\ q <= uw.seen[uw.at]
          BY <1>2, <4>1
        <4>3. \A a \in Asset : Move(uw.seen, uw.at, HopTo, q)[a] >= 0
          BY <4>1, <4>2, MoveKeepsNat
        <4> QED BY <1>2, <4>3
      <3>4. hold[uw.at] = uw.seen[uw.at] - q /\ hold[HopTo] = uw.seen[HopTo] + q
        BY <1>1, <1>2, UnwindFacts, MoveAt
      <3>5. uw'.left <= hold[uw.at] /\ uw'.out <= hold[HopTo]
        BY <1>1, <1>2, <3>2, <3>3, <3>4, UnwindFacts DEF Balances
      <3> HIDE DEF q
      <3>6. HopTo' = HopTo /\ \A i \in uw'.hop .. Len(uw'.path) : uw'.path[i] # uw'.at
        BY <1>1, <3>2, UnwindFacts DEF HopTo
      <3> QED BY <1>1, <3>2, <3>3, <3>5, <3>6 DEF UnwindKnows
    <2>2. CASE q = 0
      <3>1. uw' = [uw EXCEPT !.attempt = @ + 1]
        BY <2>2, TakerStatusTells DEF HopAnswered
      <3>2. /\ uw'.path = uw.path /\ uw'.hop = uw.hop /\ uw'.at = uw.at
            /\ uw'.seen = uw.seen /\ uw'.out = uw.out /\ uw'.left = uw.left
        BY <1>1, <3>1, UnwindFacts DEF Unwinds
      <3>3. hold = uw.seen
        BY <1>1, <1>2, <2>2, UnwindFacts, MoveNothing
      <3> QED BY <1>1, <3>2, <3>3 DEF Truth, UnwindKnows, HopTo
    <2> QED BY <1>2, <2>1, <2>2
  <1> QED BY <1>3, <1>4 DEF Truth

LEMMA NextHopTruth ==
  ASSUME IInv, Truth, NextHop PROVE Truth'
  <1>1. /\ pc = "unwind" /\ UNCHANGED <<pc, ctx, recorded, venue, result>>
        /\ uw.hop < Len(uw.path)
        /\ uw' = [uw EXCEPT !.hop = @ + 1, !.at = HopTo, !.left = uw.out, !.out = 0,
                            !.attempt = 0]
    BY DEF NextHop
  <1>2. /\ uw.path \in Routes /\ uw.hop \in 1 .. Len(uw.path) /\ Len(uw.path) \in Nat
        /\ HopTo \in Asset
    BY <1>1, HopAssets, RouteFacts, CycleAssumption
  <1>3. /\ uw'.path = uw.path /\ uw'.hop = uw.hop + 1 /\ uw'.at = HopTo
        /\ uw'.seen = uw.seen /\ uw'.out = 0 /\ uw'.left = uw.out
    BY <1>1, UnwindFacts DEF Unwinds
  <1>4. \A i \in uw'.hop .. Len(uw'.path) : uw'.path[i] # uw'.at
    <2> SUFFICES ASSUME NEW i \in uw.hop + 1 .. Len(uw.path) PROVE uw.path[i] # HopTo
      BY <1>3
    <2> DEFINE len == Len(uw.path)
    <2>1. len \in Nat /\ uw.hop \in 1 .. len /\ i \in uw.hop + 1 .. len
      BY <1>2
    <2> HIDE DEF len
    <2>2. i \in 1 .. len /\ i # uw.hop
      BY <2>1
    <2> QED BY <1>2, <2>2, RouteFacts DEF len, HopTo
  <1>5. HopTo' \in Asset /\ 0 <= uw.seen[HopTo']
    <2> DEFINE len == Len(uw.path)
    <2>1. len \in Nat /\ uw.hop \in 1 .. len /\ uw.hop < len
      BY <1>1, <1>2
    <2> HIDE DEF len
    <2>2. uw.hop + 1 \in 1 .. len
      BY <2>1
    <2>3. uw.path[uw.hop + 1] \in Asset
      BY <1>2, <2>2, RouteFacts DEF len
    <2> QED BY <1>1, <1>3, <2>3, UnwindFacts DEF HopTo
  <1>6. UnwindKnows'
    BY <1>1, <1>3, <1>4, <1>5, UnwindFacts DEF Truth, UnwindKnows, venue
  <1> QED
    BY <1>1, <1>6
    DEF Truth, Watched, Recorded, FillsShow, LegIsWorked, OutcomeTells, Working, Between, venue

LEMMA UnwindEndsTruth ==
  ASSUME IInv, Truth, UnwindSucceeds \/ UnwindFails PROVE Truth'
  <1>1. pc = "unwind" /\ pc' = "done" /\ UNCHANGED <<ctx, venue, uw>>
    BY DEF UnwindSucceeds, Unwound, UnwindFails
  <1>2. hold = uw.seen
    BY <1>1 DEF Truth, UnwindKnows
  <1>3. OutcomeTells'
    <2>1. CASE UnwindSucceeds
      <3>1. recorded' = hold /\ Closed("PARTIAL_UNWOUND", uw.out) /\ uw.hop = Len(uw.path)
        BY <1>2, <2>1 DEF UnwindSucceeds, Unwound
      <3>2. HopTo = Start
        BY <1>1, <3>1, UnwindFacts DEF HopTo
      <3>3. uw.out <= hold[Start]
        BY <1>1, <1>2, <3>2, UnwindFacts
      <3> QED BY <1>1, <3>1, <3>3 DEF OutcomeTells, Closed, venue
    <2>2. CASE UnwindFails
      BY <1>1, <2>2 DEF UnwindFails, Stuck, OutcomeTells
    <2> QED BY <2>1, <2>2
  <1> QED
    BY <1>1, <1>3
    DEF Truth, Watched, Recorded, FillsShow, LegIsWorked, UnwindKnows, Working, Between, venue

-----------------------------------------------------------------------------
(* The venue, the clock and the stop. *)

LEMMA PostMakerTruth ==
  ASSUME IInv, Truth, PostMaker PROVE Truth'
  <1>1. /\ working.kind = "maker" /\ working.at = "sent" /\ UNCHANGED <<exec, stray, hold>>
    BY DEF PostMaker
  <1>2. PICK at \in {"resting", "crossed", "refused"} : working' = [working EXCEPT !.at = at]
    BY DEF PostMaker
  <1>3. /\ working'.filled = working.filled /\ working'.qty = working.qty
        /\ working'.at = at /\ working'.from = working.from
        /\ working'.to = working.to /\ working'.kind = working.kind
    BY <1>2 DEF IInv, TypeOK, Orders
  <1>4. working.filled = 0 /\ pc = "post"
    BY <1>1 DEF Truth, FillsShow, Watched, LegIsWorked, UnwindKnows, Working, NoOrder
  <1> QED
    BY <1>1, <1>3, <1>4
    DEF Truth, Watched, Recorded, FillsShow, LegIsWorked, UnwindKnows, OutcomeTells, Working,
        Between, Leg, exec

\* The watched order fills q lots more: the account and the order's own count move together.
LEMMA FillTruth ==
  ASSUME IInv, Truth, pc \in Working \cup {"hop"}, working.filled = 0, NEW q \in Nat,
         working'.filled = q, q <= working.qty, ~ThinBooks => q \in {0, working.qty},
         working'.qty = working.qty, working'.from = working.from,
         working'.to = working.to, working'.kind = working.kind,
         \/ working.at = "sent" /\ working.kind = "taker" /\ working'.at = "matched"
         \/ /\ working.at = "resting" /\ ~ThinBooks
            /\ working'.at = "filled" /\ q = working.qty /\ q > 0,
         hold' = Move(hold, working.from, working.to, q),
         UNCHANGED <<exec, stray>>
  PROVE  Truth'
  <1>1. UNCHANGED <<pc, ctx, recorded, uw, result>>
    BY DEF exec
  <1>2. Watched' /\ Recorded' /\ OutcomeTells'
    BY <1>1 DEF Truth, Watched, Recorded, OutcomeTells, Working, Between, Leg
  <1>3. FillsShow'
    BY DEF FillsShow
  <1>4. CASE pc \in Working
    <2>1. hold = Move(recorded, Leg, Next1(Leg), 0) /\ working.from = Leg /\ working.to = Next1(Leg)
      BY <1>4 DEF Truth, LegIsWorked
    <2>2. hold = recorded
      BY <1>4, <2>1, LegFacts, MoveNothing
    <2>3. LegIsWorked' /\ UnwindKnows'
      BY <1>1, <1>4, <2>1, <2>2 DEF Truth, LegIsWorked, UnwindKnows, Working, Leg
    <2> QED BY <1>2, <1>3, <2>3 DEF Truth
  <1>5. CASE pc = "hop"
    <2>1. /\ hold = Move(uw.seen, uw.at, HopTo, 0)
          /\ working.from = uw.at /\ working.to = HopTo /\ working.kind = "taker"
          /\ working.at \in {"sent", "matched"}
      BY <1>5 DEF Truth, UnwindKnows
    <2>2. hold = uw.seen
      BY <1>5, <2>1, UnwindFacts, MoveNothing
    <2>3. LegIsWorked' /\ UnwindKnows'
      BY <1>1, <1>5, <2>1, <2>2 DEF Truth, LegIsWorked, UnwindKnows, Working, HopTo
    <2> QED BY <1>2, <1>3, <2>3 DEF Truth
  <1> QED BY <1>4, <1>5

LEMMA MatchTakerTruth ==
  ASSUME IInv, Truth, MatchTaker PROVE Truth'
  <1>1. PICK q \in Fillable(working.from, working.qty) :
          /\ working' = [working EXCEPT !.filled = q, !.at = "matched"]
          /\ hold' = Move(hold, working.from, working.to, q)
    BY DEF MatchTaker
  <1>2. working \in Orders /\ working.qty \in Nat
    BY DEF IInv, TypeOK, Orders
  <1>3. q \in Nat /\ q <= working.qty /\ (~ThinBooks => q \in {0, working.qty})
    BY <1>2 DEF Fillable
  <1>4. /\ working'.filled = q /\ working'.qty = working.qty
        /\ working'.at = "matched" /\ working'.from = working.from
        /\ working'.to = working.to /\ working'.kind = working.kind
    BY <1>1, <1>2, <1>3 DEF Orders
  <1>5. /\ working.at = "sent" /\ working.kind = "taker" /\ working.filled = 0
        /\ UNCHANGED <<exec, stray>>
    BY DEF MatchTaker, Truth, FillsShow
  <1>6. pc \in Working \cup {"hop"}
    BY <1>5 DEF Truth, Watched, NoOrder
  <1> QED BY <1>1, <1>3, <1>4, <1>5, <1>6, FillTruth

LEMMA TradeRestingTruth ==
  ASSUME IInv, Truth, TradeResting PROVE Truth'
  <1>1. PICK q \in Fillable(working.from, working.qty - working.filled) \ {0} :
          /\ working' = Traded(working, q)
          /\ hold' = Move(hold, working.from, working.to, q)
    BY DEF TradeResting
  <1>2. working \in Orders /\ working.qty \in Nat
    BY DEF IInv, TypeOK, Orders
  <1>3. working.at = "resting" /\ working.filled = 0 /\ UNCHANGED <<exec, stray>>
    BY DEF TradeResting, Truth, FillsShow
  <1>4. pc \in {"post", "poll", "recancel", "cancel"} /\ ~ThinBooks
    BY <1>3 DEF Truth, Watched, LegIsWorked, UnwindKnows, Working, NoOrder
  <1>5. q \in Nat /\ q = working.qty /\ q > 0
    <2>1. working.qty - working.filled = working.qty
      BY <1>2, <1>3
    <2> QED BY <1>2, <1>4, <2>1 DEF Fillable
  <1>6. /\ working'.filled = q /\ working'.qty = working.qty
        /\ working'.at = "filled" /\ working'.from = working.from
        /\ working'.to = working.to /\ working'.kind = working.kind
    BY <1>1, <1>2, <1>3, <1>5 DEF Orders, Traded
  <1> QED BY <1>1, <1>3, <1>4, <1>5, <1>6, FillTruth DEF Working

LEMMA OutsideTruth ==
  ASSUME IInv, Truth, BudgetExpires \/ DeadlinePasses PROVE Truth'
  BY DEF BudgetExpires, DeadlinePasses, exec, venue, Truth, Watched, Recorded, FillsShow,
     LegIsWorked, UnwindKnows, OutcomeTells, Working, Between, Leg, HopTo

LEMMA StoppedTruth ==
  ASSUME IInv, Truth, Cancelled \/ StopCancelsOrders \/ StrayFills \/ StrayPosts
  PROVE  Truth'
  <1>1. pc' \in {"cancelled", "stopped"} /\ working' = NoOrder /\ result' = NoResult
    BY DEF Cancelled, StopCancelsOrders, StrayFills, StrayPosts, exec, Truth, Watched,
       OutcomeTells, Working
  <1> QED
    BY <1>1
    DEF Truth, Watched, Recorded, FillsShow, LegIsWorked, UnwindKnows, OutcomeTells, Working,
        Between, NoOrder

LEMMA StepTruth == Truthful /\ IInv /\ Truth /\ [Next]_vars => Truth'
  <1> SUFFICES ASSUME Truthful, IInv, Truth, [Next]_vars PROVE Truth'
    OBVIOUS
  <1>1. ~LegErrored /\ ~TakerTimedOut /\ ~TimeoutQueried /\ ~HopErrored /\ ~HopRaises
    BY DEF Truthful, Truth, Watched, LegErrored, TakerTimedOut, TimeoutQueried, HopErrored,
       HopRaises, MayFail
  <1>2. CASE AbortLeg \/ SendLeg \/ TakerAnswered
    BY <1>2, AbortLegTruth, SendLegTruth, TakerTruth
  <1>3. CASE PostAnswered \/ PollSeesFill \/ Recancel \/ Requeue \/ MakerCrossedOut
               \/ MakerDeadline \/ MakerCancelled
    BY <1>3, PostAnsweredTruth, PollTruth, RecancelTruth, RequeueTruth, MakerDeadlineTruth
  <1>4. CASE FinalizeComplete \/ FinalizeUncommitted \/ FinalizeCommitted
    BY <1>4, FinalizeTruth, FinalizeCommittedTruth
  <1>5. CASE SendHop \/ HopDust \/ HopUnavailable \/ HopAnswered \/ NextHop
               \/ UnwindSucceeds \/ UnwindFails
    BY <1>5, SendHopTruth, NoHopTruth, HopAnsweredTruth, NextHopTruth, UnwindEndsTruth
  <1>6. CASE Venue
    BY <1>6, MatchTakerTruth, PostMakerTruth, TradeRestingTruth, StoppedTruth DEF Venue
  <1>7. CASE BudgetExpires \/ DeadlinePasses \/ Cancelled \/ StopCancelsOrders
    BY <1>7, OutsideTruth, StoppedTruth
  <1>8. CASE UNCHANGED vars
    BY <1>8
    DEF vars, Truth, Watched, Recorded, FillsShow, LegIsWorked, UnwindKnows, OutcomeTells,
        Working, Between, Leg, HopTo
  <1> QED
    BY <1>1, <1>2, <1>3, <1>4, <1>5, <1>6, <1>7, <1>8 DEF Next, Executor, Answered, Failed

LEMMA InitTruth == Init => Truth
  <1> SUFFICES ASSUME Init PROVE Truth
    OBVIOUS
  <1>1. Start \in Asset /\ Legs # 0 /\ StartLots \in Nat
    BY StartIsAsset, CycleAssumption
  <1>2. \A a \in Asset : AllInStart[a] >= 0
    BY <1>1 DEF AllInStart
  <1>3. AllInStart[Start] = StartLots
    BY <1>1 DEF AllInStart
  <1>4. Recorded
    <2>1. /\ Leg = 0 /\ ctx.running = StartLots /\ ctx.current = Start
          /\ recorded = AllInStart /\ hold = AllInStart
      BY DEF Init, Leg
    <2>2. StartLots <= AllInStart[Start]
      BY <1>1, <1>3
    <2>3. \A a \in Asset : recorded[a] >= 0
      BY <1>2, <2>1
    <2>4. ctx.running <= recorded[ctx.current]
      BY <2>1, <2>2
    <2>5. ctx.current = IF Leg = Legs THEN Start ELSE Leg
      BY <1>1, <2>1 DEF Start
    <2> QED BY <2>1, <2>3, <2>4, <2>5 DEF Recorded
  <1>5. Watched /\ LegIsWorked /\ UnwindKnows /\ OutcomeTells
    BY DEF Init, Watched, LegIsWorked, UnwindKnows, OutcomeTells, Working
  <1>6. FillsShow
    BY DEF Init, FillsShow, NoOrder
  <1> QED BY <1>4, <1>5, <1>6 DEF Truth

LEMMA TruthIsInvariant == Truthful => (Spec => []Truth)
  <1> SUFFICES ASSUME Truthful PROVE Spec => []Truth
    OBVIOUS
  <1>1. IInv /\ Truth /\ [Next]_vars => Truth'
    BY StepTruth
  <1> QED BY InitIInv, StepIInv, InitTruth, <1>1, PTL DEF Spec

-----------------------------------------------------------------------------
(* What follows for the account. *)

\* Where the answers are truthful, no leg and no unwind hop ever asks for more than the
\* cycle's own capital still holds of what it sells.
THEOREM NothingIsOversold == Truthful => (Spec => []NeverOversells)
  <1>1. IInv /\ Truth => NeverOversells
    <2> SUFFICES ASSUME IInv, Truth, working.at \in {"sent", "resting"}
                 PROVE  working.qty - working.filled <= hold[working.from]
      BY DEF NeverOversells
    <2>1. pc \in Working \cup {"hop"} /\ working.filled = 0 /\ working.qty \in Nat
      BY DEF Truth, Watched, FillsShow, NoOrder, IInv, TypeOK, Orders
    <2>2. CASE pc \in Working
      <3>1. /\ working.from = Leg /\ working.qty <= ctx.running
            /\ hold = Move(recorded, Leg, Next1(Leg), 0)
        BY <2>1, <2>2 DEF Truth, LegIsWorked
      <3>2. hold = recorded
        BY <2>2, <3>1, LegFacts, MoveNothing
      <3>3. hold[Leg] \in Int /\ ctx.running <= hold[Leg] /\ ctx.running \in Nat
        BY <2>2, <3>2, LegFacts DEF Balances
      <3> QED BY <2>1, <3>1, <3>3
    <2>3. CASE pc = "hop"
      <3>1. /\ working.from = uw.at /\ working.qty <= uw.left
            /\ hold = Move(uw.seen, uw.at, HopTo, 0)
        BY <2>1, <2>3 DEF Truth, UnwindKnows
      <3>2. hold = uw.seen
        BY <2>3, <3>1, UnwindFacts, MoveNothing
      <3>3. hold[uw.at] \in Int /\ uw.left <= hold[uw.at] /\ uw.left \in Nat
        BY <2>3, <3>2, UnwindFacts DEF Balances
      <3> QED BY <2>1, <3>1, <3>3
    <2> QED BY <2>1, <2>2, <2>3
  <1> QED BY InitIInv, StepIInv, TruthIsInvariant, <1>1, PTL DEF Spec

\* Where the answers are truthful, a cycle reported as aborted before any trade has moved
\* nothing.
THEOREM AbortsMoveNothing == Truthful => (Spec => []AbortMovesNothing)
  <1>1. Truth => AbortMovesNothing
    BY DEF Truth, OutcomeTells, AbortMovesNothing, NoResult
  <1> QED BY TruthIsInvariant, <1>1, PTL

\* Where the answers are truthful, the amount a cycle reports having ended with is in the
\* start asset.
THEOREM EndsAreHeld == Truthful => (Spec => []ReportedEndIsHeld)
  <1>1. Truth => ReportedEndIsHeld
    BY DEF Truth, OutcomeTells, ReportedEndIsHeld, NoResult
  <1> QED BY TruthIsInvariant, <1>1, PTL

\* Where the answers are truthful, the fills the ledger is given of a cycle that is not
\* stuck leave it agreeing with the account, asset by asset.
THEOREM LedgerReconciles == Truthful => (Spec => []ClosedCyclesReconcile)
  <1>1. IInv /\ Truth => ClosedCyclesReconcile
    <2> SUFFICES ASSUME IInv, Truth, pc = "done", result.outcome # "PARTIAL_STUCK"
                 PROVE  LedgerView = hold
      BY DEF ClosedCyclesReconcile
    <2> QED
      BY DEF Truth, OutcomeTells, LedgerView, IInv, TypeOK, Results, Outcomes
  <1> QED BY InitIInv, StepIInv, TruthIsInvariant, <1>1, PTL DEF Spec

-----------------------------------------------------------------------------

\* The last attempt of a hop must not be padded past twice the touch, or its size could floor
\* to zero with more than a lot to sell (400 against the code's 4).
WholeFills ==
    /\ ~ThinBooks /\ ~LostAnswers
    /\ MakerLegs = {} \/ Adapter = "okx"
    /\ MaxAttempts <= Grain

\* Until the unwind, all of the capital is in the current asset.
OnePosition ==
    /\ pc \in Working \cup Between =>
         /\ ctx.running = StartLots
         /\ \A a \in Asset : recorded[a] = IF a = ctx.current THEN StartLots ELSE 0
    /\ pc \in Working => working.qty = StartLots

\* The unwinder's own count of a hop is what the account holds of its two assets, the assets
\* still on the way are empty, and what was left behind on the way is written off.
HopIsWhole ==
    pc \in {"unwind", "hop"} =>
         /\ Leg > 0 /\ uw.at # Start
         /\ uw.left # 0 => uw.seen[uw.at] = uw.left
         /\ uw.left = 0 => uw.seen[uw.at] <= WrittenOff
         /\ uw.out = 0 => uw.seen[uw.at] > 0
         /\ HopTo # Start => uw.seen[HopTo] = uw.out
         /\ \A i \in uw.hop + 1 .. Len(uw.path) :
              uw.path[i] # Start => uw.seen[uw.path[i]] = 0
         /\ \A a \in Asset \ {Start, uw.at, HopTo} : uw.seen[a] <= WrittenOff
         /\ pc = "hop" => uw.left # 0

\* What a stopped first leg left out there sells the start asset.
StoppedLeg ==
    pc \in {"cancelled", "stopped"} /\ Leg = 0 =>
      /\ hold[Start] <= StartLots
      /\ \A o \in stray : o.from = Start /\ o.to = Next1(Start)

Whole == OnePosition /\ HopIsWhole /\ StoppedLeg

LEMMA WholeIsTruthful == WholeFills => Truthful
  BY DEF WholeFills, Truthful

LEMMA WrittenOffIs ==
  /\ WrittenOff \in Nat /\ WrittenOff >= 1
  /\ Dust \in Nat /\ Dust <= WrittenOff
  BY CycleAssumption DEF WrittenOff, Dust

LEMMA LegLoopWhole ==
  ASSUME WholeFills, IInv, Truth, Whole, AbortLeg \/ SendLeg
  PROVE  Whole'
  <1>1. CASE AbortLeg
    BY <1>1
    DEF AbortLeg, Whole, OnePosition, HopIsWhole, StoppedLeg, Working, Between, venue
  <1>2. CASE SendLeg
    <2>1. /\ pc = "leg" /\ pc' \in {"taker", "post"} /\ UNCHANGED <<ctx, recorded>>
          /\ working'.qty \in ResizedLots
      BY <1>2 DEF SendLeg, SendLegNow, NewOrder
    <2>2. ResizedLots = {StartLots}
      BY <2>1 DEF ResizedLots, WholeFills, Whole, OnePosition, Between
    <2> QED
      BY <2>1, <2>2 DEF Whole, OnePosition, HopIsWhole, StoppedLeg, Working, Between
  <1> QED BY <1>1, <1>2

LEMMA LegAnsweredWhole ==
  ASSUME WholeFills, IInv, Truth, Whole, pc \in Working, NEW status, LegAnswered(status),
         AnyFill(status) <=> working.filled > 0
  PROVE  Whole'
  <1>1. /\ Leg \in Asset /\ Next1(Leg) \in Asset /\ Next1(Leg) # Leg
        /\ ctx.current = Leg /\ recorded \in Balances
    BY LegFacts
  <1>2. /\ pc' \in Between /\ working.filled \in {0, StartLots}
    <2>1. working.qty = StartLots /\ working.filled \in {0, working.qty}
      BY DEF Whole, OnePosition, Truth, FillsShow, WholeFills
    <2>2. pc' \in Between
      BY DEF LegAnswered, LegFilled, LegUnfilled, Between
    <2> QED BY <2>1, <2>2
  <1>3. CASE working.filled = 0
    <2>1. UNCHANGED <<ctx, recorded>>
      BY <1>3 DEF LegAnswered, LegUnfilled
    <2> QED
      BY <1>2, <2>1 DEF Whole, OnePosition, HopIsWhole, StoppedLeg, Working, Between
  <1>4. CASE working.filled = StartLots
    <2>1. StartLots \in Nat /\ StartLots > 0
      BY CycleAssumption
    <2>2. /\ ctx'.running = StartLots /\ ctx'.current = Next1(Leg)
          /\ recorded' = Move(recorded, Leg, Next1(Leg), StartLots)
      BY <1>4, <2>1 DEF LegAnswered, LegFilled
    <2>3. \A a \in Asset : recorded[a] = IF a = Leg THEN StartLots ELSE 0
      BY <1>1 DEF Whole, OnePosition
    <2>4. \A a \in Asset : recorded'[a] = IF a = Next1(Leg) THEN StartLots ELSE 0
      <3>1. recorded'[Leg] = StartLots - StartLots
        BY <1>1, <2>1, <2>2, <2>3, MoveAt
      <3>2. recorded'[Next1(Leg)] = 0 + StartLots
        BY <1>1, <2>1, <2>2, <2>3, MoveAt
      <3>3. \A a \in Asset \ {Leg, Next1(Leg)} : recorded'[a] = 0
        BY <1>1, <2>1, <2>2, <2>3, MoveAt
      <3> QED BY <1>1, <2>1, <3>1, <3>2, <3>3
    <2> QED
      BY <1>2, <2>2, <2>4 DEF Whole, OnePosition, HopIsWhole, StoppedLeg, Working, Between
  <1> QED BY <1>2, <1>3, <1>4

LEMMA LegAnswersWhole ==
  ASSUME WholeFills, IInv, Truth, Whole,
         TakerAnswered \/ PostAnswered \/ PollSeesFill \/ MakerCrossedOut \/ MakerCancelled
  PROVE  Whole'
  <1> USE WholeIsTruthful
  <1>1. CASE TakerAnswered
    BY <1>1, TakerStatusTells, LegAnsweredWhole DEF TakerAnswered, Working
  <1>2. CASE PostAnswered
    <2>1. pc = "post"
      BY <1>2 DEF PostAnswered
    <2>2. CASE working.at = "refused" \/ working.at = "filled"
      <3>1. LegAnswered(IF working.at = "filled" THEN "FILLED" ELSE "REJECTED")
        BY <1>2, <2>1, <2>2, MakerStatusTells DEF PostAnswered
      <3>2. AnyFill(IF working.at = "filled" THEN "FILLED" ELSE "REJECTED")
              <=> working.filled > 0
        BY <2>1, <2>2, MakerStatusTells DEF AnyFill
      <3> QED BY <2>1, <3>1, <3>2, LegAnsweredWhole DEF Working
    <2>3. CASE working.at # "refused" /\ working.at # "filled"
      <3>1. /\ pc' \in {"poll", "cancel"} /\ UNCHANGED <<ctx, recorded>>
            /\ working'.qty = working.qty
        BY <1>2, <2>3 DEF PostAnswered, IInv, TypeOK, Orders
      <3> QED
        BY <2>1, <3>1 DEF Whole, OnePosition, HopIsWhole, StoppedLeg, Working, Between
    <2> QED BY <2>2, <2>3
  <1>3. CASE PollSeesFill
    <2>1. pc = "poll" /\ LegAnswered(FetchMaker(working)) /\ AnyFill(FetchMaker(working))
      BY <1>3 DEF PollSeesFill
    <2> QED BY <2>1, MakerStatusTells, LegAnsweredWhole DEF Working
  <1>4. CASE MakerCrossedOut
    <2>1. pc = "poll" /\ LegAnswered("CANCELED") /\ working.at # "filled"
      BY <1>4, MakerStatusTells DEF MakerCrossedOut
    <2> QED BY <2>1, MakerStatusTells, LegAnsweredWhole DEF Working, AnyFill
  <1>5. CASE MakerCancelled
    BY <1>5, MakerStatusTells, LegAnsweredWhole DEF MakerCancelled, Working
  <1> QED BY <1>1, <1>2, <1>3, <1>4, <1>5

LEMMA MakerWaitsWhole ==
  ASSUME IInv, Truth, Whole, Recancel \/ Requeue \/ MakerDeadline
  PROVE  Whole'
  <1>1. /\ pc \in {"poll", "recancel"} /\ pc' \in {"recancel", "post", "cancel"}
        /\ UNCHANGED <<ctx, recorded>>
        /\ working'.qty = working.qty
    BY DEF Recancel, Requeue, NewOrder, MakerDeadline, venue
  <1> QED
    BY <1>1 DEF Whole, OnePosition, HopIsWhole, StoppedLeg, Working, Between

LEMMA FinalizeWhole ==
  ASSUME WholeFills, IInv, Truth, Whole,
         FinalizeComplete \/ FinalizeUncommitted \/ FinalizeCommitted
  PROVE  Whole'
  <1>1. CASE pc' = "done"
    BY <1>1 DEF Whole, OnePosition, HopIsWhole, StoppedLeg, Working, Between
  <1>2. CASE pc' # "done"
    <2>1. FinalizeCommitted
      BY <1>2 DEF FinalizeComplete, FinalizeUncommitted
    <2>2. PICK path \in Paths(ctx.current) \ {<<>>} :
            /\ uw' = [path |-> path, hop |-> 1, at |-> ctx.current, left |-> ctx.running,
                      out |-> 0, attempt |-> 0, seen |-> recorded]
            /\ pc' = "unwind"
      BY <1>2, <2>1 DEF FinalizeCommitted
    <2>3. /\ pc = "finalize" /\ Leg # 0 /\ Leg # Legs /\ UNCHANGED ctx
          /\ ctx.running = StartLots /\ ctx.current # Start /\ ctx.current \in Asset
          /\ \A a \in Asset : recorded[a] = IF a = ctx.current THEN StartLots ELSE 0
      BY <2>1
      DEF FinalizeCommitted, Whole, OnePosition, Truth, Recorded, Between, Start, IInv,
          TypeOK, Contexts
    <2>4. Leg > 0 /\ Leg' = Leg
      BY <2>3 DEF IInv, TypeOK, Contexts, Leg
    <2>5. /\ \A i \in 1 .. Len(path) : path[i] \in Asset /\ path[i] # ctx.current
          /\ Len(path) \in Nat /\ 1 \in 1 .. Len(path)
      <3>1. path \in Routes /\ \A i \in DOMAIN path : path[i] # ctx.current
        BY <2>2 DEF Paths
      <3>2. /\ Len(path) \in 1 .. MaxHops /\ DOMAIN path = 1 .. Len(path)
            /\ \A i \in 1 .. Len(path) : path[i] \in Asset
        BY <3>1, RouteFacts
      <3> QED BY <3>1, <3>2, CycleAssumption
    <2>6. /\ uw'.path = path /\ uw'.hop = 1 /\ uw'.at = ctx.current
          /\ uw'.left = StartLots /\ uw'.out = 0 /\ uw'.seen = recorded
          /\ HopTo' = path[1] /\ StartLots > 0 /\ StartLots \in Nat
      BY <2>2, <2>3, CycleAssumption DEF HopTo
    <2>8. \A i \in 2 .. Len(path) : recorded[path[i]] = 0
      <3> SUFFICES ASSUME NEW i \in 2 .. Len(path) PROVE recorded[path[i]] = 0
        OBVIOUS
      <3>1. i \in 1 .. Len(path)
        BY <2>5
      <3> QED BY <2>3, <2>5, <3>1
    <2>9. recorded[path[1]] = 0 /\ 0 <= WrittenOff
      BY <2>3, <2>5, WrittenOffIs
    <2>7. HopIsWhole'
      <3>1. \A a \in Asset \ {ctx.current} : recorded[a] = 0
        BY <2>3
      <3>2. recorded[ctx.current] = StartLots
        BY <2>3
      <3>3. pc' = "unwind" /\ Leg' > 0
        BY <2>2, <2>4
      <3> QED BY <2>3, <2>6, <2>8, <2>9, <3>1, <3>2, <3>3, WrittenOffIs DEF HopIsWhole
    <2> QED BY <2>2, <2>7 DEF Whole, OnePosition, StoppedLeg, Working, Between
  <1> QED BY <1>1, <1>2

-----------------------------------------------------------------------------
(* The unwind. *)

\* What HopIsWhole says, with the types the arithmetic needs.
LEMMA WholeHopFacts ==
  ASSUME IInv, Truth, Whole, pc \in {"unwind", "hop"}
  PROVE  /\ uw \in Unwinds /\ uw.at \in Asset /\ HopTo \in Asset /\ HopTo # uw.at
         /\ uw.left \in Nat /\ uw.out \in Nat /\ uw.seen \in Balances
         /\ uw.path \in Routes /\ uw.hop \in 1 .. Len(uw.path) /\ Leg > 0 /\ uw.at # Start
         /\ uw.left # 0 => uw.seen[uw.at] = uw.left
         /\ uw.left = 0 => uw.seen[uw.at] <= WrittenOff
         /\ uw.out = 0 => uw.seen[uw.at] > 0
         /\ HopTo # Start => uw.seen[HopTo] = uw.out
         /\ \A i \in uw.hop + 1 .. Len(uw.path) :
              uw.path[i] # Start => uw.seen[uw.path[i]] = 0
         /\ \A a \in Asset \ {Start, uw.at, HopTo} : uw.seen[a] <= WrittenOff
         /\ \A a \in Asset : uw.seen[a] \in Int
  <1>1. /\ Leg > 0 /\ uw.at # Start
        /\ uw.left # 0 => uw.seen[uw.at] = uw.left
        /\ uw.left = 0 => uw.seen[uw.at] <= WrittenOff
        /\ uw.out = 0 => uw.seen[uw.at] > 0
        /\ HopTo # Start => uw.seen[HopTo] = uw.out
        /\ \A i \in uw.hop + 1 .. Len(uw.path) :
             uw.path[i] # Start => uw.seen[uw.path[i]] = 0
        /\ \A a \in Asset \ {Start, uw.at, HopTo} : uw.seen[a] <= WrittenOff
    BY DEF Whole, HopIsWhole
  <1>2. \A a \in Asset : uw.seen[a] \in Int
    BY UnwindFacts DEF Balances
  <1> QED BY <1>1, <1>2, UnwindFacts, HopAssets

\* Where a stop on the way lies: not where the hop sells, not where it buys.
LEMMA StopsAhead ==
  ASSUME IInv, Truth, pc \in {"unwind", "hop"}, NEW i \in uw.hop + 1 .. Len(uw.path)
  PROVE  /\ uw.path[i] \in Asset /\ uw.path[i] # uw.at /\ uw.path[i] # HopTo
         /\ HopTo # Start
  <1>1. uw.path \in Routes /\ uw.hop \in 1 .. Len(uw.path)
    BY HopAssets
  <1> DEFINE len == Len(uw.path)
  <1>2. len \in Nat /\ uw.hop \in 1 .. len /\ i \in uw.hop + 1 .. len
    BY <1>1, RouteFacts, CycleAssumption
  <1>3. \A j \in uw.hop .. len : uw.path[j] # uw.at
    BY UnwindFacts
  <1>4. /\ \A j \in 1 .. len : uw.path[j] \in Asset
        /\ \A j, k \in 1 .. len : uw.path[j] = uw.path[k] => j = k
        /\ uw.path[len] = Start
    BY <1>1, RouteFacts
  <1> HIDE DEF len
  <1>5. /\ i \in 1 .. len /\ i \in uw.hop .. len /\ i # uw.hop
        /\ len \in 1 .. len /\ uw.hop # len
    BY <1>2
  <1> QED BY <1>2, <1>3, <1>4, <1>5 DEF HopTo

\* A size floors to zero only of the last lot.
LEMMA DustIsALot ==
  ASSUME WholeFills, IInv, MayAttempt, 0 \in Sellable
  PROVE  uw.left = 1
  <1> DEFINE l == uw.left
             g == Grain
             k == uw.attempt
  <1>1. l \in Nat /\ l > 0 /\ k \in Nat /\ g \in Nat /\ g > 0 /\ k + 1 <= g
    BY CycleAssumption DEF WholeFills, MayAttempt, IInv, TypeOK, Unwinds
  <1>2. CASE ~Buys
    BY <1>1, <1>2 DEF Sellable
  <1>3. CASE Buys
    <2>1. (0 + 1) * (Grain + uw.attempt + 1) > uw.left * Grain
      BY <1>3 DEF Sellable
    <2>2. g + k + 1 > l * g
      BY <1>1, <2>1
    <2> HIDE DEF l, g, k
    <2>3. l >= 2 => l * g >= 2 * g
      BY <1>1
    <2>4. l = 1
      BY <1>1, <2>2, <2>3
    <2> QED BY <2>4 DEF l
  <1> QED BY <1>2, <1>3

LEMMA AttemptWhole ==
  ASSUME WholeFills, IInv, Truth, Whole, SendHop \/ HopDust \/ HopUnavailable
  PROVE  Whole'
  <1>1. pc = "unwind" /\ UNCHANGED <<ctx, recorded>> /\ uw.left > 0
    BY DEF SendHop, HopDust, HopUnavailable, MayAttempt
  <1>3. CASE SendHop
    <2>1. pc' = "hop" /\ UNCHANGED uw
      BY <1>3 DEF SendHop
    <2>2. uw.left # 0
      BY <1>1, WholeHopFacts
    <2> QED
      BY <1>1, <2>1, <2>2
      DEF Whole, OnePosition, HopIsWhole, StoppedLeg, HopTo, Working, Between, Leg
  <1>4. CASE HopDust
    <2>1. uw.left = 1
      BY <1>4, DustIsALot DEF HopDust
    <2>2. /\ pc' = "unwind" /\ uw'.path = uw.path /\ uw'.hop = uw.hop /\ uw'.at = uw.at
          /\ uw'.seen = uw.seen /\ uw'.out = uw.out /\ uw'.left = 0
      BY <1>1, <1>4, WholeHopFacts DEF HopDust, Unwinds
    <2>3. uw.seen[uw.at] <= WrittenOff /\ uw.seen[uw.at] > 0
      BY <1>1, <2>1, WholeHopFacts, WrittenOffIs
    <2> QED
      BY <1>1, <2>2, <2>3
      DEF Whole, OnePosition, HopIsWhole, StoppedLeg, HopTo, Working, Between, Leg
  <1>5. CASE HopUnavailable
    <2>1. /\ pc' = "unwind" /\ uw'.path = uw.path /\ uw'.hop = uw.hop /\ uw'.at = uw.at
          /\ uw'.seen = uw.seen /\ uw'.out = uw.out /\ uw'.left = uw.left
      BY <1>1, <1>5, WholeHopFacts DEF HopUnavailable, Unwinds
    <2> QED
      BY <1>1, <2>1
      DEF Whole, OnePosition, HopIsWhole, StoppedLeg, HopTo, Working, Between, Leg
  <1> QED BY <1>3, <1>4, <1>5

LEMMA HopAnsweredWhole ==
  ASSUME WholeFills, IInv, Truth, Whole, HopAnswered
  PROVE  Whole'
  <1> DEFINE q == working.filled
  <1>1. pc = "hop" /\ pc' = "unwind" /\ UNCHANGED ctx
    BY DEF HopAnswered
  <1>2. /\ q \in Nat /\ q <= uw.left /\ uw.left # 0 /\ uw.seen[uw.at] = uw.left
    <2>1. q \in Nat /\ working.qty \in Nat /\ q <= working.qty /\ working.qty <= uw.left
      BY <1>1 DEF IInv, TypeOK, Orders, Truth, FillsShow, UnwindKnows
    <2>2. uw.left # 0 /\ uw.left \in Nat
      BY <1>1, WholeHopFacts DEF Whole, HopIsWhole
    <2> QED BY <1>1, <2>1, <2>2, WholeHopFacts
  <1>3. HopIsWhole'
    <2>1. CASE q = 0
      <3>1. uw' = [uw EXCEPT !.attempt = @ + 1]
        BY <2>1, WholeIsTruthful, TakerStatusTells DEF HopAnswered
      <3>2. /\ uw'.path = uw.path /\ uw'.hop = uw.hop /\ uw'.at = uw.at
            /\ uw'.seen = uw.seen /\ uw'.out = uw.out /\ uw'.left = uw.left
        BY <1>1, <3>1, WholeHopFacts DEF Unwinds
      <3> QED BY <1>1, <3>2 DEF Whole, HopIsWhole, HopTo, Leg
    <2>2. CASE q # 0
      <3>1. q > 0
        BY <1>2, <2>2
      <3>2. uw' = AfterSelling(q)
        BY <3>1, WholeIsTruthful, TakerStatusTells DEF HopAnswered
      <3>3. /\ uw'.path = uw.path /\ uw'.hop = uw.hop /\ uw'.at = uw.at
            /\ uw'.seen = Move(uw.seen, uw.at, HopTo, q) /\ uw'.out = uw.out + q
            /\ uw'.left = (IF uw.left - q <= Dust THEN 0 ELSE uw.left - q)
            /\ HopTo' = HopTo
        BY <1>1, <3>2, WholeHopFacts DEF AfterSelling, Unwinds, HopTo
      <3>4. /\ uw'.seen[uw.at] = uw.seen[uw.at] - q
            /\ uw'.seen[HopTo] = uw.seen[HopTo] + q
            /\ \A a \in Asset \ {uw.at, HopTo} : uw'.seen[a] = uw.seen[a]
        <4>1. /\ uw.seen \in Balances /\ uw.at \in Asset /\ HopTo \in Asset
              /\ uw.at # HopTo /\ q \in Int
          BY <1>1, <1>2, WholeHopFacts
        <4> HIDE DEF q
        <4> QED BY <3>3, <4>1, MoveAt
      <3>5. /\ uw'.left # 0 => uw'.seen[uw.at] = uw'.left
            /\ uw'.left = 0 => uw'.seen[uw.at] <= WrittenOff
            /\ uw'.out # 0
        <4>1. /\ uw.left \in Nat /\ uw.out \in Nat /\ q \in Nat /\ q > 0 /\ q <= uw.left
              /\ uw'.seen[uw.at] = uw.left - q /\ uw'.out = uw.out + q
              /\ uw'.left = (IF uw.left - q <= Dust THEN 0 ELSE uw.left - q)
          BY <1>1, <1>2, <3>1, <3>3, <3>4, WholeHopFacts
        <4> HIDE DEF q
        <4> QED BY <4>1, WrittenOffIs
      <3>6. HopTo # Start => uw'.seen[HopTo] = uw'.out
        BY <1>1, <3>3, <3>4, WholeHopFacts
      <3>7. \A a \in Asset \ {Start, uw.at, HopTo} : uw'.seen[a] <= WrittenOff
        BY <1>1, <3>4, WholeHopFacts
      <3>8. Leg' > 0 /\ uw.at # Start
        BY <1>1, WholeHopFacts DEF Leg
      <3>9. \A i \in uw.hop + 1 .. Len(uw.path) :
              uw.path[i] # Start => uw'.seen[uw.path[i]] = 0
        <4> SUFFICES ASSUME NEW i \in uw.hop + 1 .. Len(uw.path), uw.path[i] # Start
                     PROVE  uw'.seen[uw.path[i]] = 0
          OBVIOUS
        <4>1. uw.path[i] \in Asset \ {uw.at, HopTo}
          BY <1>1, StopsAhead
        <4>2. uw.seen[uw.path[i]] = 0
          BY <1>1, WholeHopFacts
        <4> QED BY <3>4, <4>1, <4>2
      <3> HIDE DEF q
      <3> QED BY <1>1, <3>3, <3>5, <3>6, <3>7, <3>8, <3>9 DEF HopIsWhole
    <2> QED BY <2>1, <2>2
  <1> QED BY <1>1, <1>3 DEF Whole, OnePosition, StoppedLeg, Working, Between

LEMMA NextHopWhole ==
  ASSUME IInv, Truth, Whole, NextHop
  PROVE  Whole'
  <1>1. /\ pc = "unwind" /\ pc' = "unwind" /\ UNCHANGED ctx
        /\ uw.left = 0 /\ uw.out > 0 /\ uw.hop < Len(uw.path)
        /\ uw' = [uw EXCEPT !.hop = @ + 1, !.at = HopTo, !.left = uw.out, !.out = 0,
                            !.attempt = 0]
    BY DEF NextHop, HopSold
  <1>3. /\ uw'.path = uw.path /\ uw'.hop = uw.hop + 1 /\ uw'.at = HopTo
        /\ uw'.seen = uw.seen /\ uw'.out = 0 /\ uw'.left = uw.out
        /\ HopTo' = uw.path[uw.hop + 1]
    BY <1>1, WholeHopFacts DEF Unwinds, HopTo
  <1>2. uw.hop + 1 \in uw.hop + 1 .. Len(uw.path) /\ uw.hop \in Nat /\ Len(uw.path) \in Nat
    <2> DEFINE len == Len(uw.path)
    <2>1. len \in Nat /\ uw.hop \in 1 .. len /\ uw.hop < len
      BY <1>1, HopAssets, RouteFacts, CycleAssumption
    <2> HIDE DEF len
    <2>2. uw.hop + 1 \in uw.hop + 1 .. len /\ uw.hop \in Nat
      BY <2>1
    <2> QED BY <2>1, <2>2 DEF len
  <1>4. HopTo # Start /\ uw.path[uw.hop + 1] # HopTo
    BY <1>1, <1>2, StopsAhead
  <1>5. /\ uw.seen[HopTo] = uw.out /\ uw.seen[HopTo] > 0
        /\ uw.seen[uw.at] <= WrittenOff
        /\ uw.path[uw.hop + 1] # Start => uw.seen[uw.path[uw.hop + 1]] = 0
    BY <1>1, <1>2, <1>4, WholeHopFacts
  <1>6. \A a \in Asset \ {Start, HopTo} : uw.seen[a] <= WrittenOff
    BY <1>1, <1>5, WholeHopFacts
  <1>8. \A i \in uw.hop + 1 + 1 .. Len(uw.path) :
          uw.path[i] # Start => uw.seen[uw.path[i]] = 0
    <2> SUFFICES ASSUME NEW i \in uw.hop + 1 + 1 .. Len(uw.path), uw.path[i] # Start
                 PROVE  uw.seen[uw.path[i]] = 0
      OBVIOUS
    <2>1. i \in uw.hop + 1 .. Len(uw.path)
      BY <1>2
    <2> QED BY <1>1, <2>1, WholeHopFacts
  <1>7. HopIsWhole'
    <2>1. Leg' > 0
      BY <1>1, WholeHopFacts DEF Leg
    <2> QED BY <1>1, <1>3, <1>4, <1>5, <1>6, <1>8, <2>1 DEF HopIsWhole
  <1> QED BY <1>1, <1>7 DEF Whole, OnePosition, StoppedLeg, Working, Between

LEMMA UnwindEndsWhole ==
  ASSUME Whole, UnwindSucceeds \/ UnwindFails
  PROVE  Whole'
  BY DEF UnwindSucceeds, Unwound, UnwindFails, Whole, OnePosition, HopIsWhole, StoppedLeg,
     Working, Between

-----------------------------------------------------------------------------
(* The venue, the clock and the stop. *)

LEMMA VenueWhole ==
  ASSUME IInv, Truth, Whole, MatchTaker \/ PostMaker \/ TradeResting
  PROVE  Whole'
  <1>1. pc \in Working \cup {"hop"}
    <2>1. working.at \in {"sent", "resting"}
      BY DEF MatchTaker, PostMaker, TradeResting
    <2> QED BY <2>1 DEF Truth, Watched, NoOrder
  <1>2. UNCHANGED exec /\ working'.qty = working.qty
    BY DEF MatchTaker, PostMaker, TradeResting, Traded, IInv, TypeOK, Orders
  <1> QED
    BY <1>1, <1>2
    DEF exec, Whole, OnePosition, HopIsWhole, StoppedLeg, HopTo, Working, Between, Leg

LEMMA ClockWhole ==
  ASSUME Whole, BudgetExpires \/ DeadlinePasses
  PROVE  Whole'
  BY DEF BudgetExpires, DeadlinePasses, exec, venue, Whole, OnePosition, HopIsWhole,
     StoppedLeg, HopTo, Leg

LEMMA StartNext == Next1(Start) \in Asset /\ Next1(Start) # Start /\ Start \in Asset
  <1>1. Start \in 0 .. Legs - 1
    BY CycleAssumption DEF Start
  <1> QED BY <1>1, StartIsAsset, NextAsset, NextAssetIs

LEMMA CancelledWhole ==
  ASSUME IInv, Truth, Whole, Cancelled
  PROVE  Whole'
  <1>1. /\ pc \in Working \cup {"hop", "unwind"} /\ pc' = "cancelled"
        /\ UNCHANGED <<ctx, hold>>
    BY DEF Cancelled, Truth, Watched, Working
  <1>2. stray' \subseteq {working}
    BY <1>1 DEF Cancelled, Abandon, Truth, Watched, Working
  <1>3. StoppedLeg'
    <2> SUFFICES ASSUME Leg = 0
                 PROVE  /\ hold[Start] <= StartLots
                        /\ working.from = Start /\ working.to = Next1(Start)
      BY <1>1, <1>2 DEF StoppedLeg, Leg
    <2>1. pc \in Working
      BY <1>1, WholeHopFacts
    <2>2. /\ working.from = Start /\ working.to = Next1(Start) /\ recorded = AllInStart
          /\ hold = Move(AllInStart, Start, Next1(Start), working.filled)
      BY <2>1 DEF Truth, LegIsWorked, Recorded, Start
    <2>3. /\ hold[Start] = StartLots - working.filled
          /\ StartLots \in Nat /\ working.filled \in Nat
      <3>1. StartLots \in Nat /\ working.filled \in Nat /\ Start \in Asset
        BY StartIsAsset, CycleAssumption DEF IInv, TypeOK, Orders
      <3>2. AllInStart[Start] = StartLots
        BY <3>1 DEF AllInStart
      <3>3. hold[Start] = AllInStart[Start] - working.filled
        BY <2>2, <3>1, AllInStartType, StartNext, MoveAt
      <3> QED BY <3>1, <3>2, <3>3
    <2> QED BY <2>2, <2>3
  <1> QED BY <1>1, <1>3 DEF Whole, OnePosition, HopIsWhole, Working, Between

\* A stray of a stopped first leg takes from the start asset, or fills nothing.
LEMMA StrayFillIs ==
  ASSUME IInv, Truth, Whole, StrayFills
  PROVE  /\ pc \in {"cancelled", "stopped"} /\ UNCHANGED <<exec, working>>
         /\ \A p \in stray' : \E o \in stray : p.from = o.from /\ p.to = o.to
         /\ \/ hold' = hold
            \/ Leg = 0 => hold'[Start] < StartLots
         /\ Leg = 0 => hold'[Start] <= StartLots
  <1>1. pc \in {"cancelled", "stopped"} /\ UNCHANGED <<exec, working>>
    BY DEF StrayFills, Truth, Watched
  <1>2. PICK o \in stray : \E q \in Fillable(o.from, o.qty - o.filled) :
          /\ hold' = Move(hold, o.from, o.to, q)
          /\ stray' \subseteq stray \cup {Traded(o, q)}
    BY DEF StrayFills
  <1>3. o \in Orders
    BY <1>2 DEF IInv, TypeOK
  <1>4. PICK q \in Fillable(o.from, o.qty - o.filled) :
          /\ hold' = Move(hold, o.from, o.to, q)
          /\ stray' \subseteq stray \cup {Traded(o, q)}
    BY <1>2
  <1>5. q \in Nat /\ hold \in Balances
    BY <1>3, <1>4 DEF Fillable, Orders, IInv, TypeOK
  <1>6. Traded(o, q).from = o.from /\ Traded(o, q).to = o.to
    BY <1>3 DEF Traded, Orders
  <1>7. Leg = 0 => /\ hold[Start] <= StartLots
                   /\ hold'[Start] = hold[Start] - q
                   /\ q = 0 => hold' = hold
    <2> SUFFICES ASSUME Leg = 0
                 PROVE  /\ hold[Start] <= StartLots
                        /\ hold'[Start] = hold[Start] - q
                        /\ q = 0 => hold' = hold
      OBVIOUS
    <2>1. hold[Start] <= StartLots /\ o.from = Start /\ o.to = Next1(Start)
      BY <1>1, <1>2 DEF Whole, StoppedLeg
    <2>2. Next1(Start) \in Asset /\ Next1(Start) # Start /\ Start \in Asset
      BY StartNext
    <2> QED BY <1>4, <1>5, <2>1, <2>2, MoveAt, MoveNothing
  <1>8. hold[Start] \in Int /\ StartLots \in Nat
    BY <1>5, StartIsAsset, CycleAssumption DEF Balances
  <1>9. Leg = 0 => hold'[Start] <= StartLots /\ (hold' = hold \/ hold'[Start] < StartLots)
    BY <1>5, <1>7, <1>8
  <1> QED BY <1>1, <1>2, <1>4, <1>6, <1>9

LEMMA StoppedWhole ==
  ASSUME IInv, Truth, Whole, StopCancelsOrders \/ StrayFills \/ StrayPosts
  PROVE  Whole'
  <1>1. /\ pc \in {"cancelled", "stopped"} /\ pc' \in {"cancelled", "stopped"}
        /\ UNCHANGED ctx
    BY DEF StopCancelsOrders, StrayFills, StrayPosts, Truth, Watched, exec
  <1>2. /\ \A p \in stray' : \E o \in stray : p.from = o.from /\ p.to = o.to
        /\ Leg = 0 => hold'[Start] <= StartLots
    <2>1. CASE StrayFills
      BY <2>1, StrayFillIs
    <2>2. CASE StopCancelsOrders
      BY <1>1, <2>2 DEF StopCancelsOrders, Whole, StoppedLeg
    <2>3. CASE StrayPosts
      <3>1. UNCHANGED hold
        BY <2>3 DEF StrayPosts
      <3>2. PICK o \in stray : stray' \subseteq stray \cup {[o EXCEPT !.at = "resting"]}
        BY <2>3 DEF StrayPosts
      <3>3. [o EXCEPT !.at = "resting"].from = o.from /\ [o EXCEPT !.at = "resting"].to = o.to
        BY <3>2 DEF IInv, TypeOK, Orders
      <3> QED BY <1>1, <3>1, <3>2, <3>3 DEF Whole, StoppedLeg
    <2> QED BY <2>1, <2>2, <2>3
  <1>3. StoppedLeg'
    BY <1>1, <1>2 DEF Whole, StoppedLeg, Leg
  <1> QED BY <1>1, <1>3 DEF Whole, OnePosition, HopIsWhole, Working, Between

LEMMA StepWhole == WholeFills /\ IInv /\ Truth /\ Whole /\ [Next]_vars => Whole'
  <1> SUFFICES ASSUME WholeFills, IInv, Truth, Whole, [Next]_vars PROVE Whole'
    OBVIOUS
  <1>1. ~LegErrored /\ ~TakerTimedOut /\ ~TimeoutQueried /\ ~HopErrored /\ ~HopRaises
    BY DEF WholeFills, Truth, Watched, LegErrored, TakerTimedOut, TimeoutQueried,
       HopErrored, HopRaises, MayFail
  <1>2. CASE AbortLeg \/ SendLeg
    BY <1>2, LegLoopWhole
  <1>3. CASE TakerAnswered \/ PostAnswered \/ PollSeesFill \/ MakerCrossedOut
               \/ MakerCancelled \/ Recancel \/ Requeue \/ MakerDeadline
    BY <1>3, LegAnswersWhole, MakerWaitsWhole
  <1>4. CASE FinalizeComplete \/ FinalizeUncommitted \/ FinalizeCommitted
    BY <1>4, FinalizeWhole
  <1>5. CASE SendHop \/ HopDust \/ HopUnavailable \/ HopAnswered \/ NextHop
               \/ UnwindSucceeds \/ UnwindFails
    BY <1>5, AttemptWhole, HopAnsweredWhole, NextHopWhole, UnwindEndsWhole
  <1>6. CASE Venue
    BY <1>6, VenueWhole, StoppedWhole DEF Venue
  <1>7. CASE BudgetExpires \/ DeadlinePasses \/ Cancelled \/ StopCancelsOrders
    BY <1>7, ClockWhole, CancelledWhole, StoppedWhole
  <1>8. CASE UNCHANGED vars
    BY <1>8 DEF vars, Whole, OnePosition, HopIsWhole, StoppedLeg, HopTo, Leg
  <1> QED
    BY <1>1, <1>2, <1>3, <1>4, <1>5, <1>6, <1>7, <1>8 DEF Next, Executor, Answered, Failed

LEMMA InitWhole == Init => Whole
  BY DEF Init, Whole, OnePosition, HopIsWhole, StoppedLeg, AllInStart, Working

-----------------------------------------------------------------------------
(* Every step of the cycle is one of the promise, or none of it. *)

Moved == hold # AllInStart \/ Leg > 0

LEMMA OutsideIs ==
  /\ Outside \in {"nothing", "dust", "capital"}
  /\ Outside = "nothing" <=> \A a \in Asset \ {Start} : hold[a] = 0
  /\ Outside = "capital" => \E a \in Asset \ {Start} : hold[a] > WrittenOff
  <1> DEFINE home == \A a \in Asset \ {Start} : hold[a] = 0
             out  == \E a \in Asset \ {Start} : hold[a] > WrittenOff
  <1>1. ~(home /\ out)
    <2> SUFFICES ASSUME home, NEW a \in Asset \ {Start}, hold[a] > WrittenOff PROVE FALSE
      OBVIOUS
    <2>1. hold[a] = 0
      OBVIOUS
    <2> QED BY <2>1, WrittenOffIs
  <1>2. Outside = CASE home -> "nothing" [] out -> "capital" [] OTHER -> "dust"
    BY DEF Outside
  <1> HIDE DEF home, out
  <1>3. /\ Outside \in {"nothing", "dust", "capital"}
        /\ Outside = "nothing" <=> home
        /\ Outside = "capital" => out
    <2>1. CASE home
      BY <1>1, <1>2, <2>1
    <2>2. CASE out
      BY <1>1, <1>2, <2>2
    <2>3. CASE ~home /\ ~out
      BY <1>2, <2>3
    <2> QED BY <2>1, <2>2, <2>3
  <1> QED BY <1>3 DEF home, out

LEMMA OutsideStays == ASSUME UNCHANGED hold PROVE Outside' = Outside
  BY DEF Outside

LEMMA OpenUntilDone ==
  ASSUME IInv, Truth
  PROVE  (pc # "done") <=> (result.outcome = "none")
  BY DEF Truth, OutcomeTells, NoResult

\* Capital that has moved is not unmoved: later orders only add to what the first leg took.
LEMMA MovedStays ==
  ASSUME IInv, Truth, Whole, Next, Moved
  PROVE  Moved'
  <1>1. Leg \in Nat /\ Leg' \in {Leg, Leg + 1}
    <2>1. Leg \in Nat
      BY CycleAssumption DEF IInv, TypeOK, Contexts, Leg
    <2>2. \A status : LegAnswered(status) => ctx' = ctx \/ ctx'.legs_filled = Leg + 1
      BY DEF LegAnswered, LegFilled, LegUnfilled
    <2>3. ctx' = ctx \/ \E status : LegAnswered(status)
      BY DEF Next, Executor, Answered, Failed, Venue, exec, AbortLeg, SendLeg, SendLegNow,
         TakerAnswered, TimeoutQueried, PostAnswered, PollSeesFill, Recancel, Requeue,
         MakerCrossedOut, MakerDeadline, MakerCancelled, FinalizeComplete,
         FinalizeUncommitted, FinalizeCommitted, SendHop, HopDust, HopAnswered, NextHop,
         UnwindSucceeds, Unwound, UnwindFails, LegErrored, TakerTimedOut, HopUnavailable,
         HopErrored, HopRaises, MatchTaker, PostMaker, TradeResting, StrayFills,
         StrayPosts, BudgetExpires, DeadlinePasses, Cancelled, StopCancelsOrders
    <2> QED BY <2>1, <2>2, <2>3 DEF Leg
  <1>2. CASE Leg > 0
    BY <1>1, <1>2 DEF Moved
  <1>3. CASE Leg = 0 /\ hold' = hold
    BY <1>1, <1>3 DEF Moved
  <1>4. CASE Leg = 0 /\ StrayFills
    <2>1. hold' = hold \/ hold'[Start] < StartLots
      BY <1>4, StrayFillIs
    <2>2. AllInStart[Start] = StartLots /\ StartLots \in Nat
      BY StartIsAsset, CycleAssumption DEF AllInStart
    <2>3. hold' # AllInStart
      BY <1>4, <2>1, <2>2 DEF Moved
    <2> QED BY <2>3 DEF Moved
  <1>5. CASE Leg = 0 /\ (MatchTaker \/ TradeResting)
    <2>1. working.at \in {"sent", "resting"}
      BY <1>5 DEF MatchTaker, TradeResting
    <2>2. working.filled = 0 /\ pc \in Working \cup {"hop"}
      BY <2>1 DEF Truth, FillsShow, Watched, NoOrder
    <2>3. pc \in Working
      BY <1>5, <2>2, WholeHopFacts
    <2>4. hold = Move(recorded, Leg, Next1(Leg), 0) /\ recorded = AllInStart
      BY <1>5, <2>2, <2>3 DEF Truth, LegIsWorked, Recorded
    <2>5. hold = AllInStart
      BY <2>3, <2>4, LegFacts, MoveNothing
    <2> QED BY <1>5, <2>5 DEF Moved
  <1>6. hold' = hold \/ StrayFills \/ MatchTaker \/ TradeResting
    BY DEF Next, Executor, Answered, Failed, Venue, venue, AbortLeg, SendLeg, SendLegNow,
       TakerAnswered, TimeoutQueried, PostAnswered, PollSeesFill, Recancel, Requeue,
       MakerCrossedOut, MakerDeadline, MakerCancelled, LegAnswered, FinalizeComplete,
       FinalizeUncommitted, FinalizeCommitted, SendHop, HopDust, HopAnswered, NextHop,
       UnwindSucceeds, Unwound, UnwindFails, LegErrored, TakerTimedOut, HopUnavailable,
       HopErrored, HopRaises, PostMaker, StrayPosts, BudgetExpires, DeadlinePasses,
       Cancelled, StopCancelsOrders
  <1> QED BY <1>1, <1>2, <1>3, <1>4, <1>5, <1>6

\* The outcome a cycle is given is the honest one.
LEMMA OutcomeIsHonest ==
  ASSUME WholeFills, IInv, Truth, Whole, Next, pc # "done", pc' = "done"
  PROVE  /\ UNCHANGED <<hold, ctx>>
         /\ result'.outcome = "ABORTED_PRE_TRADE" => ~Moved
         /\ result'.outcome = "COMPLETED" => Moved /\ Outside = "nothing"
         /\ result'.outcome = "PARTIAL_UNWOUND" => Moved /\ Outside # "capital"
         /\ result'.outcome = "PARTIAL_STUCK" => Moved /\ Outside # "nothing"
         /\ result'.outcome \in {"ABORTED_PRE_TRADE", "COMPLETED", "PARTIAL_UNWOUND",
                                 "PARTIAL_STUCK"}
  <1>1. FinalizeComplete \/ FinalizeUncommitted \/ FinalizeCommitted \/ UnwindSucceeds
          \/ UnwindFails
    BY DEF Next, Executor, Answered, Failed, Venue, exec, AbortLeg, SendLeg, SendLegNow,
       TakerAnswered, TimeoutQueried, PostAnswered, PollSeesFill, Recancel, Requeue,
       MakerCrossedOut, MakerDeadline, MakerCancelled, LegAnswered, LegFilled,
       LegUnfilled, SendHop, MayAttempt, HopDust, HopAnswered, NextHop, LegErrored,
       TakerTimedOut, HopUnavailable, HopErrored, HopRaises, MatchTaker, PostMaker,
       TradeResting, StrayFills, StrayPosts, BudgetExpires, DeadlinePasses, Cancelled,
       StopCancelsOrders
  <1>2. Leg \in Nat /\ StartLots \in Nat /\ StartLots > 0 /\ Legs > 0
    BY CycleAssumption DEF IInv, TypeOK, Contexts, Leg
  <1>3. pc = "finalize" =>
          /\ hold = recorded /\ ctx.current \in Asset
          /\ ctx.current = IF Leg = Legs THEN Start ELSE Leg
          /\ \A a \in Asset : hold[a] = IF a = ctx.current THEN StartLots ELSE 0
    BY DEF Truth, Recorded, Whole, OnePosition, Between, IInv, TypeOK, Contexts
  <1>4. CASE FinalizeComplete
    <2>1. pc = "finalize" /\ Leg = Legs /\ result'.outcome = "COMPLETED"
          /\ UNCHANGED <<hold, ctx>>
      BY <1>4 DEF FinalizeComplete, Closed, venue
    <2>2. Outside = "nothing"
      <3>1. \A a \in Asset \ {Start} : hold[a] = 0
        BY <1>3, <2>1
      <3> QED BY <3>1, OutsideIs
    <2> QED BY <1>2, <2>1, <2>2 DEF Moved
  <1>5. CASE FinalizeUncommitted
    <2>1. pc = "finalize" /\ Leg = 0 /\ result'.outcome = "ABORTED_PRE_TRADE"
          /\ UNCHANGED <<hold, ctx>>
      BY <1>5 DEF FinalizeUncommitted, Closed, venue
    <2>2. hold = AllInStart
      BY <2>1 DEF Truth, Recorded, Between
    <2> QED BY <2>1, <2>2 DEF Moved
  <1>6. CASE FinalizeCommitted
    <2>1. /\ pc = "finalize" /\ Leg # 0 /\ Leg # Legs /\ result'.outcome = "PARTIAL_STUCK"
          /\ UNCHANGED <<hold, ctx>>
      BY <1>6 DEF FinalizeCommitted, Stuck, venue
    <2>2. Outside # "nothing"
      <3>1. ctx.current \in Asset \ {Start} /\ hold[ctx.current] # 0
        BY <1>2, <1>3, <2>1 DEF Start
      <3> QED BY <3>1, OutsideIs
    <2> QED BY <1>2, <2>1, <2>2 DEF Moved
  <1>7. CASE UnwindSucceeds
    <2>1. /\ pc = "unwind" /\ result'.outcome = "PARTIAL_UNWOUND"
          /\ uw.left = 0 /\ uw.hop = Len(uw.path) /\ UNCHANGED <<hold, ctx>>
      BY <1>7 DEF UnwindSucceeds, Unwound, HopSold, Closed, venue
    <2>2. HopTo = Start /\ hold = uw.seen
      BY <2>1, UnwindFacts DEF Truth, UnwindKnows, HopTo
    <2>3. \A a \in Asset \ {Start} : hold[a] <= WrittenOff
      BY <2>1, <2>2, WholeHopFacts
    <2>4. Outside # "capital"
      BY <2>3, OutsideIs, WrittenOffIs DEF IInv, TypeOK, Balances
    <2> QED BY <2>1, <2>4, WholeHopFacts DEF Moved
  <1>8. CASE UnwindFails
    <2>1. /\ pc = "unwind" /\ result'.outcome = "PARTIAL_STUCK" /\ ~HopSold
          /\ UNCHANGED <<hold, ctx>>
      BY <1>8 DEF UnwindFails, Stuck, venue
    <2>2. uw.seen[uw.at] > 0 /\ uw.at \in Asset \ {Start} /\ Leg > 0
      <3>1. /\ uw.left \in Nat /\ uw.out \in Nat /\ (uw.left # 0 \/ uw.out = 0)
            /\ uw.left # 0 => uw.seen[uw.at] = uw.left
            /\ uw.out = 0 => uw.seen[uw.at] > 0
            /\ uw.at \in Asset /\ uw.at # Start /\ Leg > 0
        BY <2>1, WholeHopFacts DEF HopSold
      <3> QED BY <3>1
    <2>3. hold = uw.seen
      BY <2>1 DEF Truth, UnwindKnows
    <2>4. Outside # "nothing"
      BY <2>2, <2>3, OutsideIs
    <2> QED BY <2>1, <2>2, <2>4 DEF Moved
  <1> QED BY <1>1, <1>4, <1>5, <1>6, <1>7, <1>8

\* A cycle that has its outcome is over.
LEMMA DoneIsDone ==
  ASSUME IInv, Truth, Next, pc = "done" PROVE FALSE
  <1>1. working.at = "none" /\ working.kind = "none" /\ stray = {}
    BY DEF Truth, Watched, NoOrder, Working
  <1> QED
    BY <1>1
    DEF Next, Executor, Answered, Failed, Venue, AbortLeg, SendLeg, SendLegNow,
        TakerAnswered, TimeoutQueried, PostAnswered, PollSeesFill, Recancel, Requeue,
        MakerCrossedOut, MakerDeadline, MakerCancelled, FinalizeComplete,
        FinalizeUncommitted, FinalizeCommitted, SendHop, MayAttempt, HopDust, HopAnswered,
        NextHop, UnwindSucceeds, Unwound, UnwindFails, LegErrored, TakerTimedOut,
        HopUnavailable, HopErrored, HopRaises, MatchTaker, PostMaker, TradeResting,
        StrayFills, StrayPosts, BudgetExpires, DeadlinePasses, Over, Cancelled,
        StopCancelsOrders

\* Until the end the result is not touched.
LEMMA ResultWaits ==
  ASSUME IInv, Truth, Truth', Next, pc' # "done" PROVE result' = result
  <1>1. pc # "done"
    BY DoneIsDone
  <1> QED BY <1>1 DEF Truth, OutcomeTells

LEMMA StepKeepsPromise ==
  ASSUME WholeFills, IInv, Truth, Truth', Whole, [Next]_vars
  PROVE  [Promise!Next]_(Promise!vars)
  <1>1. CASE UNCHANGED vars
    BY <1>1, OutsideStays DEF vars, Promise!vars, Leg
  <1>2. CASE Next /\ pc' = "done"
    <2>1. pc # "done"
      BY <1>2, DoneIsDone
    <2>2. /\ UNCHANGED <<hold, ctx>>
          /\ result'.outcome = "ABORTED_PRE_TRADE" => ~Moved
          /\ result'.outcome = "COMPLETED" => Moved /\ Outside = "nothing"
          /\ result'.outcome = "PARTIAL_UNWOUND" => Moved /\ Outside # "capital"
          /\ result'.outcome = "PARTIAL_STUCK" => Moved /\ Outside # "nothing"
          /\ result'.outcome \in {"ABORTED_PRE_TRADE", "COMPLETED", "PARTIAL_UNWOUND",
                                  "PARTIAL_STUCK"}
      BY <1>2, <2>1, OutcomeIsHonest
    <2>3. result'.outcome \in Promise!HonestOutcomes
      BY <2>2, OutsideIs DEF Promise!HonestOutcomes, Moved
    <2>4. result.outcome = "none" /\ result'.outcome # "none"
      BY <2>1, <2>2, OpenUntilDone
    <2>5. Promise!Close
      BY <2>2, <2>3, <2>4, OutsideStays DEF Promise!Close, Leg
    <2> QED BY <2>5 DEF Promise!Next
  <1>3. CASE Next /\ pc' # "done"
    <2>1. result' = result /\ result.outcome = "none"
      BY <1>3, ResultWaits, DoneIsDone, OpenUntilDone
    <2>2. CASE Moved'
      <3>1. Promise!Trade
        <4>1. Outside' \in {"nothing", "dust", "capital"}
          <5> DEFINE home == \A a \in Asset \ {Start} : hold'[a] = 0
                     out  == \E a \in Asset \ {Start} : hold'[a] > WrittenOff
          <5>1. Outside' = CASE home -> "nothing" [] out -> "capital" [] OTHER -> "dust"
            BY DEF Outside
          <5> HIDE DEF home, out
          <5> QED BY <5>1
        <4> QED BY <2>1, <2>2, <4>1 DEF Promise!Trade, Moved
      <3> QED BY <3>1 DEF Promise!Next
    <2>3. CASE ~Moved'
      <3>1. ~Moved
        BY <1>3, <2>3, MovedStays
      <3>2. hold' = hold
        BY <2>3, <3>1 DEF Moved
      <3> QED BY <2>1, <2>3, <3>1, <3>2, OutsideStays DEF Promise!vars, Moved
    <2> QED BY <2>2, <2>3
  <1> QED BY <1>1, <1>2, <1>3

LEMMA InitKeepsPromise == Init => Promise!Init
  <1> SUFFICES ASSUME Init PROVE Promise!Init
    OBVIOUS
  <1>1. \A a \in Asset \ {Start} : hold[a] = 0
    BY DEF Init, AllInStart
  <1>2. result.outcome = "none" /\ hold = AllInStart /\ ~(Leg > 0)
    BY DEF Init, NoResult, Leg
  <1>3. Outside = "nothing"
    BY <1>1, OutsideIs
  <1> QED BY <1>2, <1>3 DEF Promise!Init

\* Where orders fill whole and every call is answered, the executor with its unwinder is an
\* implementation of CyclePromise: an abort never moved capital, a completed cycle leaves
\* nothing outside the start asset, an unwound one on no stop of its route more than the
\* unwinder writes off, and capital that is left outside is reported as stuck.  For routes of
\* any length, however its BUY hops are padded and whatever their remainder is compared with.
THEOREM PromiseIsKept == WholeFills => (Spec => KeepsPromise)
  <1> SUFFICES ASSUME WholeFills PROVE Spec => KeepsPromise
    OBVIOUS
  <1>1. IInv /\ Truth /\ Whole /\ [Next]_vars => Whole'
    BY StepWhole
  <1>2. IInv /\ Truth /\ Truth' /\ Whole /\ [Next]_vars => [Promise!Next]_(Promise!vars)
    BY StepKeepsPromise
  <1>3. Spec => []Truth
    BY TruthIsInvariant, WholeIsTruthful
  <1> QED
    BY InitIInv, StepIInv, InitWhole, InitKeepsPromise, <1>1, <1>2, <1>3, PTL
    DEF Spec, KeepsPromise, Promise!Spec
=============================================================================
