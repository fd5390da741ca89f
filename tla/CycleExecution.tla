--------------------------- MODULE CycleExecution ---------------------------
(***************************************************************************)
(* One arbitrage cycle from its first order to its ExecutionResult: the    *)
(* leg loop of CycleExecutor, the post-only order it may work, the unwind  *)
(* of a cycle that fails half way, and the venue those orders reach.       *)
(*                                                                         *)
(* A step is the code between two awaits, so the venue, the clock and      *)
(* Engine.stop interleave with the executor where the event loop lets      *)
(* them.  Leg i turns asset i into asset i+1 (mod Legs), and 0 is the      *)
(* start asset.  Amounts are lots of one value: an order receives what it  *)
(* spends, without fees, as what a cycle earns is not the question here.   *)
(* What a price does to the size of an order is: a BUY hop of an unwind is *)
(* sized for a worse price than it may get, and leaves what it saves.      *)
(***************************************************************************)
EXTENDS Integers, Sequences

CONSTANTS
    Legs,         \* number of legs of the plan
    StartLots,    \* plan.start_amount
    MakerLegs,    \* the legs planned POST_ONLY; the others are IOC
    MaxRequeues,  \* CycleExecutor.maker_max_requeues
    MaxAttempts,  \* Unwinder.max_attempts, per hop
    MaxHops,      \* Unwinder.max_hops
    OtherAssets,  \* assets of the graph that are not in the cycle
    BuyHops,      \* the pairs of assets <<from, to>> whose market quotes to in from
    Grain,        \* attempt k of a BUY hop is sized k + 1 Grain-ths above the touch (25 bps: 400)
    QuoteDust,    \* what the lot step of a BUY hop, a base quantity, is taken for in the quote
    Adapter,      \* whose reading of an order the executor gets back
    ThinBooks,    \* TRUE: an order may fill in part, a size may be cut down
    LostAnswers,  \* TRUE: a call may fail or time out with the order out there
    Stoppable     \* TRUE: Engine.stop may cancel the running cycle

ASSUME CycleAssumption ==
    /\ Legs \in Nat /\ Legs >= 2
    /\ StartLots \in Nat \ {0}
    /\ MakerLegs \subseteq 0 .. Legs - 1
    /\ MaxRequeues \in Nat
    /\ MaxAttempts \in Nat \ {0} /\ MaxHops \in Nat \ {0} /\ OtherAssets \in Nat
    /\ Grain \in Nat \ {0} /\ QuoteDust \in Nat
    /\ Adapter \in {"simulated", "okx", "binance"}
    /\ ThinBooks \in BOOLEAN /\ LostAnswers \in BOOLEAN /\ Stoppable \in BOOLEAN

VARIABLES
    pc,              \* where the cycle is waiting
    ctx,             \* ExecutionContext: legs_filled, running_amount, current_asset
    recorded,        \* what ctx.fills say is held, per asset
    budgetExpired,   \* LatencyBudget.expired
    deadlinePassed,  \* the maker leg's own deadline
    requeues,        \* attempt counter of _work_maker_leg
    working,         \* the order the executor awaits, as the venue has it
    stray,           \* orders the executor stopped watching that may still fill
    hold,            \* what the account really holds, per asset
    uw,              \* locals of Unwinder.unwind
    result           \* ExecutionResult

exec  == <<pc, ctx, recorded, requeues, uw, result>>
clock == <<budgetExpired, deadlinePassed>>
venue == <<working, stray, hold>>
vars  == <<pc, ctx, recorded, budgetExpired, deadlinePassed, requeues,
           working, stray, hold, uw, result>>

-----------------------------------------------------------------------------
(* Assets, amounts and orders. *)

Asset    == 0 .. Legs + OtherAssets - 1
Start    == 0
Next1(a) == (a + 1) % Legs          \* leg_plan.leg.to_asset of the leg out of a

\* SimulatedExchange._settle: a fill of q debits one asset, credits the other.
Move(h, a, b, q) == [h EXCEPT ![a] = @ - q, ![b] = @ + q]

AllInStart == [a \in Asset |-> IF a = Start THEN StartLots ELSE 0]

\* An order; id is its client_order_id: <<"L", leg, requeue>> or <<"UW", hop, attempt>>.
\* "at" is what the venue has done with it, "tracked" whether _track has seen it open.
NewOrder(id, a, b, n, kind) ==
    [id |-> id, from |-> a, to |-> b, qty |-> n, filled |-> 0,
     kind |-> kind, at |-> "sent", tracked |-> FALSE]

NoOrder == [id |-> <<"none", 0, 0>>, from |-> 0, to |-> 0, qty |-> 0, filled |-> 0,
            kind |-> "none", at |-> "none", tracked |-> FALSE]

\* In the simulator an order is the coroutine that carries it, and dies with it on the way.
Live(o) == o.at = "resting" \/ (o.at = "sent" /\ Adapter # "simulated")

\* The simulator's cancel lets nobody else run.
Waits == pc \in {"cancel", "recancel"} => Adapter # "simulated"

\* An order's own call can fail once a real venue has it; the simulator only raises from
\* validate_order.
MayFail(o) == LostAnswers /\ (Adapter = "simulated" => o.at = "sent")

\* The order goes on without the executor watching it.
Abandon(o) == stray' = stray \cup (IF Live(o) THEN {o} ELSE {})

AnyFill(status) == status \in {"FILLED", "PARTIALLY_FILLED"}

\* How each adapter reports an IOC order that filled q of n.  The simulator says
\* PARTIALLY_FILLED; OKX ends such an order "canceled" and Binance "EXPIRED", and both
\* adapters pass that status on beside the executed quantity.
TakerStatus(q, n) ==
    CASE q = 0 -> "CANCELED"
      [] q = n /\ q > 0 -> "FILLED"
      [] OTHER -> IF Adapter = "simulated" THEN "PARTIALLY_FILLED" ELSE "CANCELED"

\* fetch_order of an order whose submit never answered.  The simulator has not tracked
\* it, so it hands back the order it was given.
FetchLost(o) ==
    IF Adapter = "simulated" \/ o.at # "matched" THEN "PENDING"
    ELSE TakerStatus(o.filled, o.qty)

\* fetch_order of a post-only order.  The simulator drops a fully filled order from both
\* of its tables and then returns the caller's own, still OPEN, copy.
FetchMaker(o) ==
    CASE o.at = "crossed" -> "CANCELED"
      [] o.at = "resting" -> IF o.filled > 0 THEN "PARTIALLY_FILLED" ELSE "OPEN"
      [] o.at = "filled"  -> IF Adapter = "simulated" THEN "OPEN" ELSE "FILLED"
      [] OTHER            -> "PENDING"

\* cancel of a post-only order, whose answer ends _work_maker_leg.
CancelMaker_NoLookup(o) == IF o.at = "none" THEN "none" ELSE "CANCELED"
CancelMaker(o) ==
    CASE Adapter = "simulated" ->
            IF o.at = "resting" /\ o.filled > 0 THEN "PARTIALLY_FILLED" ELSE "CANCELED"
      [] Adapter = "okx" -> IF o.at = "filled" THEN "FILLED" ELSE "CANCELED"
      [] OTHER -> "CANCELED"

NoResult == [outcome |-> "none", end |-> 0, asset |-> 0, residual |-> 0]

NoUnwind == [path |-> <<>>, hop |-> 0, at |-> 0, left |-> 0, out |-> 0,
             attempt |-> 0, seen |-> AllInStart]

-----------------------------------------------------------------------------
(* CycleExecutor.execute starts with the whole amount in the start asset. *)

Init ==
    /\ pc = "leg"
    /\ ctx = [legs_filled |-> 0, running |-> StartLots, current |-> Start]
    /\ recorded = AllInStart
    /\ budgetExpired = FALSE
    /\ deadlinePassed = FALSE
    /\ requeues = 0
    /\ working = NoOrder
    /\ stray = {}
    /\ hold = AllInStart
    /\ uw = NoUnwind
    /\ result = NoResult

-----------------------------------------------------------------------------
(* The leg loop. *)

Leg == ctx.legs_filled

\* A latency budget that ran out, or a later leg that cannot be re-sized to what is
\* actually held (_resize_leg; leg 0 keeps the plan's size), raises CycleAborted.
AbortLeg ==
    /\ pc = "leg"
    /\ budgetExpired \/ Leg > 0
    /\ pc' = "finalize"
    /\ UNCHANGED <<ctx, recorded, clock, requeues, venue, uw, result>>

ResizedLots_Planned == {StartLots}
ResizedLots == IF Leg > 0 /\ ThinBooks THEN 1 .. ctx.running ELSE {ctx.running}

SendLegNow ==
    /\ pc = "leg"
    /\ \E n \in ResizedLots :
        LET kind == IF Leg \in MakerLegs THEN "maker" ELSE "taker" IN
        /\ working' = NewOrder(<<"L", Leg, 0>>, Leg, Next1(Leg), n, kind)
        /\ pc' = IF kind = "maker" THEN "post" ELSE "taker"
    /\ requeues' = 0
    /\ deadlinePassed' = FALSE
    /\ UNCHANGED <<ctx, recorded, budgetExpired, stray, hold, uw, result>>

SendLeg == SendLegNow /\ ~budgetExpired

\* The tail of _execute_leg and of the loop body: the fill is recorded, and the next leg
\* will be sized on what was received.
LegFilled_AsOrdered(q) ==
    /\ ctx' = [legs_filled |-> Leg + 1, running |-> IF q > 0 THEN working.qty ELSE 0,
               current |-> Next1(Leg)]
    /\ recorded' = Move(recorded, Leg, Next1(Leg), q)
    /\ pc' = IF Leg + 1 = Legs THEN "finalize" ELSE "leg"
LegFilled(q) ==
    /\ ctx' = [legs_filled |-> Leg + 1, running |-> q, current |-> Next1(Leg)]
    /\ recorded' = Move(recorded, Leg, Next1(Leg), q)
    /\ pc' = IF Leg + 1 = Legs THEN "finalize" ELSE "leg"

\* CycleAborted on leg 0, LegFailed on a later one; _finalize tells them apart.
LegUnfilled ==
    /\ pc' = "finalize"
    /\ UNCHANGED <<ctx, recorded>>

\* What the executor makes of the order's last known status.
LegAnswered(status) ==
    /\ IF AnyFill(status) THEN LegFilled(working.filled) ELSE LegUnfilled
    /\ working' = NoOrder
    /\ UNCHANGED <<clock, requeues, hold, uw, result>>

TakerAnswered ==
    /\ pc = "taker"
    /\ working.at = "matched"
    /\ LegAnswered(TakerStatus(working.filled, working.qty))
    /\ UNCHANGED stray

\* adapter.submit (or fetch_order or cancel, inside _work_maker_leg) raised OrderRejected or
\* VenueError: None, whatever became of the order.  OKX's submit comes to the same when it
\* looks an order up before it is matched, and answers OPEN.
LegErrored ==
    /\ MayFail(working)
    /\ pc \in {"taker", "post", "poll", "recancel", "cancel"}
    /\ LegAnswered("none")
    /\ Abandon(working)

\* asyncio.wait_for gave up on the submit ...
TakerTimedOut ==
    /\ LostAnswers
    /\ pc = "taker"
    /\ pc' = "query"
    /\ UNCHANGED <<ctx, recorded, clock, requeues, venue, uw, result>>

\* ... and the venue is asked.  No answer to that either is LegFailed.
TimeoutQueried_UntilFilled ==
    /\ pc = "query"
    /\ AnyFill(FetchLost(working))
    /\ LegAnswered(FetchLost(working))
    /\ Abandon(working)
TimeoutQueried ==
    /\ pc = "query"
    /\ \E status \in {FetchLost(working), "none"} : LegAnswered(status)
    /\ Abandon(working)

-----------------------------------------------------------------------------
(* _work_maker_leg. *)

\* The post-only order is acknowledged.  A refused one ends the leg; one that is already
\* filled ends it too where the adapter's submit looks the order up (OKX).  Past the deadline
\* it is cancelled without a look.
PostAnswered ==
    /\ pc = "post"
    /\ working.at # "sent"
    /\ IF working.at = "refused" \/ (working.at = "filled" /\ Adapter = "okx")
       THEN /\ LegAnswered(IF working.at = "filled" THEN "FILLED" ELSE "REJECTED")
            /\ UNCHANGED stray
       ELSE /\ pc' = IF deadlinePassed THEN "cancel" ELSE "poll"
            /\ working' = [working EXCEPT !.tracked = TRUE]
            /\ UNCHANGED <<ctx, recorded, clock, requeues, stray, hold, uw, result>>

\* fetch_order shows a fill, whole or not: the leg takes it and stops watching.
PollSeesFill ==
    /\ pc = "poll"
    /\ AnyFill(FetchMaker(working))
    /\ LegAnswered(FetchMaker(working))
    /\ Abandon(working)

\* The order was cancelled for crossing, and there is time and a requeue left: it is cancelled
\* once more ...
Recancel_AnyOrder ==
    /\ pc = "poll"
    /\ requeues < MaxRequeues
    /\ ~deadlinePassed
    /\ pc' = "recancel"
    /\ UNCHANGED <<ctx, recorded, clock, requeues, venue, uw, result>>
Recancel_AnyTime ==
    /\ pc = "poll"
    /\ requeues < MaxRequeues
    /\ FetchMaker(working) = "CANCELED"
    /\ pc' = "recancel"
    /\ UNCHANGED <<ctx, recorded, clock, requeues, venue, uw, result>>
Recancel ==
    /\ pc = "poll"
    /\ requeues < MaxRequeues
    /\ ~deadlinePassed
    /\ FetchMaker(working) = "CANCELED"
    /\ pc' = "recancel"
    /\ UNCHANGED <<ctx, recorded, clock, requeues, venue, uw, result>>

\* ... and when that is answered posted again, whatever the answer and the clock say.
Requeue ==
    /\ pc = "recancel"
    /\ requeues' = requeues + 1
    /\ working' = NewOrder(<<"L", Leg, requeues + 1>>, working.from, working.to,
                           working.qty, "maker")
    /\ pc' = "post"
    /\ Abandon(working)
    /\ UNCHANGED <<ctx, recorded, clock, hold, uw, result>>

\* No time or no requeue left.
MakerCrossedOut ==
    /\ pc = "poll"
    /\ FetchMaker(working) = "CANCELED"
    /\ deadlinePassed \/ requeues = MaxRequeues
    /\ LegAnswered("CANCELED")
    /\ UNCHANGED stray

\* The deadline finds the order still open ...
MakerDeadline_OnlyFilled ==
    /\ pc = "poll"
    /\ deadlinePassed
    /\ working.at = "filled"
    /\ pc' = "cancel"
    /\ UNCHANGED <<ctx, recorded, clock, requeues, venue, uw, result>>
MakerDeadline ==
    /\ pc = "poll"
    /\ deadlinePassed
    /\ FetchMaker(working) = "OPEN"
    /\ pc' = "cancel"
    /\ UNCHANGED <<ctx, recorded, clock, requeues, venue, uw, result>>

\* ... cancels it, and believes what the cancel says, whatever has filled on the way.
MakerCancelled ==
    /\ pc = "cancel"
    /\ LegAnswered(CancelMaker(working))
    /\ UNCHANGED stray

-----------------------------------------------------------------------------
(* _finalize. *)

Closed(outcome, end) ==
    result' = [outcome |-> outcome, end |-> end, asset |-> 0, residual |-> 0]

Stuck ==
    result' = [outcome |-> "PARTIAL_STUCK", end |-> 0,
               asset |-> ctx.current, residual |-> ctx.running]

FinalizeComplete ==
    /\ pc = "finalize"
    /\ Leg = Legs
    /\ Closed("COMPLETED", ctx.running)
    /\ pc' = "done"
    /\ UNCHANGED <<ctx, recorded, clock, requeues, venue, uw>>

FinalizeUncommitted_LateCommit ==
    /\ pc = "finalize"
    /\ Leg <= 1
    /\ Closed("ABORTED_PRE_TRADE", 0)
    /\ pc' = "done"
    /\ UNCHANGED <<ctx, recorded, clock, requeues, venue, uw>>
FinalizeUncommitted ==
    /\ pc = "finalize"
    /\ Leg = 0
    /\ Closed("ABORTED_PRE_TRADE", 0)
    /\ pc' = "done"
    /\ UNCHANGED <<ctx, recorded, clock, requeues, venue, uw>>

\* Unwinder._find_path: the direct market if the graph has one, else the shortest way through
\* other assets, the cycle's or not, else none.
Routes ==
    {path \in UNION {[1 .. n -> Asset] : n \in 1 .. MaxHops} :
        /\ path[Len(path)] = Start
        /\ \A i, j \in DOMAIN path : path[i] = path[j] => i = j}
Paths(a) == {<<>>} \cup {path \in Routes : \A i \in DOMAIN path : path[i] # a}

FinalizeCommitted ==
    /\ pc = "finalize"
    /\ Leg \notin {0, Legs}
    /\ \E path \in Paths(ctx.current) :
         IF path = <<>>
         THEN /\ Stuck
              /\ pc' = "done"
              /\ UNCHANGED uw
         ELSE /\ uw' = [path |-> path, hop |-> 1, at |-> ctx.current, left |-> ctx.running,
                        out |-> 0, attempt |-> 0, seen |-> recorded]
              /\ pc' = "unwind"
              /\ UNCHANGED result
    /\ UNCHANGED <<ctx, recorded, clock, requeues, venue>>

-----------------------------------------------------------------------------
(* Unwinder.unwind: per hop, attempts until nothing is left to sell. *)

HopTo == uw.path[uw.hop]

MayAttempt_Unbounded ==
    /\ pc = "unwind"
    /\ uw.left > 0
    /\ ~budgetExpired
MayAttempt ==
    /\ pc = "unwind"
    /\ uw.left > 0
    /\ uw.attempt < MaxAttempts
    /\ ~budgetExpired

Buys == <<uw.at, HopTo>> \in BuyHops

\* What an order of the hop can sell.  A BUY hop divides what it has by a price above the touch,
\* and rounds down; it pays anything between the touch and that price.  A SELL hop may lose a
\* lot to a coarser lot step.
Sellable ==
    IF Buys
    THEN {n \in 0 .. uw.left : (n + 1) * (Grain + uw.attempt + 1) > uw.left * Grain}
    ELSE {uw.left, uw.left - 1}

SendHop ==
    /\ MayAttempt
    /\ \E n \in Sellable \ {0} :
         working' = NewOrder(<<"UW", uw.hop, uw.attempt>>, uw.at, HopTo, n, "taker")
    /\ pc' = "hop"
    /\ UNCHANGED <<ctx, recorded, clock, requeues, stray, hold, uw, result>>

\* A quantity that floors to zero: what is left is written off as dust.
HopDust ==
    /\ MayAttempt
    /\ 0 \in Sellable
    /\ uw' = [uw EXCEPT !.left = 0]
    /\ UNCHANGED <<pc, ctx, recorded, clock, requeues, venue, result>>

\* _execute_hop raised before an order went out: no adapter, no initialized book.
HopUnavailable ==
    /\ MayAttempt
    /\ uw' = [uw EXCEPT !.attempt = @ + 1]
    /\ UNCHANGED <<pc, ctx, recorded, clock, requeues, venue, result>>

\* The remainder that counts as sold: a lot, of the base asset.  Of a BUY hop the remainder is
\* an amount of the quote asset, and is compared with the lot step all the same.
Dust == IF Buys THEN QuoteDust ELSE 1

\* The bookkeeping of an attempt that sold q.
AfterSelling(q) ==
    LET rest == uw.left - q IN
    [uw EXCEPT !.out = @ + q,
               !.left = IF rest <= Dust THEN 0 ELSE rest,
               !.attempt = @ + 1,
               !.seen = Move(@, uw.at, HopTo, q)]

HopAnswered ==
    /\ pc = "hop"
    /\ working.at = "matched"
    /\ uw' = IF AnyFill(TakerStatus(working.filled, working.qty))
             THEN AfterSelling(working.filled)
             ELSE [uw EXCEPT !.attempt = @ + 1]
    /\ pc' = "unwind"
    /\ working' = NoOrder
    /\ UNCHANGED <<ctx, recorded, clock, requeues, stray, hold, result>>

\* adapter.submit raised: try again, whatever became of the order.
HopErrored ==
    /\ MayFail(working)
    /\ pc = "hop"
    /\ uw' = [uw EXCEPT !.attempt = @ + 1]
    /\ pc' = "unwind"
    /\ working' = NoOrder
    /\ Abandon(working)
    /\ UNCHANGED <<ctx, recorded, clock, requeues, hold, result>>

\* adapter.submit raised what the unwinder does not catch: a live adapter that cannot make
\* sense of an answer (an empty body, a missing field).  execute itself raises.
HopRaises ==
    /\ LostAnswers /\ Adapter # "simulated"
    /\ pc = "hop"
    /\ pc' = "raised"
    /\ working' = NoOrder
    /\ Abandon(working)
    /\ UNCHANGED <<ctx, recorded, clock, requeues, hold, uw, result>>

HopOver == uw.left = 0 \/ uw.attempt = MaxAttempts \/ budgetExpired
HopSold == uw.left = 0 /\ uw.out > 0

NextHop ==
    /\ pc = "unwind"
    /\ HopSold
    /\ uw.hop < Len(uw.path)
    /\ uw' = [uw EXCEPT !.hop = @ + 1, !.at = HopTo, !.left = uw.out, !.out = 0,
                        !.attempt = 0]
    /\ UNCHANGED <<pc, ctx, recorded, clock, requeues, venue, result>>

Unwound ==
    /\ pc = "unwind"
    /\ HopSold
    /\ uw.hop = Len(uw.path)
    /\ Closed("PARTIAL_UNWOUND", uw.out)
    /\ pc' = "done"
    /\ UNCHANGED <<ctx, clock, requeues, venue, uw>>

UnwindSucceeds_FillsDropped == Unwound /\ UNCHANGED recorded
UnwindSucceeds == Unwound /\ recorded' = uw.seen

UnwindFails ==
    /\ pc = "unwind"
    /\ HopOver
    /\ ~HopSold
    /\ Stuck
    /\ pc' = "done"
    /\ UNCHANGED <<ctx, recorded, clock, requeues, venue, uw>>

-----------------------------------------------------------------------------
(* The venue. *)

\* What may fill of n lots of asset a: nothing, all of it, or on a thin book a part, and
\* never more than the account holds.
Fillable(a, n) ==
    {q \in 0 .. n : q <= hold[a] /\ (ThinBooks \/ q \in {0, n})}

MatchTaker ==
    /\ working.kind = "taker"
    /\ working.at = "sent"
    /\ pc = "query" => Live(working)
    /\ \E q \in Fillable(working.from, working.qty) :
         /\ working' = [working EXCEPT !.filled = q, !.at = "matched"]
         /\ hold' = Move(hold, working.from, working.to, q)
    /\ UNCHANGED <<exec, clock, stray>>

\* A post-only order rests, is cancelled because it would cross, or is refused.
PostMaker ==
    /\ working.kind = "maker"
    /\ working.at = "sent"
    /\ \E at \in {"resting", "crossed", "refused"} :
         working' = [working EXCEPT !.at = at]
    /\ UNCHANGED <<exec, clock, stray, hold>>

Traded(o, q) ==
    [o EXCEPT !.filled = @ + q, !.at = IF o.filled + q = o.qty THEN "filled" ELSE "resting"]

\* step_resting, called by the executor's poll and by the engine's own maker loop; the
\* simulator's cancel does not yield to either.
TradeResting ==
    /\ working.at = "resting"
    /\ Waits
    /\ \E q \in Fillable(working.from, working.qty - working.filled) \ {0} :
         /\ working' = Traded(working, q)
         /\ hold' = Move(hold, working.from, working.to, q)
    /\ UNCHANGED <<exec, clock, stray>>

\* The same for an order nobody watches: an IOC order matches once or never arrives.
StrayFills ==
    \E o \in stray :
      /\ o.kind = "taker" \/ o.at = "resting"
      /\ \E q \in Fillable(o.from, o.qty - o.filled) :
           /\ hold' = Move(hold, o.from, o.to, q)
           /\ q = 0 => o.kind = "taker"
           /\ stray' = (stray \ {o}) \cup
                       (IF o.kind = "maker" /\ Traded(o, q).at = "resting"
                        THEN {Traded(o, q)} ELSE {})
      /\ UNCHANGED <<exec, clock, working>>

\* A post-only order sent but not seen by its caller reaches the book, or not.
StrayPosts ==
    \E o \in stray :
      /\ o.kind = "maker" /\ o.at = "sent"
      /\ \E arrives \in BOOLEAN :
           stray' = (stray \ {o}) \cup
                    (IF arrives THEN {[o EXCEPT !.at = "resting"]} ELSE {})
      /\ UNCHANGED <<exec, clock, working, hold>>

-----------------------------------------------------------------------------
(* The clock and the engine around the cycle. *)

Over == pc \in {"done", "raised", "cancelled", "stopped"}

BudgetExpires ==
    /\ ~Over /\ Waits
    /\ ~budgetExpired
    /\ budgetExpired' = TRUE
    /\ deadlinePassed' = TRUE
    /\ UNCHANGED <<exec, venue>>

\* The leg's deadline, which its share of the budget puts no later than the budget's end.
DeadlinePasses ==
    /\ pc \in {"post", "poll", "recancel"} /\ Waits
    /\ ~deadlinePassed
    /\ deadlinePassed' = TRUE
    /\ UNCHANGED <<exec, budgetExpired, venue>>

\* Engine.stop cancels the scan task wherever the cycle awaits an answer, or sleeps between
\* two attempts of a hop; execute re-raises and neither finalizes nor unwinds.
Cancelled ==
    /\ Stoppable
    /\ \/ pc \in {"taker", "query", "post", "poll", "recancel", "cancel", "hop"} /\ Waits
       \/ pc = "unwind" /\ uw.attempt > 0 /\ uw.left > 0
    /\ pc' = "cancelled"
    /\ working' = NoOrder
    /\ Abandon(working)
    /\ UNCHANGED <<ctx, recorded, clock, requeues, hold, uw, result>>

\* The rest of Engine.stop: adapter.cancel_all, which knows the orders it tracked.
StopCancelsOrders ==
    /\ pc = "cancelled"
    /\ stray' = {o \in stray : ~o.tracked}
    /\ pc' = "stopped"
    /\ UNCHANGED <<ctx, recorded, clock, requeues, working, hold, uw, result>>

Answered ==
    \/ AbortLeg \/ SendLeg
    \/ TakerAnswered \/ TimeoutQueried
    \/ PostAnswered \/ PollSeesFill \/ Recancel \/ Requeue
    \/ MakerCrossedOut \/ MakerDeadline \/ MakerCancelled
    \/ FinalizeComplete \/ FinalizeUncommitted \/ FinalizeCommitted
    \/ SendHop \/ HopDust \/ HopAnswered
    \/ NextHop \/ UnwindSucceeds \/ UnwindFails

Failed == LegErrored \/ TakerTimedOut \/ HopUnavailable \/ HopErrored \/ HopRaises

Executor == Answered \/ Failed

Venue == MatchTaker \/ PostMaker \/ TradeResting \/ StrayFills \/ StrayPosts

Next ==
    \/ Executor \/ Venue \/ BudgetExpires \/ DeadlinePasses
    \/ Cancelled \/ StopCancelsOrders

Spec == Init /\ [][Next]_vars

\* The event loop runs a coroutine that can go on, a venue treats the order it is sent, and
\* time passes.  Nothing makes a resting order trade, and no call is bound to fail.
Fairness ==
    /\ WF_vars(Answered \/ StopCancelsOrders)
    /\ WF_vars(MatchTaker \/ PostMaker)
    /\ WF_vars(DeadlinePasses)

FairSpec == Spec /\ Fairness

-----------------------------------------------------------------------------
(* What should be true of a cycle. *)

OrderIds == {"L", "UW", "none"} \X Nat \X Nat
Orders ==
    [id : OrderIds, from : Asset, to : Asset, qty : Nat, filled : Nat,
     kind : {"taker", "maker", "none"}, tracked : BOOLEAN,
     at : {"none", "sent", "matched", "resting", "filled", "crossed", "refused"}]
Outcomes ==
    {"none", "COMPLETED", "ABORTED_PRE_TRADE", "PARTIAL_UNWOUND", "PARTIAL_STUCK"}
Results  == [outcome : Outcomes, end : Nat, asset : Asset, residual : Nat]
Contexts == [legs_filled : 0 .. Legs, running : Nat, current : Asset]
Balances == [Asset -> Int]
Unwinds  == [path : {<<>>} \cup Routes, hop : 0 .. MaxHops, at : Asset, left : Nat, out : Nat,
             attempt : 0 .. MaxAttempts, seen : Balances]

\* The shapes of the executor's, the unwinder's and the venue's state; the attempt
\* counters stay within max_attempts and maker_max_requeues.
TypeOK ==
    /\ pc \in {"leg", "taker", "query", "post", "poll", "recancel", "cancel", "finalize",
               "unwind", "hop", "done", "raised", "cancelled", "stopped"}
    /\ ctx \in Contexts
    /\ recorded \in Balances
    /\ budgetExpired \in BOOLEAN /\ deadlinePassed \in BOOLEAN
    /\ requeues \in 0 .. MaxRequeues
    /\ working \in Orders
    /\ stray \subseteq Orders
    /\ hold \in Balances
    /\ uw \in Unwinds
    /\ result \in Results

\* No order, of a leg or of an unwind hop, asks for more than the cycle's own capital
\* still holds of the asset it sells, however little the orders before it filled.
NeverOversells ==
    working.at \in {"sent", "resting"} => working.qty - working.filled <= hold[working.from]

\* ABORTED_PRE_TRADE: "rejected before any capital moved" (CycleOutcome).
AbortMovesNothing ==
    result.outcome = "ABORTED_PRE_TRADE" => hold = AllInStart

\* COMPLETED: "all legs filled, cycle closed" (CycleOutcome): nothing is left in an
\* intermediate asset.
CompletedIsClosed ==
    result.outcome = "COMPLETED" => \A a \in Asset \ {Start} : hold[a] = 0

\* PARTIAL_UNWOUND: the position the unwind was called for is gone, up to what is "below one
\* lot": not where a BUY hop's remainder is compared with a lot of another asset.
UnwoundSellsThePosition ==
    result.outcome = "PARTIAL_UNWOUND" => hold[ctx.current] <= 1

\* The amount a cycle reports having ended with was really delivered: it is in the start
\* asset, so the ledger's P&L never books money the account has not got.
ReportedEndIsHeld ==
    result.outcome \in {"COMPLETED", "PARTIAL_UNWOUND"} => result.end <= hold[Start]

\* What Ledger.record_cycle will believe is held: ctx.fills of a cycle that committed.
LedgerView ==
    IF result.outcome \in {"COMPLETED", "PARTIAL_UNWOUND", "PARTIAL_STUCK"}
    THEN recorded ELSE AllInStart

\* A cycle that got its result leaves the ledger agreeing with the account, per asset,
\* unless it is stuck.
ClosedCyclesReconcile ==
    pc = "done" /\ result.outcome # "PARTIAL_STUCK" => LedgerView = hold

\* The same of every cycle: the ledger's model of the engine's position is right.
EveryCycleReconciles == pc = "done" => LedgerView = hold

\* PARTIAL_STUCK names what is held, to the operator the kill switch calls.
StuckNamesThePosition ==
    result.outcome = "PARTIAL_STUCK" => result.residual <= hold[result.asset]

\* "When it runs out mid-cycle, we stop opening legs and start closing them": a committed
\* cycle is not given up on before its unwind has sent an order or tried every attempt.
ExpiryStartsClosing ==
    result.outcome = "PARTIAL_STUCK" /\ uw.path # <<>> => uw.hop > 1 \/ uw.attempt > 0

\* "When it runs out mid-cycle, we stop opening legs" (executor.py): once the budget is gone no
\* order goes out but the one requeue whose cancel was under way, and none is begun.
OnlyARequeueIsLate ==
    [][budgetExpired =>
         /\ working'.at = "sent" /\ working' # working => pc = "recancel"
         /\ pc' = "recancel" => pc = "recancel"]_vars

\* The same without that exception, which an adapter that waits for its cancel refutes.
NothingSentAfterExpiry ==
    [][budgetExpired /\ working'.at = "sent" => working' = working]_vars

\* Orders of one leg, or of one hop, of the same kind of id.
SameWork(o, p) == o.id[1] = p.id[1] /\ o.id[2] = p.id[2]

NoSecondOrder(kind) ==
    working.id[1] = kind /\ Live(working) =>
        \A o \in stray : Live(o) => ~SameWork(o, working)

\* A leg is worked by one order at a time: while the executor awaits an order, no earlier
\* order for the same leg can still trade and fill it twice, requeues and lost answers
\* included.
OneOrderPerLeg == NoSecondOrder("L")

\* The same for the hops of an unwind: an order whose fate is unknown is asked after, never
\* sent again ("rather than blindly resubmitting", exchanges/base.py).
OneOrderPerHop == NoSecondOrder("UW")

\* "An engine that exits holding inventory has not stopped" (Engine.stop).
StopFlattens ==
    pc = "stopped" => \A a \in Asset \ {Start} : hold[a] = 0

\* Whatever the venue answers, the executor comes back, with a result unless it raised or
\* was stopped: a leg, a requeue or an unwind hop is never awaited or retried for ever.
EveryCycleEnds == <>(pc \in {"done", "raised", "stopped"})

\* What the unwinder may leave behind on a hop and call sold.
WrittenOff == IF QuoteDust > 1 THEN QuoteDust ELSE 1

Outside ==
    CASE \A a \in Asset \ {Start} : hold[a] = 0 -> "nothing"
      [] \E a \in Asset \ {Start} : hold[a] > WrittenOff -> "capital"
      [] OTHER -> "dust"

\* What CyclePromise asks of a cycle: what is outside the start asset is dust where it is no
\* more than the unwinder writes off, and capital has moved once a fill has happened.
Promise == INSTANCE CyclePromise WITH
    open    <- result.outcome = "none",
    outside <- Outside,
    moved   <- hold # AllInStart \/ Leg > 0,
    outcome <- result.outcome

\* Where orders fill whole and every call is answered, the executor and the unwinder keep
\* that promise.
KeepsPromise == Promise!Spec
=============================================================================
