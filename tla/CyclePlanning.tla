--------------------------- MODULE CyclePlanning ----------------------------
(***************************************************************************)
(* From an opportunity to a plan: the planner picks the rotation and the   *)
(* maker leg, the sizer carries an amount through the legs, over the books *)
(* and onto each venue's lot grid, and the fee engine says what a fill     *)
(* will cost at the tier the account's volume has reached.                 *)
(*                                                                         *)
(* Amounts are whole units; what a leg gives is rounded down to one.       *)
(***************************************************************************)
EXTENDS BookWalk, FiniteSets, FiniteSetsExt

CONSTANTS
    Opportunities,   \* sequences of legs [pair, side, from, to]
    PlanBooks,       \* PlanBooks[p]: the books pair p may have, [ready, bids, asks]
    Specs,           \* Specs[p]: [lot, tick, minQuantity, maxQuantity, minNotional]
    Amounts,         \* what may be available of the start asset
    Fractions,       \* size_best's fractions in percent, largest first
    NotionalBuffer,  \* min_notional_buffer in percent
    TakerTicks, MakerTicks,
    MakerMinSpread,  \* maker_min_spread_bps
    Ladder,          \* the venue's fee tiers [min, maker, taker], by volume
    FeeScale,        \* fees are parts of it
    Discount,        \* discount_pct
    PlanModes,
    MaxVolume        \* bound on the volume

ASSUME PlanningAssumption ==
    /\ Ladder \in Seq([min : Nat, maker : Int, taker : Int])   \* below zero it is a rebate
    /\ Ladder # << >> /\ Ladder[1].min = 0 /\ FeeScale \in Nat \ {0} /\ Discount \in 0 .. 100
    /\ \A k \in DOMAIN Ladder : Ladder[k].maker <= FeeScale /\ Ladder[k].taker <= FeeScale
    /\ \A p \in DOMAIN Specs :
          /\ Specs[p].lot \in Nat \ {0} /\ Specs[p].tick \in Nat
          /\ \A b \in PlanBooks[p] : b.ready \in BOOLEAN /\ BidSide(b.bids) /\ AskSide(b.asks)
    /\ Opportunities \subseteq
          Seq([pair : DOMAIN Specs, side : {"buy", "sell"}, from : STRING, to : STRING])
    /\ Amounts \subseteq Nat /\ Fractions \in Seq(0 .. 100)
    /\ {TakerTicks, MakerTicks, MaxVolume} \subseteq Nat
    /\ PlanModes \subseteq {"TTT", "MTT", "TMT", "auto"}

VARIABLES
    plBook,    \* the book of each pair
    plVolume,  \* what the fee engine counts as the last 30 days' volume
    plPlan     \* the last plan, or why there is none

plVars == <<plBook, plVolume, plPlan>>

LevelsOf(leg) == IF leg.side = "buy" THEN plBook[leg.pair].asks ELSE plBook[leg.pair].bids
NotSided(book) == ~book.ready \/ book.bids = << >> \/ book.asks = << >>
BestBid(book) == IF book.bids = << >> THEN 0 ELSE book.bids[1].price
BestAsk(book) == IF book.asks = << >> THEN 0 ELSE book.asks[1].price

-----------------------------------------------------------------------------
(* FeeEngine. *)

\* The last tier whose volume is reached, before the first that is not.
TierFor(volume) ==
    Ladder[Max({k \in DOMAIN Ladder : \A j \in 1 .. k : volume >= Ladder[j].min})]

\* Parts of FeeScale, with the discount of the venue's token.
RateOf(liquidity) ==
    LET tier == TierFor(plVolume)
    IN  ((IF liquidity = "maker" THEN tier.maker ELSE tier.taker) * (100 - Discount)) \div 100

\* A fee is charged in what is received.
AfterFee(amount, liquidity) == (amount * (FeeScale - RateOf(liquidity))) \div FeeScale

-----------------------------------------------------------------------------
(* CycleSizer. *)

FloorTo(n, step) == (n \div step) * step

\* Takers are priced through the touch, makers behind it.
LimitPrice(leg, liquidity) ==
    LET touch == LevelsOf(leg)[1].price
        tick == Specs[leg.pair].tick
        through == IF liquidity = "maker" THEN -tick * MakerTicks ELSE tick * TakerTicks
    IN  IF leg.side = "buy" THEN touch + through ELSE touch - through

Failed(reason) == [failure |-> reason]

\* Taking the input's worth from the book: a buy spends it, a sale sells its lots.
WalkOf(leg, input) ==
    IF leg.side = "buy" THEN WalkForNotional(LevelsOf(leg), input)
    ELSE WalkBook(LevelsOf(leg), FloorTo(input, Specs[leg.pair].lot))

\* Mutant of Quantity: a buy is rounded to the next lot.
QuantityUp(leg, input, walk) ==
    LET lot == Specs[leg.pair].lot
    IN  FloorTo(IF leg.side = "buy" THEN walk.filled[1] \div walk.filled[2] + lot - 1
                ELSE IF walk.exhausted THEN walk.filled ELSE input, lot)

\* What the input buys, or what of the input can be sold, on the lot grid.
Quantity(leg, input, walk) ==
    FloorTo(IF leg.side = "buy" THEN walk.filled[1] \div walk.filled[2]
            ELSE IF walk.exhausted THEN walk.filled ELSE input, Specs[leg.pair].lot)

\* The quantity at the average price of the walk.
Notional(leg, walk, quantity) ==
    IF leg.side = "buy" THEN (quantity * walk.notional * walk.filled[2]) \div walk.filled[1]
    ELSE (quantity * walk.notional) \div walk.filled

Depth(leg, walk) == IF leg.side = "buy" THEN walk.filled[1] ELSE walk.filled

SizeLeg(leg, input, liquidity) ==
    LET spec == Specs[leg.pair]
        book == plBook[leg.pair]
        Sized(walk, quantity) ==
            LET notional == Notional(leg, walk, quantity)
                lotless == IF leg.side = "buy" THEN quantity = 0 ELSE input < spec.lot
            IN  IF ~book.ready \/ (~NotSided(book) /\ BestBid(book) >= BestAsk(book)) THEN Failed("no_book")
                ELSE IF LevelsOf(leg) = << >> THEN Failed("insufficient_depth")
                ELSE IF leg.side = "sell" /\ lotless THEN Failed("quantizes_to_zero")
                ELSE IF Depth(leg, walk) = 0 THEN Failed("insufficient_depth")
                ELSE IF lotless THEN Failed("quantizes_to_zero")
                ELSE IF quantity = 0 THEN Failed("insufficient_depth")
                ELSE IF spec.maxQuantity # 0 /\ quantity > spec.maxQuantity THEN Failed("above_max_quantity")
                ELSE IF quantity < spec.minQuantity \/ notional * 100 < spec.minNotional * NotionalBuffer
                THEN Failed("below_min_notional")
                ELSE [failure |-> "", leg |-> leg, input |-> input, quantity |-> quantity,
                      limit |-> LimitPrice(leg, liquidity), liquidity |-> liquidity,
                      output |-> AfterFee(IF leg.side = "buy" THEN quantity ELSE notional, liquidity)]
        OnGrid(walk) == Sized(walk, Quantity(leg, input, walk))
    IN  OnGrid(WalkOf(leg, input))

\* The forward pass: each leg is given what the one before it is expected to return.
Size(legs, start, liquidities) ==
    LET Extended(pass, sized) ==
            IF pass.failure # "" THEN pass
            ELSE IF sized.failure # "" THEN [pass EXCEPT !.failure = sized.failure]
            ELSE [pass EXCEPT !.legs = Append(@, sized), !.end = sized.output]
        Judged(pass) ==
            IF start = 0 THEN [pass EXCEPT !.failure = "no_capital"]
            ELSE IF pass.failure = "" /\ pass.end <= start THEN [pass EXCEPT !.failure = "negative_after_costs"]
            ELSE pass
        SizeNext(pass, k) == Extended(pass, SizeLeg(legs[k], pass.end, liquidities[k]))
        passes[k \in 0 .. Len(legs)] ==
            IF k = 0 THEN [failure |-> "", legs |-> << >>, start |-> start, end |-> start]
            ELSE SizeNext(passes[k - 1], k)
    IN  Judged(passes[Len(legs)])

Better(a, b) == a.end * b.start > b.end * a.start

\* The fraction with the best net edge; the first failure if every one fails.
SizeBest(legs, available, liquidities) ==
    LET Kept(last, result) ==
            IF result.start = 0 THEN last
            ELSE IF last.failure = "untried" THEN result
            ELSE IF result.failure = "" /\ (last.failure # "" \/ Better(result, last)) THEN result
            ELSE last
        Try(last, percent) == Kept(last, Size(legs, (available * percent) \div 100, liquidities))
        best[k \in 0 .. Len(Fractions)] ==
            IF k = 0 THEN [failure |-> "untried"] ELSE Try(best[k - 1], Fractions[k])
        Chosen(last) == IF last.failure = "untried" THEN Failed("no_capital") ELSE last
    IN  Chosen(best[Len(Fractions)])

-----------------------------------------------------------------------------
(* LegPlanner. *)

Rotation(legs, r) == SubSeq(legs, r, Len(legs)) \o SubSeq(legs, 1, r - 1)

\* Rotations that begin with the held asset; which of several scores best is left open.
Rotations(legs, anchor) == {r \in DOMAIN legs : legs[r].from = anchor}

\* Room for two ticks inside a spread that is wide enough.
MakerViable(leg) ==
    LET book == plBook[leg.pair]  spread == BestAsk(book) - BestBid(book) IN
    /\ ~NotSided(book)
    /\ spread * 20000 >= MakerMinSpread * (BestAsk(book) + BestBid(book))
    /\ Specs[leg.pair].tick = 0 \/ spread >= 2 * Specs[leg.pair].tick

\* Relative spreads a/b are compared crosswise.
WiderSpread(a, b) ==
    LET x == plBook[a.pair]  y == plBook[b.pair] IN
    (BestAsk(x) - BestBid(x)) * (BestAsk(y) + BestBid(y)) > (BestAsk(y) - BestBid(y)) * (BestAsk(x) + BestBid(x))

MakerLeg(legs, mode) ==
    LET viable == {k \in DOMAIN legs : MakerViable(legs[k])}
    IN  CASE mode = "TTT" -> {}
          [] mode = "MTT" -> {1} \cap viable
          [] mode = "TMT" -> {IF Len(legs) > 1 THEN 2 ELSE 1} \cap viable
          [] OTHER -> {k \in viable : \A j \in viable \ {k} : WiderSpread(legs[k], legs[j])
                                                              \/ (k < j /\ ~WiderSpread(legs[j], legs[k]))}

AssignLiquidity(legs, mode) ==
    [k \in DOMAIN legs |-> IF k \in MakerLeg(legs, mode) THEN "maker" ELSE "taker"]

NoPlan == [failure |-> "none"]

-----------------------------------------------------------------------------

PlInit ==
    /\ plBook \in [DOMAIN Specs -> UNION {PlanBooks[p] : p \in DOMAIN Specs}]
    /\ \A p \in DOMAIN Specs : plBook[p] \in PlanBooks[p]
    /\ plVolume = 0 /\ plPlan = NoPlan

PlanCycle ==
    /\ plPlan = NoPlan
    /\ \E legs \in Opportunities, available \in Amounts, mode \in PlanModes :
         \E r \in Rotations(legs, legs[1].from) :
            LET ordered == Rotation(legs, r)
            IN  plPlan' = SizeBest(ordered, available, AssignLiquidity(ordered, mode))
    /\ UNCHANGED <<plBook, plVolume>>

\* record_fill: the cycle's fills add to the volume the tier depends on.
FillsRecorded ==
    /\ plPlan # NoPlan
    /\ plVolume' = Smaller(plVolume + IF plPlan.failure = "" THEN plPlan.start ELSE 0, MaxVolume)
    /\ plPlan' = NoPlan
    /\ UNCHANGED plBook

\* Fills older than 30 days leave the window.
VolumeExpires ==
    /\ plVolume > 0 /\ plPlan = NoPlan
    /\ plVolume' = 0
    /\ UNCHANGED <<plBook, plPlan>>

PlNext == PlanCycle \/ FillsRecorded \/ VolumeExpires

PlanSpec == PlInit /\ [][PlNext]_plVars

-----------------------------------------------------------------------------

\* One level: as much of what is left as is there.
TakeWhole(w, level) ==
    LET take == Smaller(w.left, level.size)
    IN  [left |-> w.left - take, worth |-> w.worth + take * level.price]

\* What taking a quantity from the whole of a book costs, or returns.
FullWorth(levels, quantity) ==
    LET walk[k \in 0 .. Len(levels)] ==
            IF k = 0 THEN [left |-> quantity, worth |-> 0]
            ELSE TakeWhole(walk[k - 1], levels[k])
    IN  walk[Len(levels)].worth

WorthOf(l) ==
    IF l.liquidity = "maker" THEN l.quantity * l.limit ELSE FullWorth(LevelsOf(l.leg), l.quantity)

\* A leg's order fills: what is held after it, and whether what it takes was there.
Fill(run, l) ==
    IF l.leg.side = "buy"
    THEN [held |-> AfterFee(l.quantity, l.liquidity), covered |-> run.covered /\ WorthOf(l) <= run.held]
    ELSE [held |-> AfterFee(WorthOf(l), l.liquidity), covered |-> run.covered /\ l.quantity <= run.held]

\* Leg after leg on the books the plan was made from, each with what the last returned.
Executed(legs) ==
    LET run[k \in 0 .. Len(legs)] ==
            IF k = 0 THEN [held |-> plPlan.start, covered |-> TRUE] ELSE Fill(run[k - 1], legs[k])
    IN  run[Len(legs)]

\* "The engine's projected P&L becomes a lower bound on the realized P&L modulo market
\* movement": a plan whose orders fill, on the books it was made from, never asks for
\* more than the legs before it returned and ends with what it promised, or more.
\* Code: the walk, the roundings, the fee's asset and what _size_leg hands on.
ProjectionIsALowerBound ==
    plPlan.failure = "" => LET run == Executed(plPlan.legs) IN run.covered /\ run.held >= plPlan.end

\* The same says that the orders do fill: as immediate-or-cancel orders at their limits.
PlannedOrdersFill ==
    plPlan.failure = "" =>
        \A i \in DOMAIN plPlan.legs :
            LET l == plPlan.legs[i]
                within == SelectSeq(LevelsOf(l.leg), LAMBDA x :
                             IF l.leg.side = "buy" THEN x.price <= l.limit ELSE x.price >= l.limit)
            IN  l.liquidity = "taker" => FoldLeft(LAMBDA s, x : s + x.size, 0, within) >= l.quantity
=============================================================================
