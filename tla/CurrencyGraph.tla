--------------------------- MODULE CurrencyGraph ----------------------------
(***************************************************************************)
(* The graph's edges, priced from the books of the symbols: each symbol    *)
(* gives one edge that buys its base with its quote and one that sells it. *)
(* A rate is an exact quotient <<n, d>>; its logarithm, the weight, has    *)
(* the same order and is what CycleSearch works with.                      *)
(***************************************************************************)
EXTENDS BookWalk, FiniteSets

CONSTANTS
    Symbols,        \* the symbols in the order they are built: [base, quote, venue]
    GraphBooks,     \* the books a symbol may have: [ready, bids, asks]
    GraphBase,      \* base_currency
    RefNotional,    \* reference_notional, in the base currency
    GraphMaxAge,    \* max_book_age_ns
    FeeNum, FeeDen, \* the taker fee of every venue, as a fraction
    LotStep,        \* of every symbol, in units of its base
    MinNotional,
    DragNum, DragDen,  \* drag_budget_bps, as a fraction
    LegsForBudget

ASSUME GraphAssumption ==
    /\ RefNotional \in Nat \ {0} /\ GraphMaxAge \in Nat /\ LegsForBudget \in Nat \ {0}
    /\ {FeeNum, DragNum, LotStep, MinNotional} \subseteq Nat
    /\ {FeeDen, DragDen} \subseteq Nat \ {0} /\ FeeNum < FeeDen
    /\ Symbols \in Seq([base : STRING, quote : STRING, venue : STRING])
    /\ \A b \in GraphBooks : b.ready \in BOOLEAN /\ BidSide(b.bids) /\ AskSide(b.asks)

VARIABLES
    gBook,   \* the book of each symbol, by its place in Symbols
    gAge,    \* its age
    gValue,  \* _valuation: what one unit of an asset is worth in the base currency
    gEdges   \* _edges: [symbol's place, side] -> [quality, rate, age, depth]

gVars == <<gBook, gAge, gValue, gEdges>>

Places == 1 .. Len(Symbols)
Sides == {"buy", "sell"}

Levels(book, side) == IF side = "buy" THEN book.asks ELSE book.bids
Sided(book) == book.bids # << >> /\ book.asks # << >>
Crossed(book) == Sided(book) /\ book.bids[1].price >= book.asks[1].price

Times(x, y) == <<x[1] * y[1], x[2] * y[2]>>
Over(x, y) == <<x[1] * y[2], x[2] * y[1]>>

-----------------------------------------------------------------------------

\* One look at a symbol: its mid values the asset that has no value yet.
Valued(value, i) ==
    LET s == Symbols[i]
        mid == <<gBook[i].bids[1].price + gBook[i].asks[1].price, 2>>
        Known(a) == a \in DOMAIN value
        With(a, v) == [x \in DOMAIN value \cup {a} |-> IF x = a THEN v ELSE value[x]]
    IN  IF ~gBook[i].ready \/ ~Sided(gBook[i]) \/ Crossed(gBook[i]) THEN value
        ELSE CASE Known(s.quote) /\ ~Known(s.base) -> With(s.base, Times(mid, value[s.quote]))
               [] Known(s.base) /\ ~Known(s.quote) -> With(s.quote, Over(value[s.base], mid))
               [] OTHER -> value

\* Two passes over the symbols; a book's age does not matter here.
Valuation ==
    LET value[k \in 0 .. 2 * Len(Symbols)] ==
            IF k = 0 THEN [a \in {GraphBase} |-> <<1, 1>>]
            ELSE Valued(value[k - 1], ((k - 1) % Len(Symbols)) + 1)
    IN  value[2 * Len(Symbols)]

\* The reference notional in units of an asset; it only sizes, so it is rounded.
NotionalIn(value, asset) ==
    IF asset \notin DOMAIN value THEN 0
    ELSE (RefNotional * value[asset][2]) \div value[asset][1]

Rejected(quality, age) == [quality |-> quality, rate |-> <<0, 1>>, age |-> age, depth |-> 0]

NetOfFee(x) == <<x[1] * (FeeDen - FeeNum), x[2] * FeeDen>>

\* Mutant of SideWalk: the two sides of the book are swapped.
SideWalkFlipped(book, side, notional) ==
    IF side = "buy" THEN WalkForNotional(book.bids, notional)
    ELSE WalkBook(book.asks, notional \div book.asks[1].price)

\* A buy spends the notional; a sell sells what it buys at the touch.
SideWalk(book, side, notional) ==
    IF side = "buy" THEN WalkForNotional(book.asks, notional)
    ELSE WalkBook(book.bids, notional \div book.bids[1].price)

\* The edge of a symbol and a side, or the first screen that keeps it out.
PriceEdge(value, i, side) ==
    LET book == gBook[i]
        levels == Levels(book, side)
        Screened(notional, walk) ==
            LET touch == levels[1].price
                \* received and spent, fee in what is received
                rate == IF side = "buy" THEN NetOfFee(Over(walk.filled, <<notional, 1>>))
                        ELSE NetOfFee(<<walk.notional, walk.filled>>)
                ruled == IF side = "buy" THEN notional ELSE walk.notional
                budget == <<2 * ruled * DragNum, DragDen * LegsForBudget>>
            IN  IF ~book.ready THEN Rejected("no_book", 0)
                ELSE IF Crossed(book) THEN Rejected("crossed", gAge[i])
                ELSE IF gAge[i] > GraphMaxAge THEN Rejected("stale", gAge[i])
                ELSE IF levels = << >> THEN Rejected("thin", gAge[i])
                ELSE IF notional = 0 THEN Rejected("no_book", gAge[i])
                ELSE IF walk.exhausted THEN Rejected("thin", gAge[i])
                ELSE IF ruled < MinNotional THEN Rejected("min_notional", gAge[i])
                ELSE IF LotStep * touch * budget[2] > budget[1] THEN Rejected("lot_value", gAge[i])
                ELSE [quality |-> "ok", rate |-> rate, age |-> gAge[i], depth |-> walk.notional]
        AtNotional(notional) == Screened(notional, SideWalk(book, side, notional))
    IN  AtNotional(NotionalIn(value, Symbols[i].quote))

Usable(e) == e.quality = "ok" /\ e.rate[1] > 0

-----------------------------------------------------------------------------

GraphInit ==
    /\ gBook \in [Places -> GraphBooks]
    /\ gAge = [i \in Places |-> 0]
    /\ gValue = [a \in {GraphBase} |-> <<1, 1>>]
    /\ gEdges = << >>

\* The feed replaces a book.
BookMoves(i) ==
    /\ \E b \in GraphBooks \ {gBook[i]} : gBook' = [gBook EXCEPT ![i] = b]
    /\ gAge' = [gAge EXCEPT ![i] = 0]
    /\ UNCHANGED <<gValue, gEdges>>

BooksAge ==
    /\ \E i \in Places : gAge[i] <= GraphMaxAge
    /\ gAge' = [i \in Places |-> Smaller(gAge[i] + 1, GraphMaxAge + 1)]
    /\ UNCHANGED <<gBook, gValue, gEdges>>

\* build: value every asset, then price every edge.
Build ==
    /\ gValue' = Valuation
    /\ gEdges' = [k \in Places \X Sides |-> PriceEdge(gValue', k[1], k[2])]
    /\ UNCHANGED <<gBook, gAge>>

\* update_symbol prices two edges again, with the valuation of the last build.
UpdateSymbol(i) ==
    /\ gEdges # << >>
    /\ gEdges' = [k \in Places \X Sides |->
                     IF k[1] = i THEN PriceEdge(gValue, i, k[2]) ELSE gEdges[k]]
    /\ UNCHANGED <<gBook, gAge, gValue>>

GraphNext ==
    \/ Build
    \/ BooksAge
    \/ \E i \in Places : BookMoves(i) \/ UpdateSymbol(i)

GraphSpec == GraphInit /\ [][GraphNext]_gVars

-----------------------------------------------------------------------------

\* Going over a symbol and back on its own book never gains, whatever the notional,
\* the valuation it was sized with and the depth: an edge that did would be the end of
\* a cycle that is not there.  Code: the sides, the walk and the fee of _price_edge.
RoundTripsLose ==
    \A i \in Places :
        LET out == gEdges[<<i, "buy">>]  back == gEdges[<<i, "sell">>] IN
        gEdges # << >> /\ Usable(out) /\ Usable(back) =>
            out.rate[1] * back.rate[1] <= out.rate[2] * back.rate[2]
=============================================================================
