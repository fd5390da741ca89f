------------------------------- MODULE Baskets -------------------------------
(***************************************************************************)
(* The scan of prediction markets for trades that pay whatever happens:    *)
(* what the venues give is turned into groups of contracts, a group is     *)
(* judged complete or not, and three checks look for a price that closes.  *)
(*                                                                         *)
(* Prices are in cents of a dollar and money in thousandths of a cent; the *)
(* code's contracts are fractions, here they are whole.  The wording of a  *)
(* label is what the patterns make of it; which two questions read alike   *)
(* is a constant.                                                          *)
(***************************************************************************)
EXTENDS Integers, Sequences, FiniteSets, FiniteSetsExt, Sums

CONSTANTS
    Events,       \* what the venues may give: [venue, flag, markets, may]
    FeeModels,    \* by venue: [curve, proportional, fixed, roundUp, verified]
    Unmodelled,   \* the model of any other venue
    Similar,      \* pairs of titles that are alike enough
    Budget,       \* in cents
    MinEdge,      \* MIN_EDGE_DOLLARS, in thousandths of a cent
    MinContracts,
    MaxBooks,     \* books a Polymarket adapter fetches
    MaxGroups     \* bound on the groups of a scan

QuotedBooks == LET Quotes == Seq([price : Int, size : Nat]) IN [bids : Quotes, asks : Quotes]

ASSUME BasketsAssumption ==
    /\ Budget \in Nat /\ MinEdge \in Nat \ {0} /\ MinContracts \in Nat \ {0} /\ MaxGroups \in Nat
    /\ \A event \in Events :
          /\ event.flag \in BOOLEAN /\ Len(event.markets) \in Nat
          /\ \A i \in 1 .. Len(event.markets) :
                LET market == event.markets[i]
                IN  {market.tokens, market.negRisk} \subseteq BOOLEAN /\ {market.yes, market.no} \subseteq QuotedBooks

VARIABLES
    bGroups,   \* the groups fetched
    bBooks,    \* _books_fetched
    bFound     \* what the last scan returned

bVars == <<bGroups, bBooks, bFound>>

NoBook == [bids |-> << >>, asks |-> << >>]
Level(p, n) == [price |-> p, size |-> n]
BestBid(book) == book.bids[1].price
BestAsk(book) == book.asks[1].price
SizeAt(levels, prices) ==
    SumSeq([k \in DOMAIN levels |-> IF levels[k].price \in prices THEN levels[k].size ELSE 0])
Smallest(S) == CHOOSE x \in S : \A y \in S : x <= y

-----------------------------------------------------------------------------
(* The venues. *)

\* A Kalshi market: one level of quotes, and the NO book is the YES book reflected.
KalshiContract(market, event) ==
    [venue |-> event.venue, title |-> market.title, label |-> market.label, shares |-> TRUE, least |-> 1,
     yes |-> market.yes,
     no |-> [bids |-> [i \in DOMAIN market.yes.asks |-> Level(100 - market.yes.asks[i].price, market.yes.asks[i].size)],
             asks |-> [i \in DOMAIN market.yes.bids |-> Level(100 - market.yes.bids[i].price, market.yes.bids[i].size)]]]

\* A Polymarket market has a token and a book for each side; past the limit on books
\* only indicative quotes, of no size.
PolymarketContract(market, event, fetched) ==
    LET Bare(levels) == IF levels = << >> THEN << >> ELSE <<Level(levels[1].price, 0)>>
        indicative == [bids |-> Bare(market.yes.bids), asks |-> Bare(market.yes.asks)]
    IN  [venue |-> event.venue, title |-> market.title, label |-> market.label, shares |-> FALSE, least |-> 5,
         yes |-> IF fetched < MaxBooks THEN market.yes ELSE indicative,
         no |-> IF fetched < MaxBooks THEN market.no ELSE NoBook]

\* A market without its tokens, or its ticker, is left out of its group.
Listed(event) ==
    LET listed[i \in 0 .. Len(event.markets)] ==
            IF i = 0 THEN << >>
            ELSE IF event.markets[i].tokens THEN Append(listed[i - 1], event.markets[i]) ELSE listed[i - 1]
    IN  listed[Len(event.markets)]

AsksOf(contracts) == SumSeq([i \in DOMAIN contracts |-> BestAsk(contracts[i].yes)])
BidsOf(contracts) == SumSeq([i \in DOMAIN contracts |-> BestBid(contracts[i].yes)])
AllAsked(contracts) == \A i \in DOMAIN contracts : contracts[i].yes.asks # << >>
AllBid(contracts) == \A i \in DOMAIN contracts : contracts[i].yes.bids # << >>
Count(contracts, kinds) == Cardinality({i \in DOMAIN contracts : contracts[i].label \in kinds})

\* _covers_the_line: an open bucket at each end, and numbers.
CoversTheLine(contracts) ==
    /\ Len(contracts) >= 3
    /\ Count(contracts, {"lower"}) > 0 /\ Count(contracts, {"upper"}) > 0
    /\ Count(contracts, {"lower", "upper", "number"}) >= Max({3, Len(contracts) \div 2})

\* infer_exhaustiveness
Evidence(contracts, exclusive) ==
    IF Len(contracts) = 1
    THEN IF contracts[1].yes.asks # << >> /\ contracts[1].no.asks # << >> THEN "asserted" ELSE "unknown"
    ELSE IF ~exclusive THEN "unknown"
    ELSE IF CoversTheLine(contracts) \/ Count(contracts, {"other"}) > 0 THEN "inferred"
    ELSE IF Len(contracts) = 2 /\ AllAsked(contracts) /\ AsksOf(contracts) \in 95 .. 115 THEN "inferred"
    ELSE IF AllBid(contracts) /\ BidsOf(contracts) < 80 THEN "denied"
    ELSE "unknown"

IsExhaustive(group) == group.evidence \in {"asserted", "inferred"}

\* _to_group of either adapter; Polymarket's flag is that of any of its markets.
GroupOf(event, books) ==
    LET listed == Listed(event)
        contracts == [i \in DOMAIN listed |->
            IF event.venue = "polymarket" THEN PolymarketContract(listed[i], event, books + 2 * (i - 1))
            ELSE KalshiContract(listed[i], event)]
        exclusive == IF event.venue = "polymarket" THEN \E i \in DOMAIN event.markets : event.markets[i].negRisk
                     ELSE event.flag
    IN  [venue |-> event.venue, contracts |-> contracts, exclusive |-> exclusive,
         evidence |-> Evidence(contracts, exclusive), event |-> event]

-----------------------------------------------------------------------------
(* The checks. *)

VerifiedFees(venue) == venue \in DOMAIN FeeModels /\ FeeModels[venue].verified

\* FeeModel.cost
Fee(venue, contracts, price) ==
    LET model == IF venue \in DOMAIN FeeModels THEN FeeModels[venue] ELSE Unmodelled
        p == Min({100, Max({0, price})})
        fee == (model.curve * contracts * p * (100 - p)) \div 10 + model.proportional * contracts * p
        rounded == IF model.roundUp = 0 THEN fee
                   ELSE ((fee + model.roundUp - 1) \div model.roundUp) * model.roundUp
    IN  IF contracts <= 0 THEN 0 ELSE rounded + model.fixed

\* _capped_contracts
Capped(available, unit) ==
    IF available = {} \/ unit <= 0 THEN 0 ELSE Max({0, Min({Smallest(available), Budget \div unit})})

AtAsk(book) == SizeAt(book.asks, 0 .. BestAsk(book))
AtBid(book) == SizeAt(book.bids, BestBid(book) .. 100)

Leg(market, side, price, venue) == [market |-> market, side |-> side, price |-> price, venue |-> venue]

\* What a set of legs costs, with what it is said to pay.
Opportunity(kind, group, legs, contracts, paysEach, sound) ==
    [kind |-> kind, group |-> group, legs |-> legs, contracts |-> contracts,
     cost |-> contracts * SumSeq([k \in DOMAIN legs |-> legs[k].price]) * 1000,
     pays |-> contracts * paysEach * 100 * 1000,
     fees |-> SumSeq([k \in DOMAIN legs |-> Fee(legs[k].venue, contracts, legs[k].price)]),
     locked |-> sound /\ \A k \in DOMAIN legs : VerifiedFees(legs[k].venue)]

Net(o) == o.pays - o.cost - o.fees
WorthIt(found) == {o \in found : Net(o) >= MinEdge}

\* find_complementary: both sides of one question, where they have books of their own.
Complementary(group, i) ==
    LET c == group.contracts[i] IN
    IF c.shares \/ c.yes.asks = << >> \/ c.no.asks = << >> THEN {}
    ELSE LET unit == BestAsk(c.yes) + BestAsk(c.no)
             n == Capped({AtAsk(c.yes), AtAsk(c.no)}, unit)
         IN  IF unit >= 100 \/ n < Max({MinContracts, c.least}) THEN {}
             ELSE WorthIt({Opportunity("complementary", group,
                             <<Leg(i, "yes", BestAsk(c.yes), c.venue), Leg(i, "no", BestAsk(c.no), c.venue)>>,
                             n, 1, TRUE)})

Tradeable(group) ==
    /\ group.exclusive /\ Len(group.contracts) >= 2
    /\ \A i \in DOMAIN group.contracts : group.contracts[i].yes # NoBook

\* find_basket, the sell side: every NO.
SellBasket(group) ==
    LET cs == group.contracts  unit == 100 * Len(cs) - BidsOf(cs)
        n == Capped({AtBid(cs[i].yes) : i \in DOMAIN cs}, unit)
    IN  IF ~Tradeable(group) \/ ~AllBid(cs) \/ BidsOf(cs) <= 100 \/ n < MinContracts THEN {}
        ELSE WorthIt({Opportunity("basket_sell", group,
                        [i \in DOMAIN cs |-> Leg(i, "no", 100 - BestBid(cs[i].yes), group.venue)],
                        n, Len(cs) - 1, TRUE)})

BuyBasketIf(group, sound) ==
    LET cs == group.contracts
        n == Capped({AtAsk(cs[i].yes) : i \in DOMAIN cs}, AsksOf(cs))
    IN  IF ~Tradeable(group) \/ ~AllAsked(cs) \/ AsksOf(cs) >= 100 \/ n < MinContracts THEN {}
        ELSE WorthIt({Opportunity("basket_buy", group,
                        [i \in DOMAIN cs |-> Leg(i, "yes", BestAsk(cs[i].yes), group.venue)], n, 1, sound)})

\* Mutant of BuyBasket: what is exclusive is taken to be exhaustive.
BuyBasketExclusive(group) == BuyBasketIf(group, group.exclusive)

\* ... and the buy side: every YES, locked only if one of them must happen.
BuyBasket(group) == BuyBasketIf(group, IsExhaustive(group))

\* find_cross_venue: the same words on two venues; never locked.
CrossVenue(g, h) ==
    UNION {LET a == g.contracts[i]  b == h.contracts[j] IN
           IF <<a.title, b.title>> \notin Similar \/ a.yes = NoBook \/ b.yes = NoBook
              \/ a.yes.asks = << >> \/ b.no.asks = << >> THEN {}
           ELSE LET unit == BestAsk(a.yes) + BestAsk(b.no)
                    n == Capped({AtAsk(a.yes), AtAsk(b.no)}, unit)
                IN  IF unit >= 100 \/ n < MinContracts THEN {}
                    ELSE WorthIt({Opportunity("cross_venue", g,
                                    <<Leg(i, "yes", BestAsk(a.yes), a.venue), Leg(j, "no", BestAsk(b.no), b.venue)>>,
                                    n, 1, FALSE)})
           : i \in DOMAIN g.contracts, j \in DOMAIN h.contracts}

\* scan_groups
ScanOf(groups) ==
    (UNION {SellBasket(groups[k]) \cup BuyBasket(groups[k])
              \cup UNION {Complementary(groups[k], i) : i \in DOMAIN groups[k].contracts} : k \in DOMAIN groups})
    \cup UNION {CrossVenue(groups[p[1]], groups[p[2]]) :
                  p \in {q \in (DOMAIN groups) \X (DOMAIN groups) : groups[q[1]].venue # groups[q[2]].venue}}

-----------------------------------------------------------------------------

\* A venue's event becomes a group, unless none of its markets can be.
Fetch(event) ==
    /\ Len(bGroups) < MaxGroups
    /\ Listed(event) # << >>
    /\ bGroups' = Append(bGroups, GroupOf(event, bBooks))
    /\ bBooks' = IF event.venue = "polymarket" THEN Min({MaxBooks, bBooks + 2 * Len(Listed(event))}) ELSE bBooks
    /\ UNCHANGED bFound

\* cmd_arb scans what it has fetched.
ScanGroups ==
    /\ bGroups # << >>
    /\ bFound' = ScanOf(bGroups)
    /\ UNCHANGED <<bGroups, bBooks>>

BasketsInit == bGroups = << >> /\ bBooks = 0 /\ bFound = {}
BasketsNext == (\E event \in Events : Fetch(event)) \/ ScanGroups
BasketsSpec == BasketsInit /\ [][BasketsNext]_bVars

-----------------------------------------------------------------------------

\* What the legs pay when these contracts of the group resolve YES.
Payoff(o, resolved) ==
    o.contracts * 100 * 1000 *
        Cardinality({k \in DOMAIN o.legs : (o.legs[k].side = "yes") = (o.legs[k].market \in resolved)})

\* What may happen as far as the group's flag and the evidence go; the sell side and the
\* complement are to pay even when nothing that is listed happens.
Worlds(o) ==
    {resolved \in SUBSET DOMAIN o.group.contracts :
        /\ o.group.exclusive => Cardinality(resolved) <= 1
        /\ o.kind = "basket_buy" /\ IsExhaustive(o.group) => resolved # {}}

\* A trade that is called locked pays what it says in every world its group admits, for
\* more than its cost and fees and within the budget: arithmetic, not a forecast.
\* Code: the three checks, depth_to and _capped_contracts, the fee models.
LockedPaysWhatItSays ==
    \A o \in bFound : o.locked =>
        /\ Net(o) >= MinEdge /\ o.cost <= Budget * 1000
        /\ \A resolved \in Worlds(o) : Payoff(o, resolved) >= o.pays

\* Whether "the payoff is locked by arithmetic, or depends on an assumption that has not
\* been verified": so a locked trade pays in everything that may really happen.  A pair
\* whose asks are near a dollar, or a line with a bucket left out, need not.
LockedPaysWhateverHappens ==
    \A o \in bFound : o.locked =>
        \A happens \in o.group.event.may :
            LET at == Listed(o.group.event)
                resolved == {i \in DOMAIN at : at[i].title \in happens}
            IN  Payoff(o, resolved) >= o.pays
=============================================================================
