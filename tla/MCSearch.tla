------------------------------ MODULE MCSearch ------------------------------
(***************************************************************************)
(* From books to a plan: the graph's prices, the search over a graph, and  *)
(* the sizing of what it finds.  They are moved one at a time, as a unit;  *)
(* what the search assumes of prices, that a round trip never gains, is    *)
(* what the graph is checked for.                                          *)
(***************************************************************************)
EXTENDS CurrencyGraph, CycleSearch, CyclePlanning

CONSTANT SearchUnits

VARIABLE unit

vars == <<unit, gVars, csVars, plVars>>

Init ==
  /\ unit \in SearchUnits
  /\ GraphInit /\ (unit # "graph" => gBook = [i \in Places |-> CHOOSE b \in GraphBooks : TRUE])
  /\ CsInit /\ (unit # "search" => csMood = [i \in DOMAIN Pairs |-> CHOOSE m \in Moods[i] : TRUE])
  /\ PlInit /\ (unit # "planning" => plBook = [p \in DOMAIN Specs |-> CHOOSE b \in PlanBooks[p] : TRUE])

Next ==
  /\ UNCHANGED unit
  /\ \/ unit = "graph" /\ GraphNext /\ UNCHANGED <<csVars, plVars>>
     \/ unit = "search" /\ CsNext /\ UNCHANGED <<gVars, plVars>>
     \/ unit = "planning" /\ PlNext /\ UNCHANGED <<gVars, csVars>>

Spec == Init /\ [][Next]_vars

-----------------------------------------------------------------------------

Symbol(b, q, v) == [base |-> b, quote |-> q, venue |-> v]
Level(p, s) == [price |-> p, size |-> s]
Book(bids, asks) == [ready |-> TRUE, bids |-> bids, asks |-> asks]

MCSymbols == <<Symbol("E", "B", "v"), Symbol("B", "U", "v")>>
\* Not seen yet, deep, thin on one side, walked over two levels, crossed, one-sided.
MCGraphBooks ==
  {[ready |-> FALSE, bids |-> << >>, asks |-> << >>],
   Book(<<Level(4, 40)>>, <<Level(5, 40)>>), Book(<<Level(4, 2), Level(2, 40)>>, <<Level(5, 2), Level(8, 40)>>),
   Book(<<Level(4, 2)>>, <<Level(5, 40)>>), Book(<<Level(5, 40)>>, <<Level(4, 40)>>),
   Book(<< >>, <<Level(5, 40)>>)}

Price(buy, sell) == [buy |-> buy, sell |-> sell, usable |-> {"buy", "sell"}]
Fair == Price(-1, -1)
Dear == Price(-6, 3)     \* the base is worth more here than elsewhere
Cheap == Price(3, -6)
Gone == [Fair EXCEPT !.usable = {}]       \* stale, crossed or not there
Thin == [Cheap EXCEPT !.usable = {"buy"}] \* too thin a bid side

MCPairs == <<Symbol("B", "U", "v"), Symbol("E", "B", "v"), Symbol("E", "U", "v"),
             Symbol("D", "U", "v"), Symbol("D", "E", "v"), Symbol("B", "U", "w")>>
MCMoods == <<{Fair, Cheap}, {Fair, Gone}, {Fair, Dear, Cheap}, {Fair}, {Fair, Thin}, {Gone, Cheap}>>
MCStart == <<"U", "B">>

Leg(pair, side, from, to) == [pair |-> pair, side |-> side, from |-> from, to |-> to]
\* Around U, B and E both ways, and over two venues that quote B.
MCOpportunities ==
  {<<Leg("BU", "buy", "U", "B"), Leg("EB", "buy", "B", "E"), Leg("EU", "sell", "E", "U")>>,
   <<Leg("EU", "buy", "U", "E"), Leg("EB", "sell", "E", "B"), Leg("BU", "sell", "B", "U")>>}
MCPlanBooks ==
  [BU |-> {Book(<<Level(9, 200)>>, <<Level(10, 200)>>), Book(<<Level(12, 20), Level(8, 200)>>, <<Level(14, 200)>>),
           Book(<<Level(9, 20)>>, <<Level(10, 20), Level(13, 60)>>)},
   EB |-> {Book(<<Level(3, 400)>>, <<Level(4, 400)>>), Book(<<Level(1, 8), Level(1, 30)>>, <<Level(2, 24), Level(3, 400)>>),
           [ready |-> FALSE, bids |-> << >>, asks |-> << >>]},
   EU |-> {Book(<<Level(36, 100)>>, <<Level(38, 100)>>), Book(<<Level(50, 20), Level(40, 20)>>, <<Level(52, 10)>>),
           Book(<< >>, <<Level(20, 100)>>)}]
MCSpecs ==
  [BU |-> [lot |-> 2, tick |-> 1, minQuantity |-> 2, maxQuantity |-> 0, minNotional |-> 20],
   EB |-> [lot |-> 3, tick |-> 1, minQuantity |-> 0, maxQuantity |-> 60, minNotional |-> 0],
   EU |-> [lot |-> 1, tick |-> 1, minQuantity |-> 0, maxQuantity |-> 0, minNotional |-> 30]]
MCFractions == <<95, 70, 50, 30>>
MCLadder == <<[min |-> 0, maker |-> 100, taker |-> 200], [min |-> 500, maker |-> 0, taker |-> 100]>>
=============================================================================
