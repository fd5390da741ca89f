------------------------------ MODULE BookWalk ------------------------------
(***************************************************************************)
(* What an order can take from one side of a book.  Levels are a sequence  *)
(* of [price, size], best first, already cut to the levels the caller      *)
(* walks.  Sizes are counted in units that a share of CapNum in CapDen of  *)
(* a level comes out whole in; a quotient is a pair <<n, d>>.              *)
(***************************************************************************)
EXTENDS Integers, Sequences, SequencesExt

CONSTANTS CapNum, CapDen   \* consumption_cap: the share of a level one may take

ASSUME WalkAssumption == CapNum \in Nat \ {0} /\ CapDen \in Nat \ {0} /\ CapNum <= CapDen

Available(level) == (level.size * CapNum) \div CapDen

Smaller(a, b) == IF a < b THEN a ELSE b

Walked(w) ==
    [filled |-> w.filled, notional |-> w.notional, levels |-> w.levels,
     exhausted |-> w.left > 0 \/ w.levels = 0]

\* One level: as much of what is left as one may take there.
TakeLevel(w, level) ==
    LET take == Smaller(w.left, Available(level))
    IN  [left |-> w.left - take, filled |-> w.filled + take,
         notional |-> w.notional + take * level.price,
         levels |-> w.levels + IF take > 0 THEN 1 ELSE 0]

\* Take a quantity of base: what is filled, what it is worth, what is left over.
WalkBook(levels, quantity) ==
    LET walk[k \in 0 .. Len(levels)] ==
            IF k = 0 THEN [left |-> quantity, filled |-> 0, notional |-> 0, levels |-> 0]
            ELSE TakeLevel(walk[k - 1], levels[k])
    IN  Walked(walk[IF quantity > 0 THEN Len(levels) ELSE 0])

\* One level: all of it, or what the money left buys there.
SpendLevel(w, level) ==
    LET worth == Available(level) * level.price
    IN  CASE w.left = 0 -> w
          [] worth <= w.left /\ w.left > 0 ->
               [w EXCEPT !.left = @ - worth, !.filled = <<@[1] + Available(level), 1>>,
                         !.notional = @ + worth, !.levels = @ + IF worth > 0 THEN 1 ELSE 0]
          [] OTHER ->
               [left |-> 0, filled |-> <<w.filled[1] * level.price + w.left, level.price>>,
                notional |-> w.notional + w.left, levels |-> w.levels + 1]

\* Spend an amount of quote: the level where the money runs out gives a quotient.
WalkForNotional(levels, amount) ==
    LET walk[k \in 0 .. Len(levels)] ==
            IF k = 0 THEN [left |-> amount, filled |-> <<0, 1>>, notional |-> 0, levels |-> 0]
            ELSE SpendLevel(walk[k - 1], levels[k])
    IN  Walked(walk[IF amount > 0 THEN Len(levels) ELSE 0])

\* The sides of a book: best price first.
Quotes == [price : Nat \ {0}, size : Nat]
BidSide(levels) ==
    levels \in Seq(Quotes) /\ \A i, j \in DOMAIN levels : i <= j => levels[i].price >= levels[j].price
AskSide(levels) ==
    levels \in Seq(Quotes) /\ \A i, j \in DOMAIN levels : i <= j => levels[i].price <= levels[j].price
=============================================================================
