------------------------------- MODULE Ledger -------------------------------
(***************************************************************************)
(* The double-entry ledger (portfolio/ledger.py): entries with their       *)
(* truncation, balances in all and per venue, FIFO lots, the attribution   *)
(* of a cycle's result, and the two integrity checks.  Amounts are small   *)
(* integers; a price is the notional of one unit.                          *)
(***************************************************************************)
EXTENDS Integers, FiniteSets, SequencesExt

CONSTANTS LedgerAssets, BaseCurrency,
          CycleSet,      \* finished cycles: [fills, committed, partial, start, expected, pnl,
                         \* lost]; a fill: [venue, side, base, quote, qty, price, fee, feeAsset]
          LedgerVenues,
          MarkPrices,    \* asset -> units of the base currency, for marking
          MaxEntries,    \* entries kept in memory (200 000 in the code)
          MaxCycles      \* bound on the cycles recorded

ASSUME LedgerAssumption ==
  /\ BaseCurrency \in LedgerAssets
  /\ MaxEntries \in Nat \ {0, 1} /\ MaxCycles \in Nat

VARIABLES ledEntries,   \* the entries in memory: [asset, amount, type]
          ledBalance,   \* asset -> amount
          ledVenue,     \* venue -> asset -> amount
          ledLots,      \* asset -> FIFO sequence of [qty, cost]
          ledPnl,       \* realized_pnl
          ledBreakdown, \* PnLBreakdown
          ledFees,      \* [fees, rebates]: total_fees, total_rebates
          ledCycles,    \* cycles_recorded
          ledRecorded,  \* every fill recorded, and what was deposited (history)
          ledDeposit

ledVars == <<ledEntries, ledBalance, ledVenue, ledLots, ledPnl, ledBreakdown, ledFees,
             ledCycles, ledRecorded, ledDeposit>>

Zero == [a \in LedgerAssets |-> 0]

\* post: one entry; beyond the limit only the newest half of the limit stays.
Posted(entries, e) ==
  LET all == Append(entries, e)
      keep == MaxEntries \div 2
  IN  IF Len(all) > MaxEntries THEN SubSeq(all, Len(all) - keep + 1, Len(all)) ELSE all

Add(balance, e) == [balance EXCEPT ![e.asset] = @ + e.amount]

Entry(a, n, t) == [asset |-> a, amount |-> n, type |-> t]

\* Mutant of EntriesOf: a rebate is debited like a fee.
EntriesDebitRebate(f) ==
  LET notional == f.price * f.qty
      trade == IF f.side = "buy"
               THEN <<Entry(f.quote, -notional, "trade"), Entry(f.base, f.qty, "trade")>>
               ELSE <<Entry(f.base, -f.qty, "trade"), Entry(f.quote, notional, "trade")>>
  IN  Append(trade, Entry(f.feeAsset, IF f.fee < 0 THEN f.fee ELSE -f.fee, "fee"))

\* record_fill: what it debits, what it credits, and the fee when there is one.
EntriesOf(f) ==
  LET notional == f.price * f.qty
      trade == IF f.side = "buy"
               THEN <<Entry(f.quote, -notional, "trade"), Entry(f.base, f.qty, "trade")>>
               ELSE <<Entry(f.base, -f.qty, "trade"), Entry(f.quote, notional, "trade")>>
  IN  IF f.fee = 0 THEN trade
      ELSE Append(trade, Entry(f.feeAsset, -f.fee, IF f.fee < 0 THEN "rebate" ELSE "fee"))

\* A sale eats the oldest lots of the base; a buy opens one.  The quote's lots, and
\* the fee, are left alone.
Consume(lots, qty) ==
  LET before(i) == FoldSeq(LAMBDA l, n : l.qty + n, 0, SubSeq(lots, 1, i))
      left == [i \in DOMAIN lots |->
                 [lots[i] EXCEPT !.qty =
                    IF before(i) <= qty THEN 0
                    ELSE IF before(i - 1) >= qty THEN @ ELSE before(i) - qty]]
  IN  SelectSeq(left, LAMBDA l : l.qty > 0)

UpdateLots(lots, f) ==
  [lots EXCEPT ![f.base] =
     IF f.side = "buy" THEN Append(@, [qty |-> f.qty, cost |-> f.price]) ELSE Consume(@, f.qty)]

\* The books after the fills of a cycle, one fill after the other.
Books == [entries |-> ledEntries, balance |-> ledBalance, venue |-> ledVenue,
          lots |-> ledLots, fees |-> ledFees]

RecordFill(b, f) ==
  LET es == EntriesOf(f) IN
  [entries |-> FoldLeft(Posted, b.entries, es),
   balance |-> FoldLeft(Add, b.balance, es),
   venue   |-> [b.venue EXCEPT ![f.venue] = FoldLeft(Add, @, es)],
   lots    |-> UpdateLots(b.lots, f),
   fees    |-> [paid |-> b.fees.paid + (IF f.fee > 0 THEN f.fee ELSE 0),
                earned |-> b.fees.earned + (IF f.fee < 0 THEN -f.fee ELSE 0)]]

Positive(n) == IF n > 0 THEN n ELSE 0

\* What record_cycle attributes a committed cycle's result to.
Attribute(d, c) ==
  LET expected == c.expected - c.start
      total_fees == FoldSeq(LAMBDA f, n : f.fee + n, 0, c.fills)
  IN  [gross_spread |-> d.gross_spread + expected + total_fees,
       slippage     |-> d.slippage + Positive(expected - c.pnl),
       quantization |-> d.quantization + c.lost,
       unwind_cost  |-> d.unwind_cost + IF c.partial THEN Positive(-c.pnl) ELSE 0,
       total        |-> d.total + c.pnl]

LedInit ==
  /\ ledEntries = <<>> /\ ledBalance = Zero
  /\ ledVenue = [v \in LedgerVenues |-> Zero]
  /\ ledLots = [a \in LedgerAssets |-> <<>>]
  /\ ledPnl = 0 /\ ledFees = [paid |-> 0, earned |-> 0]
  /\ ledBreakdown = [gross_spread |-> 0, slippage |-> 0, quantization |-> 0,
                     unwind_cost |-> 0, total |-> 0]
  /\ ledCycles = 0 /\ ledRecorded = <<>> /\ ledDeposit = 0

\* The engine's start deposits the capital, on no venue.
Deposit(n) ==
  /\ ledEntries = <<>> /\ ledDeposit = 0
  /\ ledDeposit' = n
  /\ ledEntries' = Posted(ledEntries, Entry(BaseCurrency, n, "deposit"))
  /\ ledBalance' = Add(ledBalance, Entry(BaseCurrency, n, "deposit"))
  /\ UNCHANGED <<ledVenue, ledLots, ledPnl, ledBreakdown, ledFees, ledCycles, ledRecorded>>

RecordCycle(c) ==
  /\ ledDeposit > 0 /\ ledCycles < MaxCycles
  /\ ledCycles' = ledCycles + 1
  /\ ledRecorded' = ledRecorded \o c.fills
  /\ LET b == FoldLeft(RecordFill, Books, c.fills) IN
     /\ ledEntries' = b.entries /\ ledBalance' = b.balance /\ ledVenue' = b.venue
     /\ ledLots' = b.lots /\ ledFees' = b.fees
  /\ ledPnl' = ledPnl + IF c.committed THEN c.pnl ELSE 0
  /\ ledBreakdown' = IF c.committed THEN Attribute(ledBreakdown, c) ELSE ledBreakdown
  /\ UNCHANGED ledDeposit

LedNext == \/ \E n \in 1..2 : Deposit(10 * n)
           \/ \E c \in CycleSet : RecordCycle(c)

-----------------------------------------------------------------------------

\* equity: an asset without a price counts for nothing; prices: asset -> base units.
Equity(prices) ==
  FoldSet(LAMBDA a, n : n + ledBalance[a] * (IF a = BaseCurrency THEN 1 ELSE prices[a]),
          0, {a \in LedgerAssets : a = BaseCurrency \/ a \in DOMAIN prices})

\* verify_balanced: the trade entries in memory, marked at today's prices, cancel out.
VerifyBalanced(prices) ==
  0 = FoldSeq(LAMBDA e, n : n + e.amount * (IF e.asset = BaseCurrency THEN 1
                                            ELSE IF e.asset \in DOMAIN prices THEN prices[e.asset] ELSE 0),
              0, SelectSeq(ledEntries, LAMBDA e : e.type = "trade"))

\* reconcile: the assets whose venue balance differs; it raises when some deviation,
\* relative to the larger side, exceeds the tolerance in parts per Scale.
Divergences(external) == {a \in LedgerAssets : external[a] # ledBalance[a]}

\* Mutant of Magnitude: the sign of a divergence is kept.
Signed(n) == n

Magnitude(n) == IF n < 0 THEN -n ELSE n

Reconcile(external, tolerance, Scale) ==
  LET breached(a) ==
        LET ref == Max({Magnitude(external[a]), Magnitude(ledBalance[a])}) IN
        ref > 0 /\ Magnitude(external[a] - ledBalance[a]) * Scale > tolerance * ref
  IN  IF \E a \in Divergences(external) : breached(a) THEN "raises" ELSE "agrees"

Residual(d) ==
  d.total - (d.gross_spread - ledFees.paid + ledFees.earned - d.slippage - d.quantization - d.unwind_cost)

\* What one asset gained through the recorded fills, read off each fill by itself: it
\* is received as what the side buys, given as what it pays, and lost as the fee.
Gained(f, a) ==
  (IF a = f.base THEN (IF f.side = "buy" THEN f.qty ELSE -f.qty) ELSE 0)
  + (IF a = f.quote THEN (IF f.side = "buy" THEN -f.qty * f.price ELSE f.qty * f.price) ELSE 0)
  - (IF a = f.feeAsset THEN f.fee ELSE 0)

\* What the ledger believes is held is the deposit and what the recorded fills moved,
\* fee and rebate included, in all and per venue, however many entries were dropped
\* from memory since.  Code: post's running balances against its truncation.
BalancesOutliveEntries ==
  ledDeposit > 0 =>
  \A a \in LedgerAssets :
    LET gained(fs) == FoldSeq(LAMBDA f, n : n + Gained(f, a), 0, fs) IN
    /\ ledBalance[a] = gained(ledRecorded) + IF a = BaseCurrency THEN ledDeposit ELSE 0
    /\ \A v \in LedgerVenues :
         ledVenue[v][a] = gained(SelectSeq(ledRecorded, LAMBDA f : f.venue = v))

\* A venue that saw one fill more, or one less, than the ledger never reconciles, and
\* one that saw the same fills does.  Code: reconcile's tolerance on both signs.
MissedFillIsReported ==
  ledDeposit > 0 =>
  LET seen(f, n) == [a \in LedgerAssets |-> ledBalance[a] + n * Gained(f, a)] IN
  /\ Reconcile(ledBalance, 5, 10000) = "agrees"
  /\ \A c \in CycleSet : \A i \in DOMAIN c.fills : \A n \in {-1, 1} :
       Reconcile(seen(c.fills[i], n), 5, 10000) = "raises"

\* The components of the breakdown add up to its total (PnLBreakdown's promise).
AttributionAddsUp == Residual(ledBreakdown) = 0

\* The FIFO lots of an asset hold no more than the ledger's balance of it.
LotsAreHeld ==
  \A a \in LedgerAssets \ {BaseCurrency} :
    FoldSeq(LAMBDA l, n : l.qty + n, 0, ledLots[a]) <= Positive(ledBalance[a])

\* The trade entries of a ledger whose fills all happened at the marking prices cancel
\* (the module's invariant; verify_balanced sees the entries in memory only).
LedgerVerifies == VerifyBalanced(MarkPrices)
=============================================================================
