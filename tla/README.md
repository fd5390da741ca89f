# Verification of triangulum

TLA+ specifications of the stateful core of this repository, the TLC runs that
check them on small instances, and TLAPS proofs of what matters most for every
value of the constants. `PROJECT.json` lists the same things for tools: which
definition stands for which lines of the source, what each run checks, which
change of the code each property would catch.

## The system

`triangulum` looks for cycles of currency conversions that return more than they
start with, and executes them on one or more venues. `vault` is a separate
forecasting package in the same repository. One asyncio event loop runs the
engine; the dashboard's HTTP server answers on threads of its own.

| component | state it keeps | operations | talks to |
|---|---|---|---|
| cycle executor (`execution/executor.py`) | `ExecutionContext` of each running cycle | `execute`: leg loop, re-size, taker or post-only leg, `_finalize` | adapter, unwinder, clock |
| unwinder (`execution/unwinder.py`) | position being closed, attempts | `unwind`, `_find_path`, `_execute_hop` | graph, adapter |
| adapters (`exchanges/*.py`) | open orders, balances; the simulator also resting orders | `submit`, `cancel`, `fetch_order`, `cancel_all`, `step_resting` | venue, books |
| engine (`engine.py`) | tasks, last scan, equity curve | `start`, `stop`, scan loop, `_consider`, `_settle`, maker loop | everything |
| guardrails (`risk/guardrails.py`) | kill switch, streak, slots, equity marks, order and cycle times | `check_all`, the two hooks, engage and release | engine, dashboard threads |
| ledger (`portfolio/ledger.py`) | entries, balances, lots | `record_cycle`, `equity`, `verify_balanced`, `reconcile` | engine |
| books and feeds (`marketdata/*.py`) | price levels, sequence, quarantine, connection | snapshot, delta, checksum, reconnect | adapters, graph |
| event bus (`core/eventbus.py`) | bounded mailboxes, match cache | publish, subscribe, listen, close | everyone |
| rate limits (`exchanges/ratelimit.py`) | tokens, windows, penalties | acquire, penalise, back off | adapters |
| graph (`graph/*.py`) | priced edges, cycle templates | build, enumerate, price, Bellman-Ford | books, strategy |
| strategy, sizing, planning (`strategy/`, `execution/sizing.py`, `leg_planner.py`, `fees.py`) | cooldowns, 30-day volume | scan, plan, size, fee of a leg | graph, engine |
| learning (`learning/*.py`) | fill, slippage and calibration models, arms, drift windows | evaluate, observe, select, checkpoint | engine, model store |
| model store, recorder (`learning/store.py`, `marketdata/recorder.py`) | files | save, load, prune; write, flush, rotate | command line |
| session (`cli/main.py`, `wiring.py`, `risk/live_arming.py`, `exchanges/registry.py`) | locks on live trading, the running stack | commands, build, shutdown | everything |
| dashboard, assistant (`api/server.py`, `claude/mcp_server.py`) | connections | commands, snapshots | guardrails |
| vault: journal, resolver (`vault/thesis`, `vault/resolve`) | hash-chained file, caches | add, resolve, verify | server, command line |
| vault: gate (`vault/calibration`, `resolve/scoring.py`, `thesis/gate.py`) | the record | recalibrate, score, evaluate | journal |
| vault: markets (`vault/markets`) | groups and books fetched | scan, infer exhaustiveness, size | venues |
| vault: learning pass, server (`vault/nn`, `vault/hud`, `pipeline.py`) | dataset, blend, lock | build, split, train, predict, run | all of the vault |

What is hard, and what makes each part correct:

* **A cycle holds other people's time.** Every leg is an await during which the
  venue, the clock, the maker loop and `Engine.stop` move. Correct means that the
  outcome the cycle reports is true of the account: an abort moved nothing, a
  closed cycle holds nothing, a stuck one names what it holds, and the ledger gets
  every fill.
* **Orders outlive calls.** A call may fail with the order out there, an order may
  fill after its watcher has left, a status may say less than the quantities.
  Correct means one live order per leg and no money that is not there.
* **Unwinding is retried trading.** Several hops, several attempts, partial sales,
  a budget that may be gone. Correct means that it ends and accounts for what it
  sold.
* **A halt races the scan.** The dashboard's threads engage the kill switch while
  the scan task is between a check and a start. Correct means that a halt stops
  what it says it stops, and a stuck position stays halted.
* **Limits are counters with two ends.** Slots, streaks and rates are raised in one
  place and lowered in another, over paths that fail. Correct means that every path
  balances and the breakers overshoot by one cycle at most.
* **Adapters speak for the venue.** Six adapters answer the same three questions
  from different replies. Correct means that an order reported finished is finished,
  and with the fill it really had.
* **A book is only as good as its last gap.** Lost events, late snapshots, ended
  sockets. Correct means that what may be traded on is a book the venue has had,
  and that a book which was given up has been asked for.
* **What is searched must be there.** Templates are old, prices new, roundings many.
  Correct means that an offered cycle can be traded as it stands, none that pays is
  missed, and a plan's projection is a lower bound.
* **Learning decides what is learned from.** A gate that refuses gets no samples.
  Correct means that a cold start is left and windows hold what they say.
* **Files outlive processes.** Checkpoints, recordings and the journal are written a
  step at a time by processes that crash, and by two of them at once. Correct means
  that what is read back was written, in order, or is reported as broken.
* **A forecast must not know its outcome.** Verdicts over prices that come late,
  folds over series that grow. Correct means that when a thing is looked at makes no
  difference to what is concluded.

## Modules

| module | stands for |
|---|---|
| `CycleExecution` | one cycle: executor, unwinder, adapter's view of an order, venue |
| `CyclePromise` | what a caller relies on: the four outcomes as statements about the account |
| `MCCycleExecution` | its instances for TLC |
| `CycleExecution_proofs` | its types, one order per leg, nothing but a requeue begun late, outcomes true of the account, `CyclePromise` implemented: proved |
| `Guardrails` | the risk limits: their state, the gate, the hooks, the kill switch |
| `TradingEngine` | extends `Guardrails`: scan task, settlement, marks, operator, assistant |
| `MCTradingEngine` | its instances for TLC |
| `TradingEngine_proofs` | the engine's safety properties, proved |
| `OrderBook` | one order book and the book manager's record of its health |
| `BookFeed` | extends `OrderBook`: venue, lossy stream, snapshot tasks, stream handlers |
| `MCBookFeed` | its instances for TLC, and `book_false_gap` |
| `BookFeed_proofs` | a tradeable book is true, Binance's sequence is true: proved |
| `Inductions` | least numbers, induction over an interval, what a loop computes, sums and joins: lemmas |
| `Sums` | the sum and the join of a sequence |
| `VenueOrders` | one order at each of the six live venues: entry, look-up, cancel, lost requests, unreadable replies; `MCVenueOrders` |
| `MCVenues` | the two sides of an adapter, its book and its order, for one run of TLC; `side` chooses |
| `VenueOrders_proofs` | what a finished and a refused order are worth: proved |
| `EventBus`, `WeightedLimiter`, `TokenBucket`, `Ledger`, `ModelStore`, `Recorder`, `Session` | the services around the core; `MCServices` moves one at a time |
| `Services_proofs` | a session's locks, a bucket's bursts, mailboxes, checkpoints, a limiter's windows, recordings: proved |
| `BookWalk`, `CurrencyGraph`, `CycleSearch`, `CyclePlanning` | from books to a plan; `MCSearch` |
| `Strategy_proofs` | edges, plans, offers, none missed, and ADWIN's window: proved |
| `LearnedGate`, `DriftWatch`, `Bandit` | what the engine learns; `MCLearning` |
| `ThesisJournal`, `Grading`, `VaultCycle`, `CapitalGate`, `Baskets`, `WalkForward` | the vault; `MCVault` |
| `Vault_proofs` | one line of calls, verdicts, intact journals, folds, pools, locked trades: proved |

### CycleExecution

`pc` is the await the executor is at; a step is the code between two awaits, so
every other actor may move at each of them and nowhere else. `ctx` is
`ExecutionContext`, `recorded` what its fills add up to, `uw` the locals of
`Unwinder.unwind`, `result` the `ExecutionResult`. `working` is the order the
executor awaits as the venue has it, `stray` the orders it stopped watching,
`hold` what the account really has: comparing `recorded` with `hold` is comparing
the ledger with the venue.

Amounts are whole lots of one value, without fees: what a cycle earns is not the
question. What prices do to sizes is. The route of an unwind is any simple path of up to
`MaxHops` hops over the assets of the cycle and `OtherAssets` of the graph; a pair in
`BuyHops` has its market quoted in the asset that is sold, so the order is sized for a
price worse than the touch by a step of 1/`Grain` per attempt and leaves what it saved.
Such a hop's remainder is an amount of quote that the code compares with a lot step of the
base (`unwinder.py:202-210`): `QuoteDust` is what that lot is taken for in the quote, and
may be none of it, a lot, or several. `ThinBooks` brings partial fills and
cut-down sizes, `LostAnswers` calls that fail with the order out there,
`Stoppable` the engine's stop, and `Adapter` selects how an order's end is
reported: the simulator, OKX and Binance differ in the status of a partly filled
IOC order, in what `fetch_order` finds, and in what `cancel` returns.

A post-only order at its deadline is two steps: the executor decides to cancel
(`MakerDeadline`), and the cancel is answered (`MakerCancelled`). A fill may land
between them on a live venue; the simulator cancels without yielding, so nothing
trades while `pc = "cancel"` there. A requeue is two steps as well: the check of the
budget and the request to cancel (`Recancel`), then, the cancel answered, the new order
(`Requeue`, `pc = "recancel"` between them). The budget may run out in between.

`CyclePromise` has no amounts: outside the start asset there is nothing, dust or capital.
The refinement mapping (`Outside`) calls dust what is, in each asset, no more than the
unwinder writes off on a hop, a lot or the lot step taken for quote.

The sleep between two attempts of an unwind is not a step of its own: nothing the
executor holds changes there, and a cancellation during it is `Cancelled` at `pc =
"unwind"`. What each of the live adapters does with one order is `VenueOrders`.

### Guardrails and TradingEngine

`Guardrails` keeps `RiskGuardrails`' fields: `engaged` and `reason` (by kind),
`losses`, `inFlight`, the three equity marks, and `recent`, the cycles of the last
minute with the orders each has really sent; its length times `Legs` is what the
order-rate limit sees. `TradingEngine` adds the scan task (`task`, `queue`), what
the ledger holds of an intermediate asset, whether a position is stuck, and two
history variables used by properties only.

The scan task is synchronous between awaits, but operator commands come from
server threads, so `Pass` (the check) and `StartCycle` are two steps. A cycle is
one await; its end chooses an outcome, a profit within `CycleLoss` and `CycleGain`,
and how many orders it sent. `CycleRaises` is the exception `HopRaises` of
`CycleExecution` lets out. A plan's own checks (edge, notional) are the choice of
`Drop`. A released position (`stuck = "known"`) is the operator's.

### OrderBook and BookFeed

A level is a side and a price. What the book holds there is the number of the
venue's update that set its size, so equal stamps stand for equal sizes and equal
tops for equal checksums. `book` is `OrderBook` (levels, sequence, `_initialized`,
update count), `quarantined` and `fresh` the book manager's clocks as flags that may
change at any time, `Tradeable` is `is_tradeable`. Sizes are not compared, so
`_resolve_cross` may take either side's level at each of its peels, of which there are
`MaxPeel` (5 in the code, 1 in the run, so that a cross deeper than that happens).

`truth` is the venue's own history and belongs to no code; `wire` is the socket,
`rest` the snapshot tasks, each of which is asked, answered by the venue and only
then applied. Handlers run between two awaits and are one step. `adapter` says whose
handler it is: Binance buffers and replays (`synced`, `buffer`, `lastId` are
`_synced`, `_buffered`, `_last_update_id`), OKX has previous sequence and checksum,
Kraken a checksum only, the generic adapter neither. Kraken's handler takes one of the two
payloads of an update of both sides, and Kraken and OKX let a message without a checksum
pass; `unproven` is that the book took such a message since the last one it was checked
against. The book keeps `MaxDepth` levels a side and cuts the rest every `TruncateEvery`
updates (20 and 64 in the code). A quarantine (2 s) is longer
than the freshness budget (250 ms), so an update from before it is stale after it:
`Refuse` ends the freshness at once.

### VenueOrders

`voOrder` is the order as the venue has it, `voHeld` as the caller has it, `voHand` as
the call at work has it; the difference between the first two is what the properties
are about. A call is a sequence of requests (`voAt`), each of which may be lost on the
way, lost on the way back, or answered; `voLeft` counts the repetitions
`HttpClient.request` still makes. `TimesOut` is the executor's `wait_for`, which may
leave the entry on its way (`voTransit`). The reply maps (`BinanceReports` and its
like), the answers to an entry (`OkxSubmitted` ...) and to a cancel (`OkxCut` ...) are
one operator per adapter. A reply may be garbled, that is a server error or no JSON
(`http.py:151`, `181`): the adapters take it for the venue's word, a refusal of the entry or
the end of the order, whatever became of it, and `voAssumed` remembers that they did. Kraken refuses a repeated request that did arrive, because
its nonce has been used; that, and the lapse of a resting order, are the venue's.

### Services

Each module has the state of one class, renamed with a prefix so that they can be
declared side by side; they share nothing in the code. `MCServices` lets `unit` choose
one and rests the others. `EventBus`: an event is its place in the log; mailboxes, the
match cache and the listener tasks are as in the code. `WeightedLimiter` and
`TokenBucket` keep time as ages and countdowns, so that their state is finite and
their behaviours are not; the lock is a queue whose head may be asleep. A caller of the
bucket asks for any amount in `TbRequests`, checked once against the capacity of that moment.
`Ledger`: entries with truncation, running balances per venue, lots, the two integrity
checks. `ModelStore` is a file operation at a time, with a crash after any and the
next process's load; `Recorder` the same for the partial files of an hour. `Session`
is a command from its start to its shutdown, with the operator changing configuration,
environment and acknowledgment file in between, and asks which adapters end up real.

### Search

`CurrencyGraph` prices two edges a symbol with exact quotients over walked levels
(`BookWalk`). `CycleSearch` works with logarithms: a rate is a whole gain, so a cycle's
product is a sum; its loops (paths an edge longer, passes over the edges, the walk back
over predecessors, what is offered so far) are recursive functions, each the loop's
state after so many rounds. The enumerator stops at `MaxTemplates` (`csTruncated`), with the
cycles its walk finds first, by start asset and depth first over the edges.
Templates are made when the engine starts, prices are new in every
scan, Bellman-Ford runs beside, a cooldown is kept per key. `CyclePlanning` is the
rotation, the maker leg, the sizing pass onto the lot grid with fees and rebates, and
what the plan would really return if its orders filled (`Executed`).

### Learning

Weights and probabilities are small whole scores with one step per update: which way a
model moves, what is told to it and when, is the code's; how far is not kept.
`LearnedGate` decides on, explores, settles and learns from one opportunity at a time, of
the kinds a market has on offer (`lgOffered`), and may restart with any prefix of the three stored models. `DriftWatch` has ADWIN's
buckets, their one-pass compression, the cut, Page-Hinkley and the monitor's cooldown,
over every run of errors. `Bandit` has the arms, their copies per regime and what a
restart restores.

### Vault

`ThesisJournal`: the file is a sequence of lines, each scribe has its own copy of it,
hashes are injective. `Grading`: one call, a source that publishes late, a cache with
a time to live and a stale fallback, a resolver run on any day. `VaultCycle`: two
threads of the server, the lock only a run and a learning pass take, a cycle stage by
stage. `CapitalGate`: pooled-adjacent-violators and its correction, the scoreboard, the
gates and the size in whole percent; Platt's fit is left open. `Baskets`: venues'
groups, the evidence that one leg must pay, three checks, fees and depth, in
thousandths of a cent; the fee curves are those of `fees.py` as if they had been verified,
which none of them is, so with the repository's own models no trade is called locked.
`WalkForward`: the two series of a learning pass day by day, samples whose features are read
off the series as the code reads them, purged folds, what may be adopted; a score is left
open, what is done with it is not. Days are those that points are about: the code keeps no
publication dates in these series (`series.py:161-167`).

## Runs

Passing runs, with their bounds:

| run | bounds | shows |
|---|---|---|
| `cycle_thin` | 3 legs and an asset beside them, 6 lots, routes of 3 hops, 2 attempts, simulator, thin books | no order oversells, an abort moved nothing, what a closed cycle reports is held and recorded |
| `cycle_live` | post-only outer legs, one requeue, 2 lots, OKX, thin books, lost answers, stop | one order per leg, nothing but a requeue sent after the budget, the cycle ends |
| `cycle_promise` | 6 lots, orders fill whole, calls answer, a quote lot worth 2 of dust, the engine may stop | the executor implements `CyclePromise` |
| `engine_safe` | 2 slots, streak of 2, losses of 1 in 10, exceptions | halt, stuck, slots, losses, streak |
| `venues` | books: 4 prices, a book of 2 levels, 3 updates after the opening, 2 snapshot tasks, buffer of 2, four adapters; orders: 2 lots, 2 repetitions, six adapters, taker and maker | a tradeable book is true but for levels cut off, Binance's sequence is true, a given-up book has been asked for; a finished order is finished with the fill it is reported with; a refusal left nothing |
| `services` | 2 handlers, mailboxes of 2; 2 callers, 2 windows; 3 cycles, 4 entries; 2 models, 2 versions, 1 loss; 2 streams, 4 records, 1 fault; 2 venues, 2 sessions | newest events survive; no window or burst is exceeded and small requests are served through every back-off; checkpoints and recordings read back; real orders need two locks |
| `search` | 2 symbols priced, cycles of 3 and 4 legs over two venues, plans over three legs and every maker leg | no edge makes money of nothing, offers are real and spaced, none is missed short of the cap on templates, a projection is a lower bound |
| `learning` | 2 kinds of opportunity, scores to 2, 3 samples; ten errors; 2 arms, 3 regimes, 3 outcomes; one restart | the cold start is left where the marginal is worth it, ADWIN's window is the latest errors |
| `vault` | 2 scribes, 3 calls; horizon of 2 days; 2 threads; 7 resolved calls of 4 stated probabilities; 11 kinds of event; 7 days, 2 folds | the journal is as made or says so, verdicts are what became, cycles make one line of calls, pools are the fit, locked trades pay, folds know no future |

Three legs make a triangle: a first leg that aborts for free, a middle one that
re-sizes on a fill and unwinds over one to three hops, a last one that closes. Six
lots let a leg fill in part, its remainder be sold in part, a padded BUY hop leave lots
behind and a last lot remain; a route of three hops needs the asset outside the cycle.
Two attempts show a retry after a partial sale. On the engine's side two slots are
the least at which a leaked one is not at once a dead stop, and limits of 20% of 10
are reached after two losses. Three updates are one lost, one that shows the gap and
one that arrives while the snapshot is on its way. Four prices with three asks let a book of
two levels lose one by truncation and need it again when a better one goes, and let a
stale level cross a new one; a buffer of two can overflow. The generic adapter runs on
a stream that loses nothing, since it could not notice. An order of two lots fills in
part; two repetitions let a first answer be lost and a second meet an order already there.

For the services a mailbox of two with three events overflows once; a window's limit
is reached by two requests of two callers; four entries truncate in the middle of a
cycle; two models let a checkpoint be half done, two versions let the older be pruned;
a buffer of two with four records is flushed full and flushed by the timer, before and
after the hour; requests of one token and of two on a bucket that can shrink to one are served and
starved. Three books of a symbol include a crossed-over, a shallow and an old
one; cycles of four legs are the least that two templates of three can overlap in.
Ten errors are two and a half windows of ADWIN. Seven resolved calls pass both
thresholds of the recalibration; four probabilities let a pool be merged and stepped
back from; a horizon of two days has a day on which the stop can be touched before it.

`CHECK_DEADLOCK` is off everywhere: a cycle ends, the engine stops, and the venue's
updates are bounded.

Runs that find a disagreement between a document or comment and the code, one
property each (`findings` in `PROJECT.json` quotes both sides):

| run | violated | in short |
|---|---|---|
| `cycle_expired_unwind` | `ExpiryStartsClosing` | an expired budget also stops the unwind |
| `venue_contract` | `FateIsKnownOnReturn` | the generic adapter's `submit` returns with the order's fate unknown |
| `book_false_gap` | `IntactStreamIsAccepted` | OKX's resnapshot has no sequence, so the next update is refused as a gap |

Further disagreements. Each property is in its module; TLC refutes it under the
configuration named, with the property in place of the listed ones and the constants
changed as said.

| property | configuration | in short |
|---|---|---|
| `AbortMovesNothing` | `cycle_thin`, `Adapter = "okx"` | OKX's partly filled IOC is taken for unfilled |
| `AbortMovesNothing` | `cycle_thin`, `ThinBooks = FALSE`, `MakerLegs <- FirstLegMaker`, `MaxRequeues = 1` | the simulator's filled post-only order is reported open |
| `AbortMovesNothing` | `cycle_thin`, `Adapter = "binance"`, `LostAnswers = TRUE` | a live adapter's timeout is not a timeout to the executor |
| `OneOrderPerHop` | the same | an unwind resubmits although its order may have landed |
| `CompletedIsClosed` | `cycle_thin` | a partly filled leg leaves its rest in a completed cycle |
| `StuckNamesThePosition` | `cycle_thin` | the residual ignores what the unwind sold |
| `EveryCycleReconciles` | `cycle_thin` | the fills of a failed unwind are dropped |
| `UnwoundSellsThePosition` | `cycle_thin`, `QuoteDust = 2` | an amount of quote is compared with a lot step of the base, so more than a lot is written off as dust (`unwinder.py:202-210`) |
| `NothingSentAfterExpiry` (a PROPERTY) | `cycle_live` | a requeue awaits its cancel between the check of the budget and the next submit (`executor.py:368`, `371`, `349`) |
| `StopFlattens` | `cycle_thin`, `Stoppable = TRUE` | stop leaves the inventory of a running cycle |
| `StuckIsNamed` | `engine_safe` | the first halt's reason hides the stuck position |
| `LostHalts` | `engine_safe` | an exception in an unwind halts nothing |
| `EverySlotIsReturned` | `engine_safe` | an exception keeps its slot |
| `HaltStopsAll` | `engine_safe` | a plan past its check starts after the halt |
| `ExposureCapHolds` | `engine_safe`, `MaxAssetPct = 60`, `Price = 10` | the exposure cap compares units with money |
| `OrderRateHolds` | `engine_safe`, `MaxOrders = 6`, `ExtraOrders = 4` | requeues and unwind orders are not counted |
| `AssistantHaltHolds` (a PROPERTY) | `engine_safe` | the assistant's halt posts to a route nobody registered |
| `DivergenceHalts` (a PROPERTY) | `engine_safe`, `FairSpec` | reconciliation is never run |
| `KnownGapIsNotTraded` (a PROPERTY) | `venues`, without SYMMETRY, `Sides = {"books"}` | Binance's book stays tradeable after a gap until it ages |
| `IntactStreamIsAccepted` (a PROPERTY) | the same, `Adapters = {"okx"}`, `Lossy = {}`, `CheckDepth = 3`, `WalkDepth = 1` | OKX's checksum covers 25 levels of a book that keeps 20 by default |
| `KrakenIsChecked` | `venues`, `Sides = {"books"}`, `Adapters = {"kraken"}`, `Lossy = {}`, `Unreliable = FALSE` | of an update of both sides the payload with the checksum is dropped (`kraken.py:186`), and a missing checksum is no failed one (`book_manager.py:258`), although "the checksum path is not optional here" (`kraken.py:204-205`) |
| `CrossesAreAskedFor` | `venues`, `Sides = {"books"}`, `Adapters = Lossy = {"kraken"}` | a book crossed too deep is de-initialized, "forcing a resnapshot" (`orderbook.py:308-309`); where the message had no checksum nothing asks for one |
| `TradeableIsTrue` | `venues`, `Sides = {"books"}`, `Adapters = Lossy = {"generic"}` | the generic adapter does not notice a lost event |
| `CancelledIsGone` | `venues`, `Sides = {"orders"}`, `Venues = {"binance"}` | a cancel takes every reply it cannot read, a server error among them, for "already gone" (`binance.py:437-441`, `http.py:151`, `181`); `alpaca.py:270-272` and `oanda_fx.py:362-364` do the same |
| `RefusedIsRefused` | the same | an entry answered so is a refused order, although it may rest at the venue (`binance.py:388-392`, `alpaca.py:230-232`, `generic.py:467-469`) |
| `ReportedEndTellsTheFill`, of every maker | `venues`, `Sides = {"orders"}` | the cancels of Binance, Kraken, Alpaca and OANDA report the fill of an older look-up |
| `ReportedEndIsReal`, of every adapter | the same | the generic adapter cancels without sending anything; an assumed end is none |
| `RefusedLeftNothing`, of every adapter | the same | Kraken repeats an entry; OANDA's limit orders rest although the answer is taken for a refusal |
| `BackoffStarvesNobody` (a PROPERTY) | `services`, `Units = {"bucket"}` | a request is checked against the capacity once (`ratelimit.py:60`); a back-off shrinks it (`253`), and the caller at the head waits for ever with the lock, although "waiters are served in arrival order" (`19-20`) |
| `CloseEndsListeners` (a PROPERTY) | `services` | a listener that waits is not woken by `close` |
| `AttributionAddsUp`, `LotsAreHeld`, `LedgerVerifies` | `services` | the breakdown's parts do not add up to its total; lots exceed the balance; `verify_balanced` sees the entries in memory only |
| `CrashKeepsACheckpoint`, `VersionsAreWrittenOnce` | `services` | `latest` is torn by a crash; a version number is used again after a rollback |
| `CrashCostsTheTail` | `services` | a compressed file without an end hides what was appended after it |
| `RealOrdersNeedThreeLocks` | `services` | the configuration's mode is overridden by the command |
| `CrossVenueIsAllowed` | `search` | Bellman-Ford's cycles over two venues are offered where they are not allowed |
| `DisjointCyclesAreFound` | `search` | Bellman-Ford returns fewer cycles than every disjoint one |
| `TemplatesAreComplete` | `search` | pairs unusable at the start are never in a template |
| `PlannedOrdersFill` | `search` | not every planned order fills as an immediate-or-cancel order at its limit |
| `GateLearnsAnyway` (a PROPERTY) | `learning`, `Parts = {"gate"}` | where all that is on offer is below what the prior makes worth exploring, as plans of a low edge are with the default unwind cost of 12 bps (`ev_gate.py:166`, `305`), the gate stays at zero samples for ever |
| `ABadWeekIsRevised` (a PROPERTY) | `learning`, `Parts = {"gate"}` | below the floor of probability nothing is explored, so a wrong belief stays |
| `SlippageIsLearned` | `learning`, `Slips = {2}` | the label already has the prediction in it: the model settles at half the slippage |
| `RestoredTogether` | `learning` | models of different ages after half a checkpoint |
| `BucketsAreBounded`, `AlarmsAreHeard` | `learning` | one pass of compression; alarms within the cooldown are swallowed |
| `RegimesAreKept` (a PROPERTY) | `learning` | regimes are stored and not restored |
| `SkippedLinesShow`, `ResolutionIsFinal` (two `Verdicts`) | `vault` | the chain verifies past a line that was skipped; a call can be resolved twice |
| `NoCloseIsMissed`, `UnresolvableHasNoPrice` | `vault` | a run on the day of the horizon grades on an earlier close, for good; one failed fetch makes a call unresolvable |
| `RealCallsAreGradedOnRealPrices` | `vault` | after one failed scan real calls are graded on fixtures |
| `StageIsTheCycles` | `vault` | a snapshot of the vault sets a stage although no cycle runs |
| `SizedNearTheRecord` | `vault`, `Stated = {55, 80}`, `MaxResolved = 10` | a call is sized far from the record that was to correct it |
| `CorrectedToItsPool` | `vault` | a pool is known by its first probability, and the correction interpolates from there |
| `LockedPaysWhateverHappens` | `vault` | a group whose evidence is a sum of prices, or a line with a bucket left out, may pay nothing |
| `InnerSplitKnowsNoFuture` | `vault`, `Step = 1`, `Lookback = 5` | the inner split is not purged |
| `OutcomesComeLater` | `vault`, `PriceTolerance = 2` | with a horizon of no more than the tolerance (5 days, `dataset.py:225-227`; `cli.py:71` takes any) the outcome is the price of the decision itself |
| `WeightIsItsOwn` | `vault` | the model is weighted by the better model's edge, whichever was adopted |

Met while reading and not stated as properties: a Binance maker whose cancel was taken for done is requeued, and two
orders may rest; `run_backtest` replays no recording
and `ReplayFeed` has no user; the recorder's overflow flushes instead of dropping its
oldest; the checkpoint "on a timer" is made at shutdown only; an exception of
`Engine.stop` skips the stack's shutdown; `cache.snapshot` and `fetch_fred_vintage`
have no caller; `learning_rate_multiplier` of a drift response is never applied and its
`clear` has no caller; the taker offset of an arm is unused; a call refused for want of
a price is sized all the same; the generic adapter's comment that an unresolved order
is safely unwound (`generic.py:494`) assumes the order did not fill.

The ledger and the bandit take part in `services` and `learning`; their
`BalancesOutliveEntries`, `MissedFillIsReported` and `EveryOutcomeCountsOnce` hold
under those configurations too, as do `MailboxesDrain`, `WaitersAreAdmitted`,
`SignalEndsTheSession`, `NothingForeignIsLoaded`, `ModelKnowsEveryOutcome`,
`ChecklistIsTheGate`, `PastIsSettled` and `WeightIsEarned`,
and the engine's `TypeOK` under `engine_safe`; they are
kept for whoever changes that code and are not part of the listed runs.

## Fairness

* `CycleExecution`: weak fairness of `Answered \/ StopCancelsOrders`, in which the
  event loop runs a coroutine that can go on and calls are answered (`HttpClient` has
  a timeout, the simulator's latency is finite); of the venue treating an order it
  was sent; and of a post-only order's deadline. No failure is relied on, and nothing
  makes a resting order trade, so `EveryCycleEnds` leans neither on errors nor on the
  market.
* `venues`: none. That a book comes back would lean on the venue, on the socket and on a
  stream that goes quiet; on a running one OKX's does not (`book_false_gap`). What the code
  does is ask, which `GivenUpIsAskedFor` states as an invariant.
* `services`: weak fairness of each listener's task, of the holder of a limiter's or
  bucket's lock (it sleeps a finite time), and of the clock.
* `learning`: strong fairness of the gate taking an opportunity, by its judgement or by
  chance, and of a cycle that was taken coming to something. Opportunities keep coming
  and the random number is below the exploration rate now and then; not every cycle
  comes to nothing.
* `TradingEngine`: the passing run checks safety only. `DivergenceHalts` is looked at
  under weak fairness of the scan task, which sleeps a fixed interval, and of a
  cycle's end, which is `EveryCycleEnds`.

## Proofs

Each theorem below holds for every value of the constants its module's named
assumptions admit, and, where a hypothesis is given, for every value that meets it;
what can happen outside a hypothesis is said below, and in the table of further
disagreements where TLC has a behaviour that shows it.

| theorem | property | hypothesis |
|---|---|---|
| `CycleExecution_proofs!TypeCorrect` | `TypeOK` | |
| `CycleExecution_proofs!LegsAreNotDoubled` | `OneOrderPerLeg` | |
| `CycleExecution_proofs!ExpiryStopsSending` | `OnlyARequeueIsLate` (an action property) | |
| `CycleExecution_proofs!NothingIsOversold` | `NeverOversells` | `Truthful` |
| `CycleExecution_proofs!AbortsMoveNothing` | `AbortMovesNothing` | `Truthful` |
| `CycleExecution_proofs!EndsAreHeld` | `ReportedEndIsHeld` | `Truthful` |
| `CycleExecution_proofs!LedgerReconciles` | `ClosedCyclesReconcile` | `Truthful` |
| `CycleExecution_proofs!PromiseIsKept` | `KeepsPromise` (the refinement of `CyclePromise`) | `WholeFills` |
| `TradingEngine_proofs` `TypeCorrect`, `HaltCorrect`, `StuckCorrect`, `SlotsCorrect`, `LossCorrect`, `StreakCorrect` | the engine's invariants | |
| `BookFeed_proofs!ChecksumsGuardTheBook` | `TradeableIsTrue` | `ReadsWhatIsChecked`, OKX and Kraken |
| `BookFeed_proofs!SequencesAreTrue` | `SequenceIsTrue` | |
| `BookFeed_proofs!GivenUpBooksAreAskedFor` | `GivenUpIsAskedFor` | |
| `BookFeed_proofs!TradeableBooksAreTrue` | `TradeableIsTrue` | `ReadsWhatIsChecked`, and a generic stream that loses nothing |
| `VenueOrders_proofs!EndsAreReal` | `ReportedEndIsReal` | |
| `VenueOrders_proofs!EndsTellTheFill` | `ReportedEndTellsTheFill` | |
| `VenueOrders_proofs!RefusalsLeaveNothing` | `RefusedLeftNothing` | |
| `Services_proofs!RealOrdersAreArmed` | `RealOrdersNeedTwoLocks` | |
| `Services_proofs!BurstsAreBounded` | `BurstIsBounded` | `UsualCeiling` |
| `Services_proofs!NewestAreKept` | `NewestSurvive` | |
| `Services_proofs!CheckpointsAreFound` | `CheckpointIsFound` | |
| `Services_proofs!PeriodsAreHeld` | `WindowsHold` | |
| `Services_proofs!RecordingsReadBack` | `RecordsReadBack` | |
| `Strategy_proofs!EdgesLoseBothWays` | `RoundTripsLose` | |
| `Strategy_proofs!PlansPromiseNoMore` | `ProjectionIsALowerBound` | |
| `Strategy_proofs!OffersCanBeTraded` | `OffersAreReal` | |
| `Strategy_proofs!NoTradeIsMissed` | `NothingIsMissed` | |
| `Strategy_proofs!OffersKeepTheirDistance` | `OffersAreSpaced` (an action property) | |
| `Strategy_proofs!WindowsAreTheLatest` | `WindowIsTheLatest` | |
| `Vault_proofs!CallsAreOneLine` | `CallsFormOneLine` | |
| `Vault_proofs!VerdictsAreRight` | `VerdictIsWhatBecame` | |
| `Vault_proofs!IntactChainsAreAsMade` | `IntactMeansAsMade` | |
| `Vault_proofs!FoldsAreFair` | `FoldsKnowNoFuture` | |
| `Vault_proofs!PoolingIsTheFit` | `PoolsAreTheFit` | |
| `Vault_proofs!LockedTradesPay` | `LockedPaysWhatItSays` | |

### Hypotheses

* `Truthful`: every call is answered and an adapter reports a fill as a fill. That is
  immediate-or-cancel legs on the simulator, with books as thin as they come, or, where
  orders fill whole, such legs on any adapter and post-only legs on OKX.
* `WholeFills`: orders fill whole, calls are answered, post-only legs on OKX only, and
  `MaxAttempts <= Grain`: no attempt of a BUY hop is sized at more than twice the touch (4
  steps of 25 bps in the code). Sized further out, a hop could come to less than a lot with
  capital to sell; `KeepsPromise` is refuted under `cycle_promise` with `Grain = 1` and
  `MaxAttempts = 3`.
* `ReadsWhatIsChecked`: the strategy reads no deeper than the checksum covers and the
  book keeps. It reads 8 levels; OKX's checksum covers 25, Kraken's 10, a book keeps 20.
* `UsualCeiling`: the throttle's highest rate is at most twice its base, which is what
  it is by default (`ratelimit.py:227`). A back-off halves the rate and
  sets the capacity to the result: from a higher ceiling that can be more than the
  bucket had at first.

Named assumptions on constants that say something of the code's inputs:

* `SearchAssumption`: buying and selling a symbol does not gain by itself, which is what
  `RoundTripsLose` shows of the graph; a cycle has three legs or more; one venue has one
  market for two assets (the graph keeps one edge per pair of assets and venue).
* `GraphAssumption`, `PlanningAssumption`: the sides of a book are sorted, with positive
  prices and sizes, the graph's fee is below one, and a plan's fee takes no more than
  what it is charged on (below zero it is a rebate).
* `DriftAssumption`, `GateAssumption`, `WalkAssumption`, `RecorderAssumption`, `BasketsAssumption`: types,
  stated probabilities of 5 to 95 percent, and limits that are not zero. What a group's
  legs exclude or exhaust is not assumed: it is what its flag and its evidence say
  (`Worlds`).

`NothingIsMissed` has two premises of its own. The enumerator stayed short of its cap of
templates (20,000 by default; four-leg cycles can pass it, and what is beyond is never
looked at). And no more cycles pay than four times what a scan may offer. The scan cuts the list of paying cycles there before it looks at cooldowns, so
with more of them those on cooldown can hide one that is not.

### Arguments

* **`CycleExecution_proofs`.** `TypeOK` is not inductive: the fields of an unwind and of
  an order depend on where the executor waits (a hop is only answered while there is
  a route). `Waiting` adds that. `LegIdsAgree` says that an order awaited for a leg
  is of the leg the loop is at and that what was left behind is of earlier ones, and
  `ExpiryIsADeadline` that the budget only runs out once the deadline has passed; the
  two theorems follow from these on top of `IInv`.
  For the truth of outcomes the invariant `Truth` has six parts: every order is watched
  until the engine stops (`Watched`), what is recorded is what the account has, apart
  from the order awaited (`Recorded`), a fill shows in the status (`FillsShow`), a leg's
  order is for what the last one brought (`LegIsWorked`), the unwind holds what it
  sells (`UnwindKnows`), and an outcome is what `ctx` says (`OutcomeTells`). The
  refinement adds `Whole`: until the unwind all capital is in one asset (`OnePosition`), and
  on a route the unwinder's count of a hop is what the account has of its two assets, those
  still ahead are empty and those behind hold no more than is written off (`HopIsWhole`). Every step of the executor is then a step of `CyclePromise`
  or a stutter.
* **`TradingEngine_proofs`.** One inductive invariant, `EInv`, by subject: a scan going
  on has an opportunity in hand; a plan that passed and was then halted is the only one
  that may still start; a plan that passed found the streak, the minute and the losses
  below their limits and nothing moves them before its cycle ends, so each breaker
  overshoots by one cycle. Exceptions are among the steps: `SlotsAreReturned` speaks of
  a process in which none has left a cycle yet; `EverySlotIsReturned`, without that
  condition, does not hold. Arithmetic about percentages is in `NoLossIsNoHit` and
  `LessIsNoHit`.
* **`BookFeed_proofs`.** `Market` is the venue's side: its history only grows, and what
  is on the wire or answered by a task is a part of it. `ByChecksum`: a book in use reads,
  down to what is walked, as some state the venue has had; an accepted delta has the
  venue's checksum over more than that, or leaves the book `unproven` until one does, and
  cutting levels off reaches no higher.
  `BySequence`: an applied update starts no later than where the last one ended, so the
  book is the venue's at its sequence, but for levels that fell below the depth it keeps
  and were not sent again since (`Fell`); a buffer replayed over a snapshot is an induction
  over the buffer. `InStep`, for a generic stream that loses nothing: the next event on
  the wire goes on from the state the book has.
* **`VenueOrders_proofs`.** `VOInv` ties the order at the venue to what is on its way and
  to the call at work, request by request: an entry that cannot arrive any more, a
  look-up that has answered, a cancel that has. `Ends` and `Refused` are the properties,
  strengthened by what the call in hand already knows; a garbled reply teaches a call nothing
  about the order, and marks it `voAssumed` where the adapter concludes from it all the same.
* **`Services_proofs`.** *Session*: a live command that runs found its locks in place, and
  adapters of real orders are its work, or that of `record`, which starts no engine.
  *TokenBucket*: what was granted and has not drained, what is in the bucket and what
  the time since the last refill can bring are together no more than the first
  capacity, and no later capacity is greater. *EventBus*: for each open subscription handed
  out, mailbox and evicted make up the matching events in order, and a cached answer is
  the right one for the subscriptions there are. *ModelStore*: file by file, what a save
  has done so far and what it has left to do. *WeightedLimiter*: events are ordered by
  age; what the last period granted is the young end of what a window remembers, and
  sums of weights over the ends of a sequence decide the rest: where the code says "0
  seconds", the events in the way of the request are all older than a period. *Recorder*:
  the buffer is the newest records; those of a stream that are stored rise through the
  pieces of a file and from hour to hour; only the last piece of the open file lacks its
  end; and a reader that stops at a piece without an end leaves out nothing that was
  written before it.
* **`Strategy_proofs`.** *CurrencyGraph*: a walk down a sorted book spends at no better
  price than its touch and returns at no better than the other, and fees only take; the
  two quotients multiply to less than one. *CyclePlanning*: an order with a limit takes
  the levels down to the one at which the sizer's walk turned, so on that book it gets
  what the walk got; a chain of orders that each ask for no more than the one before
  returned keeps its word by induction over the legs (`PlanInv`). *CycleSearch*: the
  enumerator's paths are simple and closed, and every ring of usable edges on its venue
  is one of them; short of the cap each is kept, since no more than all come before it. Predecessors are usable edges into their asset, so a walk back to a
  repeated asset is a ring as well. A rotation keeps legs and gain; rings with the same
  legs are rotations of each other, and both searches write a trade from the first start
  asset it passes, so it has one form and one key (`TradeIsOneCycle`). On one venue the
  key tells the ring. `CsInv`: every key on cooldown belongs to a cycle that was shown as
  long ago, and every cycle shown less than a cooldown ago has its key on cooldown.
  *DriftWatch*: buckets are neighbouring stretches of the errors that end with the
  last; a merge joins two stretches, a cut drops the first ones.
* **`Vault_proofs`.** *VaultCycle*: who holds the lock is the only one past it, and the
  head it read is still the head when it commits. *Grading*: a published price does not
  change, so a verdict over a window that lay behind the horizon is the verdict over the
  market. *ThesisJournal*: every hash on a line or in a memory is that of a call that was
  made; hashes are injective, so a chain that holds has nothing else in it, and a load is
  followed line by line. *WalkForward*: samples of a dataset are in the order of their
  days and each ends within its horizon; a feature reads the series only up to its own day,
  so cutting them off after it changes nothing, and an outcome only up to its end, which the
  purge keeps before the test opens.
  *CapitalGate*: a block is a stretch of the record between two cuts; wherever it
  is cut once more, the upper part's mean is no higher than the lower part's (`Unsplit`);
  and merging two neighbours in the
  wrong order keeps that; the loop ends, since twice the blocks less the place it is at
  gets smaller; then means rise from block to block, and a rising chain of unsplit blocks
  is the max-min of the means. *Baskets*: what a lock costs is the sum of its legs'
  prices times the contracts the depth caps, which the budget bounds; what it pays in a
  world is the number of its legs that win there.

Sets of numbers have least elements (`Inductions`, from the library's well-foundedness
theorem), and an induction over an interval is an argument about the first number
missing. So loops that the models state as recursive functions (the replay of a buffer,
the load of a journal, a walk down a book, a pass of Bellman-Ford, a sum of weights) are
followed for any length: the function exists, by building it up one element at a time,
and then satisfies its equation. `LoopRuns` is that argument once and for all.

### Only model-checked

Every safety property of the passing runs is a theorem. What is left to TLC is liveness,
which rests on fairness and ENABLED: `EveryCycleEnds`, `SmallRequestsAreServed` and
`GateLeavesColdStart`. The disagreements of the tables
above are counterexamples and need no proof.

## Plan

The two-venue and pair strategies; the replay of recordings into a backtest. A
proof of progress would have to argue about ENABLED by hand.

## Not modelled, and why

Signing, formatting and instrument loading, configuration classes, logging and alerts
have no state that matters here. The formulas of the signal library, the macro regimes,
the networks' arithmetic, features and the statistics of a backtest are numbers without
interleavings: a score appears as whatever it may come to. The web front ends are
presentation. The pair strategy is built by nothing in the wiring; it and the two-venue
strategy wait for the plan.
