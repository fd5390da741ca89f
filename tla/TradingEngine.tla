---------------------------- MODULE TradingEngine ----------------------------
(***************************************************************************)
(* The engine around the cycles: the scan task that takes opportunities    *)
(* through the guardrails one after the other, the kill switch as the      *)
(* dashboard's threads and the assistant's tools reach it, and what a      *)
(* cycle's result does to the next one.                                    *)
(*                                                                         *)
(* A cycle is one await here; CycleExecution is its inside.  The scan task *)
(* is otherwise synchronous, but the dashboard serves its commands from    *)
(* threads of their own, so a command may fall between a plan's risk check *)
(* and its start.                                                          *)
(***************************************************************************)
EXTENDS Guardrails

CONSTANTS
    CycleLoss,      \* the most a cycle may lose
    CycleGain,      \* and gain
    ExtraOrders,    \* requeues and unwind hops a cycle may send beyond its legs
    TopEquity       \* bound on the equity explored

ASSUME EngineAssumption ==
    /\ CycleLoss \in Nat /\ CycleGain \in Nat /\ ExtraOrders \in Nat
    /\ TopEquity \in Nat /\ TopEquity >= Capital

VARIABLES
    task,       \* where the scan task is
    queue,      \* opportunities of this scan not considered yet
    held,       \* units of the intermediate asset on the ledger
    stuck,      \* a position a cycle left: none, open, known to whoever released, or lost
                \* with the exception that ended its cycle
    raised,     \* history: some cycle has ended in an exception
    sinceHalt,  \* history: cycles started since the kill switch was engaged
    asked       \* history: the assistant has asked for a halt, nobody released since

engine == <<task, queue, held, stuck, raised>>
vars   == <<engaged, reason, losses, inFlight, equity, peak, dayStart, recent,
            task, queue, held, stuck, raised, sinceHalt, asked>>

Init ==
    /\ InitGuardrails
    /\ task = "idle"
    /\ queue = 0
    /\ held = 0
    /\ stuck = "none"
    /\ raised = FALSE
    /\ sinceHalt = 0
    /\ asked = FALSE

-----------------------------------------------------------------------------
(* The scan task. *)

\* _scan_once: a halted engine scans and passes by what it finds.
Scan ==
    /\ task = "idle"
    /\ ~engaged
    /\ \E n \in 1 .. MaxConcurrent : queue' = n
    /\ task' = "considering"
    /\ UNCHANGED <<rails, held, stuck, raised, sinceHalt, asked>>

\* The loop goes on to the next opportunity of the scan, or sleeps.
NextOpportunity ==
    /\ queue' = queue - 1
    /\ task' = IF queue > 1 THEN "considering" ELSE "idle"

\* _consider stops short of a cycle: no size for it, refused by the guardrails (which may
\* engage the kill switch) or by the learned gate.
Drop ==
    /\ task = "considering"
    /\ NextOpportunity
    /\ CheckAll \/ UNCHANGED switch
    /\ UNCHANGED <<losses, inFlight, marks, recent, held, stuck, raised, sinceHalt, asked>>

\* _consider finds nothing against the plan ...
Pass_Unchecked ==
    /\ task = "considering"
    /\ task' = "passed"
    /\ UNCHANGED <<rails, queue, held, stuck, raised, sinceHalt, asked>>
Pass ==
    /\ task = "considering"
    /\ Clear(held)
    /\ task' = "passed"
    /\ UNCHANGED <<rails, queue, held, stuck, raised, sinceHalt, asked>>

\* ... evaluates the gate, re-plans at a reduced size, and starts it.
StartCycle ==
    /\ task = "passed"
    /\ OnCycleStarted
    /\ task' = "cycle"
    /\ sinceHalt' = IF engaged THEN sinceHalt + 1 ELSE 0
    /\ UNCHANGED <<switch, losses, marks, queue, held, stuck, raised, asked>>

-----------------------------------------------------------------------------
(* The cycle's result: on_cycle_finished, then _settle. *)

\* The newest entry of the minute is the running cycle's; it has sent n orders.
Sent(n) == recent' = IF recent = <<>> THEN recent ELSE [recent EXCEPT ![Len(recent)] = n]

CycleOrders == 0 .. Legs + ExtraOrders

\* The ledger records the fills, the equity is marked, the next opportunity follows.
Settle(n, d, units) ==
    /\ task = "cycle"
    /\ equity + d \in 0 .. TopEquity
    /\ Sent(n)
    /\ \E newDay \in BOOLEAN : UpdateEquity(equity + d, newDay)
    /\ held' = held + units
    /\ NextOpportunity
    /\ UNCHANGED <<raised, sinceHalt, asked>>

CycleAborts ==
    /\ \E n \in CycleOrders : Settle(n, 0, 0)
    /\ OnCycleFinished(FALSE, 0)
    /\ UNCHANGED <<switch, stuck>>

\* COMPLETED may leave a unit of an intermediate asset behind, PARTIAL_UNWOUND may not.
CycleCloses ==
    /\ \E n \in CycleOrders, d \in (0 - CycleLoss) .. CycleGain, units \in {0, 1} :
         /\ Settle(n, d, units)
         /\ OnCycleFinished(TRUE, d)
    /\ UNCHANGED <<switch, stuck>>

\* PARTIAL_STUCK is booked with no profit, and halts.
CycleSticks_Silently ==
    /\ \E n \in CycleOrders, d \in (0 - CycleLoss) .. 0 : Settle(n, d, 1)
    /\ OnCycleFinished(TRUE, 0)
    /\ stuck' = "open"
    /\ UNCHANGED switch
CycleSticks ==
    /\ \E n \in CycleOrders, d \in (0 - CycleLoss) .. 0 : Settle(n, d, 1)
    /\ OnCycleFinished(TRUE, 0)
    /\ EngageKillSwitch("stuck")
    /\ stuck' = "open"

\* An exception out of execute (CycleExecution's HopRaises) ends the scan in _scan_loop's
\* "scan iteration failed": on_cycle_finished and _settle are not reached.
CycleRaises ==
    /\ task = "cycle"
    /\ task' = "idle"
    /\ queue' = 0
    /\ stuck' = "lost"
    /\ raised' = TRUE
    /\ UNCHANGED <<rails, held, sinceHalt, asked>>

-----------------------------------------------------------------------------
(* Around the scan task. *)

\* The periodic mark: what is held changes its price, a day goes by.
MarkEquity ==
    /\ task = "idle"
    /\ \E d \in {-1, 0, 1}, newDay \in BOOLEAN :
         /\ d # 0 => held > 0
         /\ equity + d \in 0 .. TopEquity
         /\ UpdateEquity(equity + d, newDay)
    /\ UNCHANGED <<switch, losses, inFlight, recent, engine, sinceHalt, asked>>

\* The oldest cycle of the last minute is older than that now; a running one never is, its
\* latency budget being well below a minute.
MinutePasses ==
    /\ recent # <<>>
    /\ task # "cycle" \/ Len(recent) > 1
    /\ recent' = Tail(recent)
    /\ UNCHANGED <<switch, losses, inFlight, marks, engine, sinceHalt, asked>>

\* The dashboard's commands, on a thread of their own.
OperatorHalts ==
    /\ EngageKillSwitch("operator")
    /\ UNCHANGED <<losses, inFlight, marks, recent, engine, sinceHalt, asked>>

OperatorReleases ==
    /\ ReleaseKillSwitch
    /\ stuck' = IF stuck = "open" /\ engaged THEN "known" ELSE stuck
    /\ sinceHalt' = 0
    /\ asked' = FALSE
    /\ UNCHANGED <<inFlight, marks, recent, task, queue, held, raised>>

\* The assistant's "halt" tool posts to /api/command, for which no route is registered.
AssistantHalts ==
    /\ asked' = TRUE
    /\ UNCHANGED <<rails, engine, sinceHalt>>

\* Engine.stop cancels the scan task wherever it waits.
Stop ==
    /\ task \in {"idle", "cycle"}
    /\ task' = "stopped"
    /\ queue' = 0
    /\ UNCHANGED <<rails, held, stuck, raised, sinceHalt, asked>>

Next ==
    \/ Scan \/ Drop \/ Pass \/ StartCycle
    \/ CycleAborts \/ CycleCloses \/ CycleSticks \/ CycleRaises
    \/ MarkEquity \/ MinutePasses
    \/ OperatorHalts \/ OperatorReleases \/ AssistantHalts \/ Stop

Spec == Init /\ [][Next]_vars

\* The scan loop sleeps a fixed interval and goes on, and execute always comes back
\* (CycleExecution's EveryCycleEnds).
Fairness ==
    /\ WF_vars(Scan \/ Drop \/ Pass \/ StartCycle)
    /\ WF_vars(CycleAborts \/ CycleCloses \/ CycleSticks \/ CycleRaises)

FairSpec == Spec /\ Fairness

-----------------------------------------------------------------------------
(* What should be true of the engine. *)

Reasons == {"none", "operator", "daily loss", "drawdown", "stuck"}

\* The shapes of the guardrails' and the engine's state; a minute never sees more cycles
\* than its limit.
TypeOK ==
    /\ engaged \in BOOLEAN /\ reason \in Reasons
    /\ losses \in Nat
    /\ inFlight \in Nat
    /\ equity \in Nat /\ peak \in Nat /\ dayStart \in Nat
    /\ recent \in Seq(Nat) /\ Len(recent) <= MaxCycles
    /\ task \in {"idle", "considering", "passed", "cycle", "stopped"}
    /\ queue \in 0 .. MaxConcurrent
    /\ held \in Nat
    /\ stuck \in {"none", "open", "known", "lost"}
    /\ raised \in BOOLEAN
    /\ sinceHalt \in Nat
    /\ asked \in BOOLEAN

\* After a halt, whoever caused it, at most one more cycle starts until somebody releases
\* it: the one whose plan had already passed the guardrails.
HaltStopsAllButOne == engaged => sinceHalt <= 1

\* The same for no cycle at all: "The engine stops opening new cycles immediately".
HaltStopsAll == engaged => sinceHalt = 0

\* A cycle that reports a position no unwind could close halts the engine until somebody
\* releases the halt: the next cycle never runs on top of it unnoticed.
StuckHalts == stuck = "open" => engaged

\* The same of a cycle that raised with its position: "a failed unwind is a CRITICAL event
\* that trips the kill switch".
LostHalts == stuck = "lost" => engaged

\* The halt that a stuck position caused, or met, says so to whoever is to release it.
StuckIsNamed == stuck = "open" => reason = "stuck"

\* As long as no cycle raises, every slot of the concurrency limit is given back: the count
\* is the running cycle.  (A stopped engine's cycle was cancelled with its slot.)
SlotsAreReturned ==
    ~raised /\ task # "stopped" => inFlight = IF task = "cycle" THEN 1 ELSE 0

\* The same with cycles that raise.
EverySlotIsReturned == task = "idle" => inFlight = 0

\* However cycles, checks and operator commands interleave, an engine whose equity only
\* its own cycles move never falls further below its peak, or below the day's start, than
\* the limit and the one cycle that crossed it.
LossesAreBounded ==
    held = 0 =>
        /\ ~AtLimit(peak - equity - CycleLoss, peak, MaxDrawdownPct)
        /\ ~AtLimit(dayStart - equity - CycleLoss, dayStart, MaxDailyLossPct)

\* The streak the breaker counts is what it says: a model that has "silently broken" is
\* stopped before it loses more often in a row than max_consecutive_losses.
StreakIsBounded == losses <= MaxLosses

\* max_asset_exposure_pct, by value: no cycle starts while an asset worth more than the
\* cap is held.
ExposureCapHolds ==
    task = "passed" => held * Price * 100 <= MaxAssetPct * equity

\* Once the assistant's halt has been called, "the engine stops opening new cycles": no
\* further scan takes its opportunities to the guardrails.
AssistantHaltHolds == [][asked /\ task = "idle" => task' # "considering"]_vars

\* "Divergence beyond tolerance halts trading": a position the ledger does not know, left by
\* a cycle that raised, ends in a halt.
DivergenceHalts == [](stuck = "lost" => <>(engaged \/ task = "stopped"))
=============================================================================
