----------------------------- MODULE Guardrails -----------------------------
(***************************************************************************)
(* The pre-trade risk limits: what they remember of the cycles and of the  *)
(* equity, the kill switch, and the gate every plan goes through.          *)
(*                                                                         *)
(* Money is counted in units of the base currency; the limits stay         *)
(* percentages, as in RiskConfig.  The checks that depend on the plan      *)
(* alone (its edge, its notional) are left to the caller.                  *)
(***************************************************************************)
EXTENDS Integers, Sequences

CONSTANTS
    Capital,          \* starting_equity
    Legs,             \* legs of a plan: what one cycle adds to the order rate
    MaxConcurrent,    \* max_concurrent_cycles
    MaxDailyLossPct,
    MaxDrawdownPct,
    MaxLosses,        \* max_consecutive_losses
    MaxOrders,        \* max_orders_per_minute
    MaxCycles,        \* max_cycles_per_minute
    MaxAssetPct,      \* max_asset_exposure_pct
    Price             \* of one unit of the intermediate asset, in base currency

ASSUME GuardrailsAssumption ==
    /\ Capital \in Nat \ {0}
    /\ Legs \in Nat \ {0}
    /\ MaxConcurrent \in Nat \ {0}
    /\ MaxDailyLossPct \in Nat \ {0} /\ MaxDrawdownPct \in Nat \ {0}
    /\ MaxLosses \in Nat \ {0}
    /\ MaxOrders \in Nat \ {0} /\ MaxCycles \in Nat \ {0}
    /\ MaxAssetPct \in Nat /\ Price \in Nat \ {0}

VARIABLES
    engaged,    \* kill_switch_engaged
    reason,     \* kill_switch_reason, by its kind
    losses,     \* consecutive_losses
    inFlight,   \* _in_flight
    equity,     \* current_equity
    peak,       \* peak_equity
    dayStart,   \* day_start_equity
    recent      \* the cycles of the last minute, oldest first: orders each has sent

switch == <<engaged, reason>>
marks  == <<equity, peak, dayStart>>
rails  == <<engaged, reason, losses, inFlight, equity, peak, dayStart, recent>>

InitGuardrails ==
    /\ engaged = FALSE /\ reason = "none"
    /\ losses = 0
    /\ inFlight = 0
    /\ equity = Capital /\ peak = Capital /\ dayStart = Capital
    /\ recent = <<>>

-----------------------------------------------------------------------------
(* The kill switch. *)

\* engage_kill_switch: the first reason stays.
EngageKillSwitch(why) ==
    /\ engaged' = TRUE
    /\ reason' = IF engaged THEN reason ELSE why

\* release_kill_switch returns early when the switch is not engaged.
ReleaseKillSwitch ==
    /\ engaged' = FALSE
    /\ reason' = "none"
    /\ losses' = IF engaged THEN 0 ELSE losses

-----------------------------------------------------------------------------
(* Equity. *)

\* update_equity.  The daily baseline is replaced once a day has gone by.
UpdateEquity(e, newDay) ==
    /\ equity' = e
    /\ peak' = IF e > peak THEN e ELSE peak
    /\ dayStart' = IF newDay THEN e ELSE dayStart

\* A loss of "lost" out of "base" is at or past a limit of pct percent; safe_div makes a
\* loss out of nothing no loss.
AtLimit(lost, base, pct) == base > 0 /\ lost * 100 >= pct * base

DailyLossHit == AtLimit(dayStart - equity, dayStart, MaxDailyLossPct)
DrawdownHit_Past == peak > 0 /\ (peak - equity) * 100 > MaxDrawdownPct * peak
DrawdownHit == AtLimit(peak - equity, peak, MaxDrawdownPct)

-----------------------------------------------------------------------------
(* The gate. *)

TooManyInFlight   == inFlight >= MaxConcurrent
TooManyLosses_Past == losses > MaxLosses
TooManyLosses     == losses >= MaxLosses
RatesHit_Past     == Len(recent) * Legs > MaxOrders \/ Len(recent) > MaxCycles
RatesHit          == Len(recent) * Legs >= MaxOrders \/ Len(recent) >= MaxCycles

\* _check_exposures: the units held of an asset against the equity in base currency.
ExposureHit(held) == equity > 0 /\ held > 0 /\ held * 100 > MaxAssetPct * equity

\* Nothing check_all looks at stands against a plan.
Clear(held) ==
    /\ ~engaged
    /\ ~TooManyInFlight
    /\ ~DailyLossHit /\ ~DrawdownHit
    /\ ~TooManyLosses
    /\ ~RatesHit
    /\ ~ExposureHit(held)

\* check_all runs every check before it looks at the first result, so a daily loss or a
\* drawdown engages the kill switch even behind another refusal.
CheckAll ==
    IF DailyLossHit THEN EngageKillSwitch("daily loss")
    ELSE IF DrawdownHit THEN EngageKillSwitch("drawdown")
    ELSE UNCHANGED switch

-----------------------------------------------------------------------------
(* A cycle starts and finishes. *)

OnCycleStarted ==
    /\ inFlight' = inFlight + 1
    /\ recent' = Append(recent, Legs)

\* on_cycle_finished; a cycle that moved no capital leaves the streak alone.
OnCycleFinished_KeepsSlot(committed, pnl) ==
    /\ inFlight' = inFlight
    /\ losses' = IF ~committed THEN losses ELSE IF pnl > 0 THEN 0 ELSE losses + 1
OnCycleFinished(committed, pnl) ==
    /\ inFlight' = IF inFlight > 0 THEN inFlight - 1 ELSE 0
    /\ losses' = IF ~committed THEN losses ELSE IF pnl > 0 THEN 0 ELSE losses + 1
=============================================================================
