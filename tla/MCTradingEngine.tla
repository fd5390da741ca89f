--------------------------- MODULE MCTradingEngine ---------------------------
(***************************************************************************)
(* Instances of TradingEngine for TLC.                                     *)
(***************************************************************************)
EXTENDS TradingEngine, SequencesExt

\* "A runaway loop submitting orders is bounded only by the order-rate limit" (Guardrails):
\* the orders of a minute stay under the limit, but for the legs of the cycle that gets
\* there.
OrderRateHolds == FoldSeq(LAMBDA n, sum : n + sum, 0, recent) < MaxOrders + Legs
=============================================================================
