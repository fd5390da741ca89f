----------------------------- MODULE MCServices -----------------------------
(***************************************************************************)
(* The services around the trading core, side by side: one behaviour moves *)
(* one of them, named by unit, and the others rest in their initial state. *)
(* They share no state in the code, so their sum shows what their product  *)
(* would.                                                                  *)
(***************************************************************************)
EXTENDS EventBus, WeightedLimiter, TokenBucket, Ledger, ModelStore, Recorder, Session

CONSTANT Units   \* which services this run moves

VARIABLE unit

vars == <<unit, busVars, limVars, tbVars, ledVars, stVars, recVars, seVars>>

Init ==
  /\ unit \in Units
  /\ BusInit /\ LimInit /\ TbInit /\ LedInit /\ StInit /\ RecInit /\ SeInit
  /\ unit # "session" => seFileMode = "paper" /\ ~seEnv /\ seAck = "absent" /\ seCreds = Range(Venues)

Rest ==
  /\ UNCHANGED unit
  /\ unit # "bus"     => UNCHANGED busVars
  /\ unit # "limiter" => UNCHANGED limVars
  /\ unit # "bucket"  => UNCHANGED tbVars
  /\ unit # "ledger"  => UNCHANGED ledVars
  /\ unit # "store"   => UNCHANGED stVars
  /\ unit # "recorder" => UNCHANGED recVars
  /\ unit # "session" => UNCHANGED seVars

Next ==
  /\ \/ unit = "bus" /\ BusNext
     \/ unit = "limiter" /\ LimNext
     \/ unit = "bucket" /\ TbNext
     \/ unit = "ledger" /\ LedNext
     \/ unit = "store" /\ StNext
     \/ unit = "recorder" /\ RecNext
     \/ unit = "session" /\ SeNext
  /\ Rest

Fairness ==
  /\ \A h \in Handlers : WF_busVars(unit = "bus" /\ Listen(h))
  /\ WF_limVars(unit = "limiter" /\ HolderStep) /\ WF_limVars(unit = "limiter" /\ LimTick)
  /\ WF_tbVars(unit = "bucket" /\ \E c \in TbCallers : TbHolderStep(c)) /\ WF_tbVars(unit = "bucket" /\ TbTick)
  /\ WF_seVars(unit = "session" /\ Process)

Spec == Init /\ [][Next]_vars /\ Fairness

-----------------------------------------------------------------------------

MCTopics == {<<"risk", "halt">>, <<"book", "x", "y">>}
MCPatterns == {<<"risk", "*">>, <<"book", "**">>}

MCWindows == [weight |-> [limit |-> 3, period |-> 2], orders |-> [limit |-> 2, period |-> 3]]
MCRequests == {[weight |-> 2], [weight |-> 1, orders |-> 1]}

Fill(v, side, base, quote, qty, price, fee, feeAsset) ==
  [venue |-> v, side |-> side, base |-> base, quote |-> quote, qty |-> qty,
   price |-> price, fee |-> fee, feeAsset |-> feeAsset]
Buy1 == Fill("v1", "buy", "B", "U", 3, 2, 1, "B")
Buy2 == Fill("v2", "buy", "E", "B", 1, 2, -1, "E")
Sell == Fill("v2", "sell", "E", "U", 1, 4, 0, "U")
Back == Fill("v1", "sell", "B", "U", 2, 2, 1, "U")
Cycle(fills, ok, partial, pnl, lost) ==
  [fills |-> fills, committed |-> ok, partial |-> partial, start |-> 6,
   expected |-> 7, pnl |-> pnl, lost |-> lost]
\* A full triangle, a cycle sold back after one leg, one stuck there, one aborted.
MCCycles == {Cycle(<<Buy1, Buy2, Sell>>, TRUE, FALSE, p, 0) : p \in 0..2}
            \cup {Cycle(<<Buy1, Back>>, TRUE, TRUE, -2, 1), Cycle(<<Buy1>>, TRUE, TRUE, -6, 1),
                  Cycle(<<>>, FALSE, FALSE, 0, 0)}

MCModels == <<"fill_model", "bandit">>
MCPrices == [B |-> 2, E |-> 4]
MCCredentials == {{"v1", "v2"}, {"v1"}}
MCVenues == <<"v1", "v2">>
=============================================================================
