----------------------------- MODULE MCLearning -----------------------------
(***************************************************************************)
(* What the engine learns, a part at a time: the gate over two kinds of    *)
(* opportunity, the detectors over every short run of errors, the bandit   *)
(* over two arms.  part names the one that moves.                          *)
(***************************************************************************)
EXTENDS LearnedGate, DriftWatch, Bandit

CONSTANT Parts
VARIABLE part

vars == <<part, lgVars, dwVars, bnVars>>

Init ==
  /\ part \in Parts /\ DriftInit /\ BanditInit
  /\ LearnedGateInit /\ (part # "gate" => lgOffered = Kinds)

Next ==
  /\ \/ part = "gate" /\ LearnedGateNext
     \/ part = "drift" /\ DriftNext
     \/ part = "bandit" /\ BanditNext
  /\ UNCHANGED part
  /\ part # "gate"   => UNCHANGED lgVars
  /\ part # "drift"  => UNCHANGED dwVars
  /\ part # "bandit" => UNCHANGED bnVars

\* The fairness of the gate is asked for where it moves.
GateTakes == part = "gate" /\ lgDecision = NoDecision /\ Takes /\ UNCHANGED <<part, dwVars, bnVars>>
GateSettles == part = "gate" /\ lgDecision # NoDecision /\ SettleCycle /\ UNCHANGED <<part, dwVars, bnVars>>
Spec == Init /\ [][Next]_vars /\ SF_vars(GateTakes) /\ SF_vars(GateSettles)

\* ColdStartIsLeftByTheMarginal, where the gate is what moves.
GateLeavesColdStart == part = "gate" => ColdStartIsLeftByTheMarginal
GateLearnsAnyway == part = "gate" => ColdStartIsLeft

-----------------------------------------------------------------------------
\* By the prior the wide one gains, the thin one loses more than the gate explores.
MCPlans == [wide |-> [edge |-> 20, fee |-> 12, drag |-> 2, legs |-> 3],
            thin |-> [edge |-> 5, fee |-> 12, drag |-> 4, legs |-> 3]]
MCOdds == [s \in -2 .. 2 |-> <<6, 22, 50, 78, 94>>[s + 3]]
\* Not warm yet, wild, and dull.
MCMarket == {<<FALSE, 0, 0>>, <<TRUE, 250, 200>>, <<TRUE, -80, -10>>}
=============================================================================
