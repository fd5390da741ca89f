------------------------------ MODULE MCVault ------------------------------
(***************************************************************************)
(* The vault, a part at a time: the journal and what it holds, the grading *)
(* of one call, the cycle the server runs, the gate and what it learns     *)
(* from the record, the scan of prediction markets, the learning pass.     *)
(* unit names the part that moves; the others rest in one initial state.   *)
(***************************************************************************)
EXTENDS ThesisJournal, Grading, VaultCycle, CapitalGate, Baskets, WalkForward

CONSTANT VaultUnits

VARIABLE unit

vars == <<unit, jVars, gradeVars, vaultVars, cgVars, bVars, wfVars>>

Init ==
  /\ unit \in VaultUnits
  /\ JournalInit
  /\ GradeInit /\ (unit # "grading" => gSign = 1)
  /\ VaultInit /\ (unit # "cycle" => ~vFixtures)
  /\ GateInit /\ (unit # "gate" => cgShift = 0)
  /\ BasketsInit
  /\ WalkInit /\ (unit # "folds" => wfClose[0] = 1)

Rest ==
  /\ UNCHANGED unit
  /\ unit # "journal" => UNCHANGED jVars
  /\ unit # "grading" => UNCHANGED gradeVars
  /\ unit # "cycle"   => UNCHANGED vaultVars
  /\ unit # "gate"    => UNCHANGED cgVars
  /\ unit # "baskets" => UNCHANGED bVars
  /\ unit # "folds"   => UNCHANGED wfVars

Next ==
  /\ \/ unit = "journal" /\ JournalNext
     \/ unit = "grading" /\ GradeNext
     \/ unit = "cycle" /\ VaultNext
     \/ unit = "gate" /\ GateNext
     \/ unit = "baskets" /\ BasketsNext
     \/ unit = "folds" /\ WalkNext
  /\ Rest

Spec == Init /\ [][Next]_vars

\* Who has the journal open, what a call says and which thread it is are only names.
VaultSymmetry == Permutations(Scribes) \cup Permutations(Theses) \cup Permutations(Runners)

-----------------------------------------------------------------------------

MCCriticalSq == [n \in 1..MaxResolved |-> 10]
MCMoves == {<<4, 2>>, <<1, 2>>}
MCShifts == {-1500, 0, 1000}

-----------------------------------------------------------------------------

Quote(bid, ask, n) ==
  [bids |-> IF bid = 0 THEN << >> ELSE <<Level(bid, n)>>, asks |-> IF ask = 0 THEN << >> ELSE <<Level(ask, n)>>]
Deep(p, n, q, m) == [bids |-> << >>, asks |-> <<Level(p, n), Level(q, m)>>]
Market(title, label, yes, no) ==
  [title |-> title, label |-> label, tokens |-> TRUE, negRisk |-> TRUE, yes |-> yes, no |-> no]
Named(title, yes) == Market(title, "name", yes, NoBook)
OnKalshi(markets, may) == [venue |-> "kalshi", flag |-> TRUE, markets |-> markets, may |-> may]
OnPolymarket(markets, may) == [OnKalshi(markets, may) EXCEPT !.venue = "polymarket"]
Each(ms) == {{ms[i].title} : i \in DOMAIN ms}
NoneOr(ms) == {{}} \cup Each(ms)

\* One question, three that bid over a dollar, two far from one, a line, a tight pair.
Rain == Market("rain", "name", Quote(40, 45, 100), Deep(50, 30, 58, 100))
Race == <<Named("a", Quote(45, 50, 60)), Named("b", Quote(40, 45, 40)), Named("c", Quote(30, 36, 80))>>
Pope == <<Named("p", Quote(10, 14, 90)), Named("q", Quote(8, 15, 90))>>
Line == <<Market("l", "lower", Quote(10, 20, 90), NoBook), Market("m", "number", Quote(20, 30, 90), NoBook),
          Market("n", "number", Quote(25, 33, 50), NoBook), Market("u", "upper", Quote(4, 10, 90), NoBook)>>
Pair == <<Named("x", Quote(40, 46, 90)), Named("y", Quote(44, 49, 90))>>
Toss == <<Market("o", "other", Quote(50, 52, 60), Quote(46, 47, 60)), Named("v", Quote(30, 38, 60))>>
MCEvents ==
  {OnKalshi(<<Rain>>, NoneOr(<<Rain>>)), OnPolymarket(<<Rain>>, NoneOr(<<Rain>>)),
   OnPolymarket(<<[Rain EXCEPT !.yes = Quote(40, 45, 3)]>>, NoneOr(<<Rain>>)),
   OnKalshi(Race, NoneOr(Race)), OnPolymarket(Race, NoneOr(Race)), OnKalshi(Pope, NoneOr(Pope)),
   OnKalshi(Line, Each(Line)), OnPolymarket([Line EXCEPT ![3].tokens = FALSE], Each(Line)),
   OnKalshi(Pair, NoneOr(Pair)), [OnKalshi(Pope, {{"p", "q"}} \cup NoneOr(Pope)) EXCEPT !.flag = FALSE],
   OnPolymarket(Toss, Each(Toss))}
\* The curves of fees.py as if they had been verified: none of them is (fees.py:103, 123,
\* 159), so with the repository's own models no trade is called locked.
FeesOf(c, p, f, r) == [curve |-> c, proportional |-> p, fixed |-> f, roundUp |-> r, verified |-> TRUE]
MCFees == [kalshi |-> FeesOf(7, 0, 0, 1000), polymarket |-> FeesOf(0, 1, 2000, 0)]
MCUnmodelled == [FeesOf(0, 20, 0, 0) EXCEPT !.verified = FALSE]
MCSimilar == {<<"rain", "rain">>}

-----------------------------------------------------------------------------

\* A series that is late once, flat once and turns.
MCCurve == [d \in 0..LastTradingDay |-> <<3, 4, 2, 2, 5, 4, 0, 6>>[d + 1]]
MCCorrelations == {<<90, 40>>, <<90, 120>>}
Scores(l, n) == [base |-> 30, logistic |-> l, network |-> n]
\* Nothing beats the base rate; a winner either way; and by less than its margin.
MCReports == {Scores(30, 30), Scores(30, 24), Scores(27, 24), Scores(24, 27), Scores(24, 23)}
=============================================================================
