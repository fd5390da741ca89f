-------------------------- MODULE MCCycleExecution --------------------------
(***************************************************************************)
(* Instances of CycleExecution for TLC.  A triangle is three legs; six     *)
(* lots leave room for a partial fill, a partial unwind of what it gave    *)
(* and a last lot.  Asset 3 is in the graph and not in the cycle, so that  *)
(* an unwind may take three hops.                                          *)
(***************************************************************************)
EXTENDS CycleExecution

NoMakerLeg     == {}
FirstLegMaker  == {0}
OuterLegsMaker == {0, 2}

\* Asset 1 quotes the start asset, 2 and 3 quote each other; the other hops sell.
SomeBuys == {<<1, 0>>, <<2, 3>>, <<3, 2>>}
=============================================================================
