---------------------------- MODULE CyclePromise ----------------------------
(***************************************************************************)
(* What the engine, the ledger and the operator rely on when a cycle comes *)
(* back: the four outcomes of CycleOutcome, read as a statement about the  *)
(* account.  A cycle that reports an abort never moved capital, one that   *)
(* reports itself completed holds nothing it did not want, one that        *)
(* reports itself unwound holds dust at most, and capital left outside the *)
(* start asset is always reported as stuck.                                *)
(***************************************************************************)

VARIABLES
    open,     \* the cycle has no outcome yet
    outside,  \* what is outside the start asset
    moved,    \* some fill has happened
    outcome

vars == <<open, outside, moved, outcome>>

Init ==
    /\ open = TRUE
    /\ outside = "nothing"
    /\ moved = FALSE
    /\ outcome = "none"

\* The venue fills an order: once capital has moved, it may be outside or home again.
Trade ==
    /\ open
    /\ moved' = TRUE
    /\ outside' \in {"nothing", "dust", "capital"}
    /\ UNCHANGED <<open, outcome>>

HonestOutcomes ==
    CASE ~moved                          -> {"ABORTED_PRE_TRADE"}
      [] moved /\ outside = "nothing"    -> {"COMPLETED", "PARTIAL_UNWOUND"}
      [] moved /\ outside = "dust"       -> {"PARTIAL_UNWOUND", "PARTIAL_STUCK"}
      [] moved /\ outside = "capital"    -> {"PARTIAL_STUCK"}

Close ==
    /\ open
    /\ open' = FALSE
    /\ outcome' \in HonestOutcomes
    /\ UNCHANGED <<outside, moved>>

Next == Trade \/ Close

Spec == Init /\ [][Next]_vars
=============================================================================
