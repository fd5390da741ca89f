-------------------------------- MODULE Sums ---------------------------------
(***************************************************************************)
(* The sum of a sequence of numbers, as a recursive function: a fold says  *)
(* nothing to the provers.                                                 *)
(***************************************************************************)
EXTENDS Integers, Sequences

SumSeq(s) ==
    LET sum[n \in 0 .. Len(s)] == IF n = 0 THEN 0 ELSE sum[n - 1] + s[n]
    IN  sum[Len(s)]

\* The parts one after the other.
Joined(parts) ==
  LET upto[n \in 0 .. Len(parts)] == IF n = 0 THEN <<>> ELSE upto[n - 1] \o parts[n]
  IN  upto[Len(parts)]
=============================================================================
