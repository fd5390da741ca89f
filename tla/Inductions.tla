---------------------------- MODULE Inductions -----------------------------
(***************************************************************************)
(* A set of naturals has a least element, and a bounded set of integers a  *)
(* greatest one: the library's theorem about well-founded relations, put   *)
(* so that an induction can be made on a set of counterexamples.  From it  *)
(* follow that a loop has a result, and what a sum comes to.               *)
(***************************************************************************)
EXTENDS Integers, Sequences, FiniteSetsExt, Sums, SequenceTheorems, WellFoundedInduction, TLAPS

LessThan == {pair \in Nat \X Nat : pair[1] < pair[2]}

LEMMA LeastNatural ==
    ASSUME NEW T \in SUBSET Nat, T # {}
    PROVE  \E x \in T : \A y \in T : x <= y
  <1>1. IsWellFoundedOn(LessThan, Nat)
    BY NatLessThanWellFounded, Zenon DEF OpToRel, LessThan
  <1>2. PICK x \in T : \A y \in T : <<y, x>> \notin LessThan
    BY <1>1, WFMin
  <1>3. ASSUME NEW y \in T PROVE x <= y
    <2>1. x \in Nat /\ y \in Nat
      OBVIOUS
    <2>2. ~(y < x)
      BY <1>2, <2>1 DEF LessThan
    <2> QED BY <2>1, <2>2
  <1> QED BY <1>3

\* Induction over an interval of naturals, as a set that nothing is the first to leave.
LEMMA IntervalInduction ==
    ASSUME NEW from \in Nat, NEW to \in Nat, NEW T,
           from \in T, \A n \in from .. to : n < to /\ n \in T => n + 1 \in T
    PROVE  \A n \in from .. to : n \in T
  <1> SUFFICES ASSUME NEW n \in from .. to, n \notin T PROVE FALSE
    OBVIOUS
  <1> DEFINE Missing == {k \in from .. to : k \notin T}
  <1>1. Missing \in SUBSET Nat /\ Missing # {}
    OBVIOUS
  <1>2. PICK k \in Missing : \A j \in Missing : k <= j
    <2> HIDE DEF Missing
    <2> QED BY <1>1, LeastNatural
  <1>3. k \in from .. to /\ k \notin T /\ k # from
    BY <1>2
  <1>4. k - 1 \in from .. to /\ k - 1 < to /\ k - 1 + 1 = k
    BY <1>3
  <1>5. k - 1 \in T
    <2> SUFFICES ASSUME k - 1 \notin T PROVE FALSE
      OBVIOUS
    <2>1. k - 1 \in Missing
      BY <1>4
    <2>2. k <= k - 1 /\ k \in Int
      BY <1>2, <1>3, <2>1
    <2> QED BY <2>2
  <1> QED BY <1>3, <1>4, <1>5

LEMMA MaxIsIn ==
    ASSUME NEW T \in SUBSET Int, T # {}, NEW top \in Int, \A x \in T : x <= top
    PROVE  Max(T) \in T /\ \A x \in T : x <= Max(T)
  <1> DEFINE Short == {n \in Nat : \E x \in T : n = top - x}
  <1>1. Short \in SUBSET Nat /\ Short # {}
    <2>1. PICK x \in T : TRUE
      OBVIOUS
    <2>2. top - x \in Nat
      BY <2>1
    <2> QED BY <2>1, <2>2
  <1>2. PICK n \in Short : \A k \in Short : n <= k
    <2> HIDE DEF Short
    <2> QED BY <1>1, LeastNatural
  <1>3. PICK x \in T : n = top - x
    BY <1>2
  <1>4. ASSUME NEW y \in T PROVE x >= y
    <2>1. y \in Int /\ y <= top /\ x \in Int /\ n \in Nat
      BY <1>2, <1>3
    <2>2. top - y \in Short
      BY <2>1
    <2>3. n <= top - y
      BY <1>2, <2>2
    <2> QED BY <2>1, <2>3, <1>3
  <1>5. Max(T) \in T /\ \A y \in T : Max(T) >= y
    BY <1>4 DEF Max
  <1> QED BY <1>5

-----------------------------------------------------------------------------
(* Loops and sums. *)

Runs(f, N, T, base, step) ==
    f \in [0 .. N -> T] /\ f[0] = base /\ \A n \in 1 .. N : f[n] = step[<<n, f[n - 1]>>]

\* A loop of N rounds runs: the recursive function that stands for it exists.
LEMMA LoopRuns ==
    ASSUME NEW N \in Nat, NEW T, NEW base \in T, NEW step \in [(1 .. N) \X T -> T]
    PROVE  \E f : Runs(f, N, T, base, step)
  <1> DEFINE Loop(f, n) == /\ f \in [0 .. n -> T] /\ f[0] = base
                           /\ \A i \in 1 .. n : f[i] = step[<<i, f[i - 1]>>]
             Looped == {n \in Nat : \E f : Loop(f, n)}
  <1>1. 0 \in Looped
    <2>1. Loop([i \in 0 .. 0 |-> base], 0)
      OBVIOUS
    <2> QED BY <2>1
  <1>2. ASSUME NEW n \in 0 .. N, n < N, n \in Looped PROVE n + 1 \in Looped
    <2>1. PICK f : Loop(f, n)
      BY <1>2
    <2> DEFINE g == [i \in 0 .. n + 1 |-> IF i = n + 1 THEN step[<<n + 1, f[n]>>] ELSE f[i]]
    <2>2. n + 1 \in 1 .. N /\ n \in 0 .. n /\ f[n] \in T
      BY <2>1, <1>2
    <2>3. step[<<n + 1, f[n]>>] \in T
      BY <2>2
    <2>4. g \in [0 .. n + 1 -> T] /\ g[0] = base
      BY <2>1, <2>3
    <2>5. ASSUME NEW i \in 1 .. n + 1 PROVE g[i] = step[<<i, g[i - 1]>>]
      <3>1. CASE i = n + 1
        <4>1. g[n] = f[n] /\ g[n + 1] = step[<<n + 1, f[n]>>]
          BY <2>2
        <4>2. i - 1 = n
          BY <3>1
        <4> HIDE DEF g
        <4> QED BY <3>1, <4>1, <4>2
      <3>2. CASE i \in 1 .. n
        <4>1. g[i] = f[i] /\ g[i - 1] = f[i - 1]
          BY <3>2
        <4> QED BY <2>1, <3>2, <4>1
      <3> QED BY <3>1, <3>2
    <2> HIDE DEF g
    <2>6. Loop(g, n + 1)
      BY <2>4, <2>5
    <2> HIDE DEF Loop
    <2> QED BY <2>6
  <1>3. N \in Looped
    <2> HIDE DEF Looped
    <2>1. \A n \in 0 .. N : n \in Looped
      BY <1>1, <1>2, IntervalInduction
    <2> QED BY <2>1
  <1> QED BY <1>3 DEF Runs

\* Sums up to each place.
SumsUp(f, s) == f[0] = 0 /\ \A n \in 1 .. Len(s) : f[n] = f[n - 1] + s[n]

LEMMA SumExists ==
    ASSUME NEW s \in Seq(Int)
    PROVE  \E f \in [0 .. Len(s) -> Int] : SumsUp(f, s) /\ SumSeq(s) = f[Len(s)]
  <1> DEFINE step == [p \in (1 .. Len(s)) \X Int |-> p[2] + s[p[1]]]
             Loop(f) == f = [n \in 0 .. Len(s) |-> IF n = 0 THEN 0 ELSE f[n - 1] + s[n]]
  <1>1. Len(s) \in Nat /\ \A n \in 1 .. Len(s) : s[n] \in Int
    BY LenProperties, ElementOfSeq
  <1>2. step \in [(1 .. Len(s)) \X Int -> Int]
    BY <1>1
  <1>3. PICK f \in [0 .. Len(s) -> Int] : f[0] = 0 /\ \A n \in 1 .. Len(s) : f[n] = step[<<n, f[n - 1]>>]
    <2>1. \E f : Runs(f, Len(s), Int, 0, step)
      <3> DEFINE N == Len(s)  T == Int  base == 0
      <3>1. N \in Nat /\ base \in T /\ step \in [(1 .. N) \X T -> T]
        BY <1>1, <1>2
      <3> HIDE DEF step, N, T, base
      <3>2. \E f : Runs(f, N, T, base, step)
        BY <3>1, LoopRuns
      <3> QED BY <3>2 DEF N, T, base
    <2> QED BY <2>1 DEF Runs
  <1>4. Loop(f)
    <2>1. ASSUME NEW n \in 0 .. Len(s) PROVE f[n] = IF n = 0 THEN 0 ELSE f[n - 1] + s[n]
      <3>1. CASE n # 0
        <4>1. n \in 1 .. Len(s) /\ f[n - 1] \in Int
          BY <1>1, <1>3, <3>1
        <4> QED BY <1>3, <3>1, <4>1
      <3> QED BY <1>3, <3>1
    <2> QED BY <1>3, <2>1
  <1> DEFINE sum == CHOOSE g : Loop(g)
  <1>5. Loop(sum)
    <2> HIDE DEF Loop
    <2> QED BY <1>4
  <1>6. SumSeq(s) = sum[Len(s)]
    BY DEF SumSeq
  <1> HIDE DEF sum
  <1>7. SumsUp(sum, s)
    <2>1. \A n \in 0 .. Len(s) : sum[n] = IF n = 0 THEN 0 ELSE sum[n - 1] + s[n]
      BY <1>5
    <2> HIDE DEF Loop
    <2>2. \A n \in 1 .. Len(s) : n \in 0 .. Len(s) /\ n # 0
      BY <1>1
    <2>3. 0 \in 0 .. Len(s)
      BY <1>1
    <2> QED BY <2>1, <2>2, <2>3 DEF SumsUp
  <1> DEFINE Typed == {n \in Nat : sum[n] \in Int}
  <1>8. \A n \in 0 .. Len(s) : n \in Typed
    <2>1. 0 \in Typed
      BY <1>7 DEF SumsUp
    <2>2. ASSUME NEW n \in 0 .. Len(s), n < Len(s), n \in Typed PROVE n + 1 \in Typed
      <3>1. n + 1 \in 1 .. Len(s) /\ n + 1 - 1 = n
        BY <1>1, <2>2
      <3>2. sum[n + 1] = sum[n] + s[n + 1] /\ s[n + 1] \in Int /\ sum[n] \in Int
        BY <1>1, <1>7, <2>2, <3>1 DEF SumsUp
      <3> QED BY <3>1, <3>2
    <2> HIDE DEF Typed
    <2> QED BY <1>1, <2>1, <2>2, IntervalInduction
  <1>9. sum \in [0 .. Len(s) -> Int]
    BY <1>5, <1>8
  <1> QED BY <1>6, <1>7, <1>9

\* Whatever counts up along a sequence ends with its sum.
LEMMA SumIs ==
    ASSUME NEW s \in Seq(Int), NEW f, SumsUp(f, s)
    PROVE  SumSeq(s) = f[Len(s)] /\ \A n \in 0 .. Len(s) : f[n] \in Int
  <1>1. PICK g \in [0 .. Len(s) -> Int] : SumsUp(g, s) /\ SumSeq(s) = g[Len(s)]
    BY SumExists
  <1>2. Len(s) \in Nat
    BY LenProperties
  <1> DEFINE Same == {n \in Nat : f[n] = g[n]}
  <1>3. \A n \in 0 .. Len(s) : n \in Same
    <2>1. 0 \in Same
      BY <1>1 DEF SumsUp
    <2>2. ASSUME NEW n \in 0 .. Len(s), n < Len(s), n \in Same PROVE n + 1 \in Same
      <3>1. n + 1 \in 1 .. Len(s) /\ n + 1 - 1 = n
        BY <1>2, <2>2
      <3>2. f[n + 1] = f[n] + s[n + 1] /\ g[n + 1] = g[n] + s[n + 1] /\ f[n] = g[n]
        BY <1>1, <2>2, <3>1 DEF SumsUp
      <3> QED BY <3>1, <3>2
    <2> HIDE DEF Same
    <2> QED BY <1>2, <2>1, <2>2, IntervalInduction
  <1> QED BY <1>1, <1>2, <1>3

\* Every stretch of a sequence sums to the difference between its ends.
LEMMA SumOfStretch ==
    ASSUME NEW s \in Seq(Int), NEW f, SumsUp(f, s),
           NEW m \in 0 .. Len(s), NEW n \in 0 .. Len(s), m <= n
    PROVE  SumSeq(SubSeq(s, m + 1, n)) = f[n] - f[m]
  <1>1. Len(s) \in Nat /\ (\A i \in 1 .. Len(s) : s[i] \in Int) /\ \A i \in 0 .. Len(s) : f[i] \in Int
    BY LenProperties, ElementOfSeq, SumIs
  <1> DEFINE part == SubSeq(s, m + 1, n)
             g == [i \in 0 .. n - m |-> f[m + i] - f[m]]
  <1>2. part \in Seq(Int) /\ Len(part) = n - m /\ \A i \in 1 .. n - m : part[i] = s[m + i]
    BY <1>1
  <1> HIDE DEF part
  <1>3. SumsUp(g, part)
    <2>1. g[0] = 0
      BY <1>1
    <2>2. ASSUME NEW i \in 1 .. Len(part) PROVE g[i] = g[i - 1] + part[i]
      <3>1. /\ i \in 1 .. n - m /\ i - 1 \in 0 .. n - m /\ i \in 0 .. n - m
            /\ m + i \in 1 .. Len(s) /\ m + i - 1 = m + (i - 1) /\ m + i - 1 \in 0 .. Len(s)
        BY <1>1, <1>2
      <3>2. f[m + i] = f[m + i - 1] + s[m + i]
        <4> DEFINE k == m + i
        <4> HIDE DEF k
        <4>1. k \in 1 .. Len(s) => f[k] = f[k - 1] + s[k]
          BY DEF SumsUp
        <4> QED BY <3>1, <4>1 DEF k
      <3>3. g[i] = f[m + i] - f[m] /\ g[i - 1] = f[m + i - 1] - f[m] /\ part[i] = s[m + i]
        BY <1>2, <3>1
      <3> DEFINE now == f[m + i]  last == f[m + i - 1]  low == f[m]  add == s[m + i]
      <3>4. {now, last, low, add} \subseteq Int /\ now = last + add
        BY <1>1, <3>1, <3>2
      <3>5. g[i] = now - low /\ g[i - 1] = last - low /\ part[i] = add
        BY <3>3
      <3> HIDE DEF now, last, low, add, g
      <3> QED BY <3>4, <3>5
    <2> HIDE DEF g
    <2> QED BY <2>1, <2>2 DEF SumsUp
  <1>4. SumSeq(part) = g[n - m]
    <2> HIDE DEF g
    <2> QED BY <1>2, <1>3, SumIs
  <1>5. n - m \in 0 .. n - m /\ m + (n - m) = n
    BY <1>1
  <1> QED BY <1>4, <1>5 DEF part

\* What joins the parts of a sequence.
LEMMA JoinedRuns ==
    ASSUME NEW S, NEW parts \in Seq(Seq(S))
    PROVE  \E f \in [0 .. Len(parts) -> Seq(S)] :
              /\ f[0] = << >> /\ \A n \in 1 .. Len(parts) : f[n] = f[n - 1] \o parts[n]
              /\ Joined(parts) = f[Len(parts)]
  <1> DEFINE N == Len(parts)  T == Seq(S)  base == << >>
             After(s, i) == s \o parts[i]
             Loop(f) == f = [n \in 0 .. N |-> IF n = 0 THEN base ELSE After(f[n - 1], n)]
             step == [p \in (1 .. N) \X T |-> After(p[2], p[1])]
  <1>1. N \in Nat /\ base \in T
    BY LenProperties, EmptySeq
  <1>2. ASSUME NEW s \in T, NEW i \in 1 .. N PROVE After(s, i) \in T
    <2>1. parts[i] \in Seq(S) /\ s \in Seq(S)
      BY ElementOfSeq
    <2> QED BY <2>1
  <1> HIDE DEF N, T, base, After
  <1>3. step \in [(1 .. N) \X T -> T]
    BY <1>2
  <1>4. PICK f : f \in [0 .. N -> T] /\ f[0] = base /\ \A n \in 1 .. N : f[n] = step[<<n, f[n - 1]>>]
    <2> HIDE DEF step
    <2>1. \E f : Runs(f, N, T, base, step)
      BY <1>1, <1>3, LoopRuns
    <2> QED BY <2>1 DEF Runs
  <1>5. Loop(f)
    <2>1. ASSUME NEW n \in 0 .. N PROVE f[n] = IF n = 0 THEN base ELSE After(f[n - 1], n)
      <3>1. CASE n # 0
        <4>1. n \in 1 .. N /\ n - 1 \in 0 .. N
          BY <1>1, <3>1
        <4> DEFINE last == f[n - 1]
        <4>2. last \in T /\ f[n] = step[<<n, last>>]
          <5> HIDE DEF step
          <5> QED BY <1>4, <4>1
        <4> HIDE DEF last
        <4>3. <<n, last>> \in (1 .. N) \X T
          BY <4>1, <4>2
        <4>4. step[<<n, last>>] = After(last, n)
          BY <4>3
        <4> HIDE DEF step
        <4> QED BY <3>1, <4>2, <4>4 DEF last
      <3>2. CASE n = 0
        <4> HIDE DEF step
        <4> QED BY <1>4, <3>2
      <3> QED BY <3>1, <3>2
    <2> HIDE DEF step
    <2>2. f = [n \in 0 .. N |-> f[n]]
      BY <1>4
    <2> QED BY <2>1, <2>2
  <1> DEFINE run == CHOOSE g : Loop(g)
  <1>6. Loop(run)
    <2> HIDE DEF Loop
    <2> QED BY <1>5
  <1>7. Joined(parts) = run[N]
    BY DEF Joined, N, base, After
  <1> HIDE DEF run
  <1>8. /\ run = [n \in 0 .. N |-> run[n]]
        /\ \A n \in 0 .. N : run[n] = IF n = 0 THEN base ELSE After(run[n - 1], n)
    BY <1>6
  <1> HIDE DEF Loop
  <1>9. run[0] = base /\ \A n \in 1 .. N : run[n] = After(run[n - 1], n)
    <2>1. 0 \in 0 .. N /\ \A n \in 1 .. N : n \in 0 .. N /\ n # 0
      BY <1>1
    <2> QED BY <1>8, <2>1
  <1> DEFINE Typed == {n \in Nat : run[n] \in T}
  <1>10. \A n \in 0 .. N : n \in Typed
    <2>1. 0 \in Typed
      BY <1>1, <1>9
    <2>2. ASSUME NEW n \in 0 .. N, n < N, n \in Typed PROVE n + 1 \in Typed
      <3> DEFINE m == n + 1
      <3>1. m \in 1 .. N /\ m - 1 = n /\ m \in Nat
        BY <1>1, <2>2
      <3> HIDE DEF m
      <3>2. run[m] = After(run[n], m) /\ run[n] \in T
        BY <1>9, <2>2, <3>1
      <3> QED BY <1>2, <3>1, <3>2 DEF m
    <2> HIDE DEF Typed
    <2>3. 0 \in Nat
      OBVIOUS
    <2> QED BY <1>1, <2>1, <2>2, <2>3, IntervalInduction
  <1>11. run \in [0 .. N -> T]
    BY <1>8, <1>10
  <1> QED BY <1>7, <1>9, <1>11 DEF N, T, base, After
=============================================================================
