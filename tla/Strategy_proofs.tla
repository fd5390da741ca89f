-------------------------- MODULE Strategy_proofs ---------------------------
(***************************************************************************)
(* The edges of the graph, the plans made over them, the cycles the        *)
(* strategy offers and the drift watch.                                    *)
(*                                                                         *)
(* A walk of a book never does better than its touch, so an edge's round   *)
(* trip loses; an order taken level by level on the book it was sized on   *)
(* does as well as the sizer said, so a chain of them does; ADWIN's        *)
(* buckets are stretches of the errors that end with the last.  Both       *)
(* searches for cycles close rings of usable edges and write a trade down  *)
(* in one way, so that its key stands for it, and a key is on cooldown     *)
(* exactly when its trade was shown less than a cooldown ago.              *)
(***************************************************************************)
EXTENDS CurrencyGraph, CyclePlanning, DriftWatch, CycleSearch, Inductions, FiniteSetTheorems

-----------------------------------------------------------------------------
(* DriftWatch *)

Buckets == [total : Int, count : Nat]

\* Where the buckets begin and end among n errors, whose sums are f.
Fits(buckets, edges, f, n) ==
    /\ buckets \in Seq(Buckets)
    /\ edges \in [0 .. Len(buckets) -> 0 .. n]
    /\ \A i \in 1 .. Len(buckets) :
         /\ edges[i - 1] <= edges[i]
         /\ buckets[i] = Bucket(f[edges[i]] - f[edges[i - 1]], edges[i] - edges[i - 1])

\* Sums up to each of n errors.
ErrorSums(f, n) == \A j \in 0 .. n : f[j] \in Int

Agree(f, g, n) == \A j \in 0 .. n : f[j] = g[j]

\* ... from one error to another.
Between(c, ends, f, n, lo, hi) == Fits(c, ends, f, n) /\ ends[0] = lo /\ ends[Len(c)] = hi

SameEnds(b, edges, c, ends) == ends[0] = edges[0] /\ ends[Len(c)] = edges[Len(b)]

DwInv ==
    /\ dwErrors \in Seq(Int)
    /\ dwAdwin \in [buckets : Seq(Buckets), total : Int, count : Nat, last : Nat]
    /\ \E f, edges :
         /\ SumsUp(f, dwErrors)
         /\ Fits(dwAdwin.buckets, edges, f, Len(dwErrors))
         /\ edges[0] = Len(dwErrors) - dwAdwin.count
         /\ edges[Len(dwAdwin.buckets)] = Len(dwErrors)
         /\ dwAdwin.total = f[Len(dwErrors)] - f[edges[0]]

\* What the first of the buckets count and come to.
LEMMA PrefixCounts ==
    ASSUME NEW n \in Nat, NEW f, ErrorSums(f, n),
           NEW b, NEW edges, Fits(b, edges, f, n), NEW k \in 0 .. Len(b)
    PROVE  /\ CountOf(SubSeq(b, 1, k)) = edges[k] - edges[0]
           /\ TotalOf(SubSeq(b, 1, k)) = f[edges[k]] - f[edges[0]]
  <1> DEFINE p == SubSeq(b, 1, k)
             counts == [i \in DOMAIN p |-> p[i].count]
             totals == [i \in DOMAIN p |-> p[i].total]
             g == [j \in 0 .. k |-> edges[j] - edges[0]]
             h == [j \in 0 .. k |-> f[edges[j]] - f[edges[0]]]
  <1>1. /\ b \in Seq(Buckets) /\ Len(b) \in Nat
        /\ \A j \in 0 .. Len(b) : edges[j] \in 0 .. n /\ f[edges[j]] \in Int /\ edges[j] \in Int
    BY LenProperties DEF Fits, ErrorSums
  <1>2. p \in Seq(Buckets) /\ Len(p) = k /\ DOMAIN p = 1 .. k /\ \A i \in 1 .. k : p[i] = b[i] /\ p[i] \in Buckets
    BY <1>1
  <1> HIDE DEF p
  <1>3. counts \in Seq(Int) /\ Len(counts) = k /\ totals \in Seq(Int) /\ Len(totals) = k
    <2>1. \A i \in 1 .. k : p[i].count \in Int /\ p[i].total \in Int
      BY <1>2 DEF Buckets
    <2>2. counts = [i \in 1 .. k |-> p[i].count] /\ totals = [i \in 1 .. k |-> p[i].total]
      BY <1>2
    <2> HIDE DEF counts, totals
    <2>3. k \in Nat
      BY <1>1
    <2> QED BY <2>1, <2>2, <2>3
  <1>4. ASSUME NEW i \in 1 .. k
        PROVE  g[i] = g[i - 1] + counts[i] /\ h[i] = h[i - 1] + totals[i]
    <2>1. i \in 1 .. Len(b) /\ i - 1 \in 0 .. k /\ i \in 0 .. k /\ i - 1 \in 0 .. Len(b) /\ i \in 0 .. Len(b) /\ 0 \in 0 .. Len(b)
      BY <1>1
    <2>2. p[i] = Bucket(f[edges[i]] - f[edges[i - 1]], edges[i] - edges[i - 1])
      BY <1>2, <2>1 DEF Fits
    <2>3. counts[i] = edges[i] - edges[i - 1] /\ totals[i] = f[edges[i]] - f[edges[i - 1]]
      BY <1>2, <2>2 DEF Bucket
    <2>4. /\ g[i] = edges[i] - edges[0] /\ g[i - 1] = edges[i - 1] - edges[0]
          /\ h[i] = f[edges[i]] - f[edges[0]] /\ h[i - 1] = f[edges[i - 1]] - f[edges[0]]
      BY <2>1
    <2> DEFINE e0 == edges[0]  e1 == edges[i - 1]  e2 == edges[i]  f0 == f[e0]  f1 == f[e1]  f2 == f[e2]
    <2>5. {e0, e1, e2, f0, f1, f2} \subseteq Int
      BY <1>1, <2>1
    <2>6. g[i] = e2 - e0 /\ g[i - 1] = e1 - e0 /\ h[i] = f2 - f0 /\ h[i - 1] = f1 - f0
          /\ counts[i] = e2 - e1 /\ totals[i] = f2 - f1
      BY <2>3, <2>4
    <2> HIDE DEF e0, e1, e2, f0, f1, f2, g, h, counts, totals
    <2> QED BY <2>5, <2>6
  <1>5. g[0] = 0 /\ h[0] = 0 /\ g[k] = edges[k] - edges[0] /\ h[k] = f[edges[k]] - f[edges[0]]
    BY <1>1
  <1> HIDE DEF g, h, counts, totals
  <1>6. SumsUp(g, counts) /\ SumsUp(h, totals)
    BY <1>3, <1>4, <1>5 DEF SumsUp
  <1>7. SumSeq(counts) = g[k] /\ SumSeq(totals) = h[k]
    BY <1>3, <1>6, SumIs
  <1> QED BY <1>5, <1>7 DEF CountOf, TotalOf, counts, totals, p

\* Merging two neighbours takes away the edge between them.
LEMMA MergedFits ==
    ASSUME NEW n \in Nat, NEW f, ErrorSums(f, n),
           NEW b, NEW edges, Fits(b, edges, f, n), NEW i \in 2 .. Len(b)
    PROVE  /\ Merged(b, i) \in Seq(Buckets) /\ Len(Merged(b, i)) \in Nat /\ Len(Merged(b, i)) >= Len(b) - 1
           /\ \E ends : Fits(Merged(b, i), ends, f, n) /\ SameEnds(b, edges, Merged(b, i), ends)
  <1>1. /\ b \in Seq(Buckets) /\ Len(b) \in Nat
        /\ \A j \in 0 .. Len(b) : edges[j] \in 0 .. n /\ f[edges[j]] \in Int /\ edges[j] \in Int
    BY LenProperties DEF Fits, ErrorSums
  <1>2. CASE Merged(b, i) = b
    BY <1>1, <1>2 DEF SameEnds
  <1>3. CASE Merged(b, i) # b
    <2> DEFINE first == SubSeq(b, 1, i - 2)  rest == SubSeq(b, i + 1, Len(b))
               one == Bucket(b[i - 1].total + b[i].total, 2 * b[i].count)
               m == first \o <<one>> \o rest
               L == Len(b)
               ends == [j \in 0 .. L - 1 |-> IF j < i - 1 THEN edges[j] ELSE edges[j + 1]]
    <2>1. Merged(b, i) = m /\ b[i - 1].count = b[i].count
      BY <1>3 DEF Merged
    <2>2. i - 1 \in 1 .. L /\ i \in 1 .. L /\ i - 2 \in 0 .. L /\ i - 1 - 1 = i - 2 /\ i - 1 \in 0 .. L /\ i \in 0 .. L
      BY <1>1
    <2>3. /\ b[i - 1] = Bucket(f[edges[i - 1]] - f[edges[i - 2]], edges[i - 1] - edges[i - 2])
          /\ b[i] = Bucket(f[edges[i]] - f[edges[i - 1]], edges[i] - edges[i - 1])
          /\ edges[i - 2] <= edges[i - 1] /\ edges[i - 1] <= edges[i]
      <3> DEFINE k == i - 1
      <3>1. \A j \in 1 .. L : /\ edges[j - 1] <= edges[j]
                              /\ b[j] = Bucket(f[edges[j]] - f[edges[j - 1]], edges[j] - edges[j - 1])
        BY DEF Fits
      <3>2. /\ edges[k - 1] <= edges[k]
            /\ b[k] = Bucket(f[edges[k]] - f[edges[k - 1]], edges[k] - edges[k - 1])
        <4> HIDE DEF k, L
        <4>1. k \in 1 .. L
          BY <2>2 DEF k
        <4> QED BY <3>1, <4>1
      <3>3. k - 1 = i - 2
        BY <2>2
      <3> QED BY <2>2, <3>1, <3>2, <3>3
    <2>4. one = Bucket(f[edges[i]] - f[edges[i - 2]], edges[i] - edges[i - 2]) /\ one \in Buckets
      <3> DEFINE e1 == edges[i - 2]  e2 == edges[i - 1]  e3 == edges[i]  f1 == f[e1]  f2 == f[e2]  f3 == f[e3]
      <3>1. {e1, e2, e3, f1, f2, f3} \subseteq Int /\ e1 <= e2 /\ e2 <= e3
        BY <1>1, <2>2, <2>3
      <3>2. /\ b[i - 1].total = f2 - f1 /\ b[i].total = f3 - f2
            /\ b[i - 1].count = e2 - e1 /\ b[i].count = e3 - e2
        BY <2>3 DEF Bucket
      <3>3. e2 - e1 = e3 - e2
        BY <2>1, <3>2
      <3>4. one = Bucket((f2 - f1) + (f3 - f2), 2 * (e3 - e2))
        BY <3>2
      <3> HIDE DEF e1, e2, e3, f1, f2, f3, one
      <3>5. (f2 - f1) + (f3 - f2) = f3 - f1 /\ 2 * (e3 - e2) = e3 - e1 /\ f3 - f1 \in Int /\ e3 - e1 \in Nat
        <4>1. e1 \in Int /\ e2 \in Int /\ e3 \in Int /\ f1 \in Int /\ f2 \in Int /\ f3 \in Int
          BY <3>1
        <4>2. e1 <= e2 /\ e2 <= e3
          BY <3>1
        <4>3. (f2 - f1) + (f3 - f2) = f3 - f1 /\ f3 - f1 \in Int
          BY <4>1
        <4> QED BY <3>3, <4>1, <4>2, <4>3
      <3>6. one = Bucket(f3 - f1, e3 - e1) /\ one \in Buckets
        BY <3>4, <3>5 DEF Bucket, Buckets
      <3> QED BY <3>6 DEF e1, e2, e3, f1, f2, f3
    <2>5. /\ first \in Seq(Buckets) /\ Len(first) = i - 2 /\ \A j \in 1 .. i - 2 : first[j] = b[j]
          /\ rest \in Seq(Buckets) /\ Len(rest) = L - i /\ \A j \in 1 .. L - i : rest[j] = b[i + j]
      <3>1. first \in Seq(Buckets) /\ Len(first) = i - 2 /\ \A j \in 1 .. i - 2 : first[j] = b[j]
        BY <1>1
      <3>2. rest \in Seq(Buckets) /\ Len(rest) = L - i /\ \A j \in 1 .. L - i : rest[j] = b[i + j]
        BY <1>1
      <3> HIDE DEF first, rest
      <3> QED BY <3>1, <3>2
    <2> HIDE DEF first, rest, one
    <2>6. /\ m \in Seq(Buckets) /\ Len(m) = L - 1
          /\ \A j \in 1 .. i - 2 : m[j] = b[j]
          /\ m[i - 1] = one
          /\ \A j \in i .. L - 1 : m[j] = b[j + 1]
      <3> DEFINE h == first \o <<one>>
      <3>0. /\ h \in Seq(Buckets) /\ Len(h) = i - 1 /\ h[i - 1] = one
            /\ \A j \in 1 .. i - 2 : h[j] = b[j]
        BY <1>1, <2>4, <2>5
      <3> HIDE DEF h
      <3>1. m \in Seq(Buckets) /\ Len(m) = L - 1
        <4>1. m = h \o rest
          BY DEF h
        <4> HIDE DEF m
        <4>2. h \o rest \in Seq(Buckets) /\ Len(h \o rest) = Len(h) + Len(rest)
          BY <2>5, <3>0, ConcatProperties, Zenon
        <4>3. Len(h) + Len(rest) = L - 1
          <5> HIDE DEF L
          <5>1. L \in Nat /\ i \in 2 .. L /\ Len(h) = i - 1 /\ Len(rest) = L - i
            BY <1>1, <2>5, <3>0 DEF L
          <5> QED BY <5>1
        <4> QED BY <4>1, <4>2, <4>3
      <3>2. \A j \in 1 .. i - 1 : m[j] = h[j]
        BY <1>1, <2>5, <3>0 DEF h
      <3>3. m[i - 1] = one /\ \A j \in 1 .. i - 2 : m[j] = b[j]
        <4>1. i - 1 \in 1 .. i - 1 /\ \A j \in 1 .. i - 2 : j \in 1 .. i - 1
          BY <1>1
        <4> QED BY <3>0, <3>2, <4>1
      <3>4. ASSUME NEW j \in i .. L - 1 PROVE m[j] = b[j + 1]
        <4>1. m[j] = rest[j - (i - 1)]
          BY <1>1, <2>5, <3>0 DEF h
        <4>2. j - (i - 1) \in 1 .. L - i /\ i + (j - (i - 1)) = j + 1
          BY <1>1
        <4> QED BY <2>5, <4>1, <4>2
      <3> QED BY <3>1, <3>3, <3>4
    <2> HIDE DEF m
    <2>7. /\ ends \in [0 .. L - 1 -> 0 .. n]
          /\ ends[0] = edges[0] /\ ends[L - 1] = edges[L]
      BY <1>1, <2>2
    <2>8. ASSUME NEW j \in 1 .. L - 1
          PROVE  /\ ends[j - 1] <= ends[j]
                 /\ m[j] = Bucket(f[ends[j]] - f[ends[j - 1]], ends[j] - ends[j - 1])
      <3>0. \A k \in 1 .. L : /\ edges[k - 1] <= edges[k]
                              /\ b[k] = Bucket(f[edges[k]] - f[edges[k - 1]], edges[k] - edges[k - 1])
        BY DEF Fits
      <3>1. CASE j < i - 1
        <4>1. ends[j] = edges[j] /\ ends[j - 1] = edges[j - 1] /\ j \in 1 .. i - 2 /\ j \in 1 .. L
          BY <1>1, <3>1
        <4> QED BY <3>0, <4>1, <2>6
      <3>2. CASE j = i - 1
        <4>1. ends[j] = edges[i] /\ ends[j - 1] = edges[i - 2]
          BY <1>1, <3>2
        <4>2. edges[i - 2] <= edges[i]
          <5>1. edges[i - 2] \in Int /\ edges[i - 1] \in Int /\ edges[i] \in Int
            BY <1>1, <2>2
          <5> QED BY <5>1, <2>3
        <4> QED BY <2>4, <2>6, <3>2, <4>1, <4>2
      <3>3. CASE j > i - 1
        <4>1. ends[j] = edges[j + 1] /\ ends[j - 1] = edges[j] /\ j \in i .. L - 1 /\ j + 1 \in 1 .. L /\ j + 1 - 1 = j
          BY <1>1, <3>3
        <4> QED BY <3>0, <4>1, <2>6
      <3> QED BY <1>1, <3>1, <3>2, <3>3
    <2> HIDE DEF ends
    <2>9. Fits(m, ends, f, n)
      BY <2>6, <2>7, <2>8 DEF Fits
    <2>10. SameEnds(b, edges, m, ends)
      BY <2>6, <2>7 DEF SameEnds
    <2> QED BY <1>1, <2>1, <2>6, <2>9, <2>10
  <1> QED BY <1>2, <1>3

\* Appending an error as a bucket of its own.
LEMMA AppendedFits ==
    ASSUME NEW n \in Nat, NEW N \in Nat, N = n + 1, NEW f, NEW g, ErrorSums(g, N), Agree(f, g, n),
           NEW e \in Int, g[N] = g[n] + e,
           NEW b, NEW edges, Fits(b, edges, f, n), edges[Len(b)] = n
    PROVE  /\ Len(Append(b, Bucket(e, 1))) \in Nat \ {0}
           /\ \E ends : Between(Append(b, Bucket(e, 1)), ends, g, N, edges[0], N)
  <1> DEFINE L == Len(b)
             one == Bucket(e, 1)
             m == Append(b, one)
             ends == [j \in 0 .. L + 1 |-> IF j = L + 1 THEN n + 1 ELSE edges[j]]
  <1>1. b \in Seq(Buckets) /\ L \in Nat /\ \A j \in 0 .. L : edges[j] \in 0 .. n
    BY LenProperties DEF Fits, ErrorSums
  <1>2. one \in Buckets
    BY DEF Bucket, Buckets
  <1> HIDE DEF one
  <1>3. m \in Seq(Buckets) /\ Len(m) = L + 1 /\ m[L + 1] = one /\ \A j \in 1 .. L : m[j] = b[j]
    BY <1>1, <1>2
  <1> HIDE DEF m
  <1>4. ends \in [0 .. L + 1 -> 0 .. n + 1] /\ ends[0] = edges[0] /\ ends[L + 1] = n + 1
    BY <1>1
  <1>5. ASSUME NEW j \in 1 .. L + 1
        PROVE  /\ ends[j - 1] <= ends[j]
               /\ m[j] = Bucket(g[ends[j]] - g[ends[j - 1]], ends[j] - ends[j - 1])
    <2>1. CASE j \in 1 .. L
      <3>1. ends[j] = edges[j] /\ ends[j - 1] = edges[j - 1] /\ j - 1 \in 0 .. L /\ j \in 0 .. L
        BY <1>1, <2>1
      <3>2. /\ edges[j - 1] <= edges[j]
            /\ b[j] = Bucket(f[edges[j]] - f[edges[j - 1]], edges[j] - edges[j - 1])
        BY <2>1 DEF Fits
      <3>3. f[edges[j]] = g[edges[j]] /\ f[edges[j - 1]] = g[edges[j - 1]]
        BY <1>1, <3>1 DEF Agree
      <3> QED BY <1>3, <2>1, <3>1, <3>2, <3>3
    <2>2. CASE j = L + 1
      <3>1. ends[j] = n + 1 /\ ends[j - 1] = n
        BY <1>1, <2>2
      <3>2. g[n + 1] - g[n] = e /\ n + 1 - n = 1
        <4> DEFINE hi == g[n + 1]  lo == g[n]
        <4>1. hi \in Int /\ lo \in Int /\ hi = lo + e
          BY DEF ErrorSums
        <4> HIDE DEF hi, lo
        <4>2. hi - lo = e
          BY <4>1
        <4> QED BY <4>2 DEF hi, lo
      <3> QED BY <1>3, <2>2, <3>1, <3>2 DEF one
    <2> QED BY <1>1, <2>1, <2>2
  <1> HIDE DEF ends
  <1>6. Fits(m, ends, g, n + 1)
    BY <1>3, <1>4, <1>5 DEF Fits
  <1>7. Len(m) \in Nat \ {0} /\ ends[Len(m)] = n + 1
    BY <1>1, <1>3, <1>4
  <1> QED BY <1>4, <1>6, <1>7 DEF m, one, Between

\* A whole pass of merging keeps the ends.
LEMMA CompressFits ==
    ASSUME NEW n \in Nat, NEW f, ErrorSums(f, n),
           NEW b, NEW edges, Fits(b, edges, f, n), Len(b) # 0
    PROVE  \E ends : Fits(Compress(b), ends, f, n) /\ SameEnds(b, edges, Compress(b), ends)
  <1> DEFINE L == Len(b)
             N == L - 1
             Merge(c, i) == IF c \in Seq(Buckets) /\ i \in 2 .. Len(c) /\ Merged(c, i) \in Seq(Buckets)
                            THEN Merged(c, i) ELSE c
             step == [p \in (1 .. N) \X Seq(Buckets) |-> Merge(p[2], L + 1 - p[1])]
             Loop(h) == h = [k \in 0 .. N |-> IF k = 0 THEN b ELSE Merged(h[k - 1], L + 1 - k)]
             Kept(c, k) == /\ c \in Seq(Buckets) /\ Len(c) \in Nat /\ Len(c) >= L - k
                           /\ \E ends : Fits(c, ends, f, n) /\ SameEnds(b, edges, c, ends)
  <1>1. b \in Seq(Buckets) /\ L \in Nat /\ N \in Nat
    BY LenProperties DEF Fits, ErrorSums
  <1>2. PICK h : Runs(h, N, Seq(Buckets), b, step)
    <2>1. step \in [(1 .. N) \X Seq(Buckets) -> Seq(Buckets)]
      BY <1>1
    <2> HIDE DEF step, N
    <2> QED BY <1>1, <2>1, LoopRuns
  <1>3. ASSUME NEW k \in 1 .. N, Kept(h[k - 1], k - 1)
        PROVE  h[k] = Merged(h[k - 1], L + 1 - k) /\ Kept(h[k], k)
    <2> DEFINE c == h[k - 1]  i == L + 1 - k
    <2>1. h[k] = step[<<k, c>>] /\ c \in Seq(Buckets) /\ Len(c) \in Nat /\ Len(c) >= L - (k - 1)
      BY <1>2, <1>3 DEF Runs
    <2>2. PICK before : Fits(c, before, f, n) /\ SameEnds(b, edges, c, before)
      BY <1>3
    <2>3. i \in 2 .. Len(c)
      <3> HIDE DEF c
      <3> QED BY <1>1, <2>1
    <2>4. /\ Merged(c, i) \in Seq(Buckets) /\ Len(Merged(c, i)) \in Nat /\ Len(Merged(c, i)) >= Len(c) - 1
          /\ \E ends : Fits(Merged(c, i), ends, f, n) /\ SameEnds(c, before, Merged(c, i), ends)
      <3> HIDE DEF c, i
      <3> QED BY <2>2, <2>3, MergedFits
    <2>5. h[k] = Merged(c, i)
      BY <2>1, <2>3, <2>4
    <2>6. Len(Merged(c, i)) >= L - k
      <3> HIDE DEF c, i
      <3> QED BY <1>1, <2>1, <2>4
    <2>7. \E ends : Fits(Merged(c, i), ends, f, n) /\ SameEnds(b, edges, Merged(c, i), ends)
      <3> HIDE DEF c, i
      <3> QED BY <2>2, <2>4 DEF SameEnds
    <2> HIDE DEF c, i
    <2>8. Kept(Merged(c, i), k)
      BY <2>4, <2>6, <2>7
    <2> QED BY <2>5, <2>8 DEF c, i
  <1> DEFINE Good == {k \in Nat : Kept(h[k], k)}
  <1>4. \A k \in 0 .. N : k \in Good
    <2>1. 0 \in Good
      <3>1. h[0] = b
        BY <1>2 DEF Runs
      <3>2. Kept(b, 0)
        BY <1>1 DEF SameEnds
      <3> HIDE DEF Kept
      <3> QED BY <3>1, <3>2
    <2>2. ASSUME NEW k \in 0 .. N, k < N, k \in Good PROVE k + 1 \in Good
      <3>1. k + 1 \in 1 .. N /\ k + 1 - 1 = k /\ k + 1 \in Nat
        BY <1>1, <2>2
      <3> HIDE DEF Kept
      <3> QED BY <1>3, <2>2, <3>1
    <2> HIDE DEF Good
    <2> QED BY <1>1, <2>1, <2>2, IntervalInduction
  <1>5. Loop(h)
    <2>1. ASSUME NEW k \in 0 .. N PROVE h[k] = IF k = 0 THEN b ELSE Merged(h[k - 1], L + 1 - k)
      <3>1. CASE k = 0
        BY <1>2, <3>1 DEF Runs
      <3>2. CASE k # 0
        <4>1. k \in 1 .. N /\ k - 1 \in 0 .. N
          BY <1>1, <3>2
        <4>2. Kept(h[k - 1], k - 1)
          BY <1>4, <4>1
        <4> HIDE DEF Kept
        <4> QED BY <1>3, <3>2, <4>1, <4>2
      <3> QED BY <3>1, <3>2
    <2>2. h \in [0 .. N -> Seq(Buckets)]
      BY <1>2 DEF Runs
    <2> QED BY <2>1, <2>2
  <1> DEFINE pass == CHOOSE g : Loop(g)
  <1>6. Loop(pass)
    <2> HIDE DEF Loop
    <2> QED BY <1>5
  <1>7. Compress(b) = pass[N]
    BY DEF Compress
  <1> HIDE DEF pass
  \* the recursion determines its values
  <1> DEFINE Same == {k \in Nat : pass[k] = h[k]}
  <1>8. \A k \in 0 .. N : k \in Same
    <2>0. /\ \A k \in 0 .. N : pass[k] = IF k = 0 THEN b ELSE Merged(pass[k - 1], L + 1 - k)
          /\ \A k \in 0 .. N : h[k] = IF k = 0 THEN b ELSE Merged(h[k - 1], L + 1 - k)
      BY <1>5, <1>6
    <2> HIDE DEF Loop
    <2>1. 0 \in Same
      BY <1>1, <2>0
    <2>2. ASSUME NEW k \in 0 .. N, k < N, k \in Same PROVE k + 1 \in Same
      <3>1. k + 1 \in 0 .. N /\ k + 1 - 1 = k /\ k + 1 # 0 /\ k + 1 \in Nat
        BY <1>1, <2>2
      <3>2. pass[k + 1] = h[k + 1]
        BY <2>0, <2>2, <3>1
      <3> QED BY <3>1, <3>2
    <2> HIDE DEF Same
    <2> QED BY <1>1, <2>1, <2>2, IntervalInduction
  <1>9. Compress(b) = h[N] /\ Kept(h[N], N)
    BY <1>1, <1>4, <1>7, <1>8
  <1> QED BY <1>9

LEMMA WholeCounts ==
    ASSUME NEW n \in Nat, NEW f, ErrorSums(f, n),
           NEW b, NEW edges, Fits(b, edges, f, n)
    PROVE  /\ CountOf(b) = edges[Len(b)] - edges[0]
           /\ TotalOf(b) = f[edges[Len(b)]] - f[edges[0]]
  <1>1. b \in Seq(Buckets) /\ Len(b) \in Nat /\ Len(b) \in 0 .. Len(b)
    BY LenProperties DEF Fits, ErrorSums
  <1>2. SubSeq(b, 1, Len(b)) = b
    BY <1>1
  <1>3. /\ CountOf(SubSeq(b, 1, Len(b))) = edges[Len(b)] - edges[0]
        /\ TotalOf(SubSeq(b, 1, Len(b))) = f[edges[Len(b)]] - f[edges[0]]
    BY <1>1, PrefixCounts
  <1> QED BY <1>2, <1>3, Zenon

BucketsFrom(b, i) == SubSeq(b, i + 1, Len(b))

\* Dropping the first buckets moves the beginning.
LEMMA CutFits ==
    ASSUME NEW n \in Nat, NEW f, ErrorSums(f, n),
           NEW b, NEW edges, Fits(b, edges, f, n), NEW i \in 0 .. Len(b)
    PROVE  \E ends : Between(BucketsFrom(b, i), ends, f, n, edges[i], edges[Len(b)])
  <1> DEFINE L == Len(b)  m == SubSeq(b, i + 1, L)
             ends == [j \in 0 .. L - i |-> edges[i + j]]
  <1>1. b \in Seq(Buckets) /\ L \in Nat /\ \A j \in 0 .. L : edges[j] \in 0 .. n
    BY LenProperties DEF Fits, ErrorSums
  <1>2. m \in Seq(Buckets) /\ Len(m) = L - i /\ \A j \in 1 .. L - i : m[j] = b[i + j]
    BY <1>1
  <1>3. ends \in [0 .. L - i -> 0 .. n] /\ ends[0] = edges[i] /\ ends[L - i] = edges[L]
    BY <1>1
  <1>4. ASSUME NEW j \in 1 .. L - i
        PROVE  /\ ends[j - 1] <= ends[j]
               /\ m[j] = Bucket(f[ends[j]] - f[ends[j - 1]], ends[j] - ends[j - 1])
    <2>1. i + j \in 1 .. L /\ j \in 0 .. L - i /\ j - 1 \in 0 .. L - i /\ i + (j - 1) = (i + j) - 1
      BY <1>1
    <2>2. ends[j] = edges[i + j] /\ ends[j - 1] = edges[(i + j) - 1]
      BY <2>1
    <2> DEFINE k == i + j
    <2>3. /\ edges[k - 1] <= edges[k]
          /\ b[k] = Bucket(f[edges[k]] - f[edges[k - 1]], edges[k] - edges[k - 1])
      <3> HIDE DEF k, L
      <3>1. k \in 1 .. L
        BY <2>1 DEF k
      <3> QED BY <3>1 DEF Fits, L
    <2> QED BY <1>2, <2>2, <2>3
  <1> HIDE DEF m, ends
  <1>5. Fits(m, ends, f, n)
    BY <1>2, <1>3, <1>4 DEF Fits
  <1> QED BY <1>2, <1>3, <1>5 DEF m, BucketsFrom, Between

LEMMA FirstSplit ==
    ASSUME NEW a, Splits(a) # {}, Len(a.buckets) \in Nat
    PROVE  Min(Splits(a)) \in 1 .. Len(a.buckets) - 1
  <1>1. Splits(a) \in SUBSET Nat /\ Splits(a) \subseteq 1 .. Len(a.buckets) - 1
    BY DEF Splits
  <1>2. \E x \in Splits(a) : \A y \in Splits(a) : x <= y
    BY <1>1, LeastNatural
  <1>3. Min(Splits(a)) \in Splits(a)
    BY <1>2 DEF Min
  <1> QED BY <1>1, <1>3

LEMMA DwInvInit == DriftInit => DwInv
  <1> SUFFICES ASSUME DriftInit PROVE DwInv
    OBVIOUS
  <1> DEFINE f == [j \in 0 .. 0 |-> 0]
  <1>1. /\ dwErrors = << >> /\ dwAdwin.buckets = << >> /\ dwAdwin.total = 0 /\ dwAdwin.count = 0
        /\ dwAdwin = [buckets |-> << >>, total |-> 0, count |-> 0, last |-> 0]
    BY DEF DriftInit
  <1>2. << >> \in Seq(Int) /\ << >> \in Seq(Buckets) /\ Len(<< >>) = 0
    OBVIOUS
  <1>3. SumsUp(f, << >>) /\ Fits(<< >>, f, f, 0) /\ f[0] = 0
    BY <1>2 DEF SumsUp, Fits
  <1> HIDE DEF f
  <1>4. /\ SumsUp(f, dwErrors) /\ Fits(dwAdwin.buckets, f, f, Len(dwErrors))
        /\ f[0] = Len(dwErrors) - dwAdwin.count /\ f[Len(dwAdwin.buckets)] = Len(dwErrors)
        /\ dwAdwin.total = f[Len(dwErrors)] - f[f[0]]
    BY <1>1, <1>2, <1>3
  <1> QED BY <1>1, <1>2, <1>4 DEF DwInv

LEMMA DwInvStep == DwInv /\ [DriftNext]_dwVars => DwInv'
  <1> SUFFICES ASSUME DwInv, [DriftNext]_dwVars PROVE DwInv'
    OBVIOUS
  <1>1. CASE UNCHANGED dwVars
    BY <1>1 DEF DwInv, dwVars
  <1>2. CASE DriftNext
    <2>1. PICK e \in Errors : ObserveError(e)
      BY <1>2 DEF DriftNext
    <2> DEFINE n == Len(dwErrors)  b == dwAdwin.buckets  m == Append(b, Bucket(e, 1))
               a == WithError(dwAdwin, e)
    <2>2. e \in Int /\ dwErrors' = Append(dwErrors, e)
          /\ dwAdwin' = IF Splits(a) = {} THEN a ELSE CutAt(a, Min(Splits(a)))
      BY <2>1, DriftAssumption DEF ObserveError
    <2>3. /\ dwErrors \in Seq(Int) /\ n \in Nat /\ dwAdwin.total \in Int /\ dwAdwin.count \in Nat /\ dwAdwin.last \in Nat
          /\ dwAdwin = [buckets |-> b, total |-> dwAdwin.total, count |-> dwAdwin.count, last |-> dwAdwin.last]
      BY DEF DwInv
    <2>4. PICK f, edges :
            /\ SumsUp(f, dwErrors) /\ Fits(b, edges, f, n)
            /\ edges[0] = n - dwAdwin.count /\ edges[Len(b)] = n
            /\ dwAdwin.total = f[n] - f[edges[0]]
      BY DEF DwInv
    <2>5. /\ dwErrors' \in Seq(Int) /\ Len(dwErrors') = n + 1 /\ dwErrors'[n + 1] = e
          /\ \A j \in 1 .. n : dwErrors'[j] = dwErrors[j]
      BY <2>2, <2>3
    <2>6. PICK g \in [0 .. Len(dwErrors') -> Int] : SumsUp(g, dwErrors')
      BY <2>5, SumExists
    <2>7. \A j \in 0 .. n : f[j] = g[j] /\ f[j] \in Int
      <3>1. SumsUp(g, dwErrors)
        <4>1. \A j \in 1 .. n : j \in 1 .. Len(dwErrors')
          BY <2>3, <2>5
        <4> QED BY <2>5, <2>6, <4>1 DEF SumsUp
      <3> DEFINE Same == {j \in Nat : f[j] = g[j]}
      <3>2. 0 \in Same
        BY <2>4, <3>1 DEF SumsUp
      <3>3. ASSUME NEW j \in 0 .. n, j < n, j \in Same PROVE j + 1 \in Same
        <4>1. j + 1 \in 1 .. n /\ j + 1 - 1 = j /\ j + 1 \in Nat
          BY <2>3, <3>3
        <4>2. f[j + 1] = f[j] + dwErrors[j + 1] /\ g[j + 1] = g[j] + dwErrors[j + 1] /\ f[j] = g[j]
          BY <2>4, <3>1, <3>3, <4>1 DEF SumsUp
        <4> QED BY <4>1, <4>2
      <3>4. \A j \in 0 .. n : j \in Same
        <4> HIDE DEF Same
        <4> QED BY <2>3, <3>2, <3>3, IntervalInduction
      <3> QED BY <2>3, <2>4, <3>4, SumIs
    <2> DEFINE N == n + 1
    <2>8. ErrorSums(g, N) /\ g[N] = g[n] + e /\ N \in Nat /\ Len(dwErrors') = N
      <3>1. n + 1 \in 1 .. Len(dwErrors') /\ n + 1 - 1 = n
        BY <2>3, <2>5
      <3>2. g[n + 1] = g[n] + dwErrors'[n + 1]
        <4> DEFINE k == n + 1
        <4> HIDE DEF k
        <4>1. k \in 1 .. Len(dwErrors') => g[k] = g[k - 1] + dwErrors'[k]
          BY <2>6 DEF SumsUp
        <4> QED BY <3>1, <4>1 DEF k
      <3> QED BY <2>3, <2>5, <2>6, <3>2 DEF ErrorSums
    <2>9. PICK mid : Fits(m, mid, g, N) /\ mid[0] = edges[0] /\ mid[Len(m)] = N /\ Len(m) # 0
      <3>1. Agree(f, g, n) /\ N = n + 1
        BY <2>7 DEF Agree
      <3>2. \E ends : Between(Append(b, Bucket(e, 1)), ends, g, N, edges[0], N)
        <4> HIDE DEF m, b, n, N
        <4> QED BY <2>2, <2>3, <2>4, <2>8, <3>1, AppendedFits
      <3>3. Len(m) # 0
        BY <2>3 
      <3> HIDE DEF b, N
      <3> QED BY <3>2, <3>3 DEF m, Between
    <2> HIDE DEF m, b
    <2> DEFINE c == Compress(m)
    <2>10. PICK ends : Fits(c, ends, g, N) /\ ends[0] = edges[0] /\ ends[Len(c)] = N
      <3>1. \E ends : Fits(c, ends, g, N) /\ SameEnds(m, mid, c, ends)
        <4> HIDE DEF N
        <4> QED BY <2>8, <2>9, CompressFits, Zenon
      <3> QED BY <2>9, <3>1 DEF SameEnds
    <2> DEFINE count == dwAdwin.count + 1  total == dwAdwin.total + e
    <2>11. a = [buckets |-> c, total |-> total, count |-> count, last |-> dwAdwin.last]
      <3>1. a = [dwAdwin EXCEPT !.buckets = c, !.total = total, !.count = count]
        BY DEF WithError, b, m
      <3> HIDE DEF a, c, total, count
      <3> QED BY <2>3, <3>1
    <2>12. /\ c \in Seq(Buckets) /\ Len(c) \in Nat /\ count \in Nat /\ total \in Int
           /\ ends[0] = N - count /\ total = g[N] - g[ends[0]] /\ ends[0] \in 0 .. n
      <3>1. c \in Seq(Buckets) /\ Len(c) \in Nat
        BY <2>10, LenProperties DEF Fits
      <3>2. edges[0] \in 0 .. n /\ g[edges[0]] = f[edges[0]] /\ f[edges[0]] \in Int /\ f[n] = g[n] /\ g[n] \in Int
        <4>1. Len(b) \in Nat /\ edges[0] \in 0 .. n
          BY <2>4, LenProperties DEF Fits
        <4>2. n \in 0 .. n
          BY <2>3
        <4>3. /\ g[edges[0]] = f[edges[0]] /\ f[edges[0]] \in Int
              /\ f[n] = g[n] /\ g[n] \in Int
          BY <2>7, <4>1, <4>2
        <4> QED BY <4>1, <4>3
      <3> DEFINE f0 == f[edges[0]]  fn == f[n]  gn == g[N]
      <3>3. {f0, fn} \subseteq Int /\ gn = fn + e /\ dwAdwin.total = fn - f0 /\ g[ends[0]] = f0
        BY <2>2, <2>3, <2>4, <2>8, <2>10, <3>2
      <3> HIDE DEF f0, fn, gn
      <3>4. total = gn - g[ends[0]]
        BY <2>2, <3>3
      <3>5. total \in Int /\ count \in Nat
        BY <2>2, <2>3
      <3>6. ends[0] = N - count
        <4> DEFINE low == edges[0]  old == dwAdwin.count
        <4>1. low = n - old /\ ends[0] = low /\ n \in Nat /\ old \in Nat
          BY <2>3, <2>4, <2>10
        <4> HIDE DEF low, n
        <4>2. low = (n + 1) - (old + 1)
          BY <4>1
        <4> QED BY <4>1, <4>2
      <3> QED BY <2>10, <3>1, <3>2, <3>4, <3>5, <3>6 DEF gn
    <2> HIDE DEF c, count, total, a, n, N
    <2>13. CASE Splits(a) = {}
      <3>1. dwAdwin' = [buckets |-> c, total |-> total, count |-> count, last |-> dwAdwin.last]
        BY <2>2, <2>11, <2>13
      <3>2. /\ SumsUp(g, dwErrors') /\ Fits(dwAdwin'.buckets, ends, g, Len(dwErrors'))
            /\ ends[0] = Len(dwErrors') - dwAdwin'.count /\ ends[Len(dwAdwin'.buckets)] = Len(dwErrors')
            /\ dwAdwin'.total = g[Len(dwErrors')] - g[ends[0]]
        BY <2>5, <2>6, <2>8, <2>10, <2>12, <3>1
      <3> QED BY <2>3, <2>5, <2>12, <3>1, <3>2 DEF DwInv
    <2>14. CASE Splits(a) # {}
      <3> DEFINE i == Min(Splits(a))  rest == BucketsFrom(c, i)
      <3>1. i \in 1 .. Len(c) - 1 /\ i \in 0 .. Len(c)
        <4>1. a.buckets = c
          BY <2>11
        <4> QED BY <2>12, <2>14, <4>1, FirstSplit
      <3> HIDE DEF i
      <3>0. i \in 0 .. Len(c)
        BY <3>1
      <3>2. PICK last : Fits(rest, last, g, N) /\ last[0] = ends[i] /\ last[Len(rest)] = N
        <4>1. \E last : Between(BucketsFrom(c, i), last, g, N, ends[i], ends[Len(c)])
          BY <2>8, <2>10, <3>0, CutFits
        <4> QED BY <2>10, <4>1 DEF Between
      <3> DEFINE part == SubSeq(c, 1, i)
      <3>3. CountOf(part) = ends[i] - ends[0] /\ TotalOf(part) = g[ends[i]] - g[ends[0]]
        <4> HIDE DEF rest, part
        <4>1. N \in Nat /\ ErrorSums(g, N) /\ Fits(c, ends, g, N)
          BY <2>8, <2>10
        <4>2. CountOf(SubSeq(c, 1, i)) = ends[i] - ends[0] /\ TotalOf(SubSeq(c, 1, i)) = g[ends[i]] - g[ends[0]]
          BY <3>0, <4>1, PrefixCounts
        <4> QED BY <4>2 DEF part
      <3>4. dwAdwin' = [buckets |-> rest, total |-> total - TotalOf(part),
                        count |-> count - CountOf(part), last |-> count]
        BY <2>2, <2>11, <2>14 DEF CutAt, i, BucketsFrom
      <3>5. /\ rest \in Seq(Buckets)
            /\ total - TotalOf(part) = g[N] - g[last[0]] /\ total - TotalOf(part) \in Int
            /\ last[0] = N - (count - CountOf(part)) /\ count - CountOf(part) \in Nat
        <4>1. ends[i] \in 0 .. N /\ ends[0] \in 0 .. N
          <5> HIDE DEF i
          <5>1. Len(c) \in Nat /\ ends \in [0 .. Len(c) -> 0 .. N]
            BY <2>10, <2>12 DEF Fits
          <5> QED BY <3>1, <5>1
        <4> DEFINE e0 == ends[0]  ei == ends[i]  g0 == g[e0]  gi == g[ei]  gn == g[N]
                   cp == CountOf(part)  tp == TotalOf(part)
        <4>2. {e0, ei, g0, gi, gn} \subseteq Int /\ ei <= N /\ e0 >= 0
          BY <2>8, <4>1 DEF ErrorSums
        <4>3. cp = ei - e0 /\ tp = gi - g0 /\ e0 = N - count /\ total = gn - g0 /\ last[0] = ei /\ g[last[0]] = gi
          BY <2>12, <3>2, <3>3
        <4>4. total \in Int /\ count \in Nat /\ N \in Nat
          BY <2>8, <2>12
        <4> HIDE DEF e0, ei, g0, gi, gn, cp, tp
        <4>5. total - tp = gn - gi /\ total - tp \in Int
          BY <4>2, <4>3, <4>4
        <4>6. ei = N - (count - cp) /\ count - cp \in Nat
          <5>1. /\ e0 \in Int /\ ei \in Int /\ N \in Int /\ count \in Int /\ cp \in Int
                /\ cp = ei - e0 /\ e0 = N - count /\ ei <= N
            BY <4>2, <4>3, <4>4
          <5> HIDE DEF N, count
          <5> QED BY <5>1
        <4> QED BY <3>2, <4>3, <4>5, <4>6 DEF gn, cp, tp, Fits
      <3> HIDE DEF rest, part
      <3>6. /\ SumsUp(g, dwErrors') /\ Fits(dwAdwin'.buckets, last, g, Len(dwErrors'))
            /\ last[0] = Len(dwErrors') - dwAdwin'.count /\ last[Len(dwAdwin'.buckets)] = Len(dwErrors')
            /\ dwAdwin'.total = g[Len(dwErrors')] - g[last[0]]
        BY <2>5, <2>6, <2>8, <3>2, <3>4, <3>5
      <3> QED BY <2>5, <2>12, <3>4, <3>5, <3>6 DEF DwInv
    <2> QED BY <2>13, <2>14
  <1> QED BY <1>1, <1>2

\* However often buckets were merged and prefixes cut, what ADWIN compares within is the
\* latest errors and nothing else.  Code: ADWIN.add, _compress and _check_split.
THEOREM WindowsAreTheLatest == DriftSpec => []WindowIsTheLatest
  <1>1. DwInv => WindowIsTheLatest
    <2> SUFFICES ASSUME DwInv PROVE WindowIsTheLatest
      OBVIOUS
    <2> DEFINE n == Len(dwErrors)  b == dwAdwin.buckets  start == n - dwAdwin.count
    <2>1. PICK f, edges :
            /\ SumsUp(f, dwErrors) /\ Fits(b, edges, f, n)
            /\ edges[0] = start /\ edges[Len(b)] = n
            /\ dwAdwin.total = f[n] - f[edges[0]]
      BY DEF DwInv
    <2>2. dwErrors \in Seq(Int) /\ n \in Nat /\ dwAdwin.count \in Nat /\ ErrorSums(f, n)
      BY <2>1, SumIs DEF DwInv, ErrorSums
    <2>3. /\ b \in Seq(Buckets) /\ Len(b) \in Nat /\ DOMAIN b = 1 .. Len(b)
          /\ \A j \in 0 .. Len(b) : edges[j] \in 0 .. n
      BY <2>1, LenProperties DEF Fits
    <2>4. \A i, j \in 0 .. n : i <= j => RangeTotal(i + 1, j) = f[j] - f[i]
      BY <2>1, <2>2, SumOfStretch DEF RangeTotal
    <2>5. dwAdwin.total = RangeTotal(start + 1, n)
      <3>1. edges[0] \in 0 .. n /\ n \in 0 .. n /\ edges[0] <= n
        BY <2>2, <2>3
      <3> QED BY <2>1, <2>4, <3>1
    <2>6. dwAdwin.count = CountOf(b)
      <3>1. CountOf(b) = n - start
        <4> HIDE DEF n, b, start
        <4> QED BY <2>1, <2>2, WholeCounts
      <3> QED BY <2>2, <3>1
    <2>7. ASSUME NEW i \in 1 .. Len(b)
          PROVE  b[i].total = RangeTotal(start + CountOf(SubSeq(b, 1, i - 1)) + 1,
                                         start + CountOf(SubSeq(b, 1, i - 1)) + b[i].count)
      <3> DEFINE lo == edges[i - 1]  hi == edges[i]  low == edges[0]
      <3>1. i - 1 \in 0 .. Len(b) /\ i \in 0 .. Len(b) /\ 0 \in 0 .. Len(b)
        BY <2>3
      <3>2. CountOf(SubSeq(b, 1, i - 1)) = lo - low
        <4> HIDE DEF n, b, start
        <4> QED BY <2>1, <2>2, <3>1, PrefixCounts
      <3>3. lo <= hi /\ b[i].total = f[hi] - f[lo] /\ b[i].count = hi - lo
        <4>1. lo <= hi /\ b[i] = Bucket(f[hi] - f[lo], hi - lo)
          BY <2>1, <2>3 DEF Fits
        <4> QED BY <4>1 DEF Bucket
      <3>4. lo \in 0 .. n /\ hi \in 0 .. n /\ low \in 0 .. n /\ low = start
        BY <2>1, <2>3, <3>1
      <3> HIDE DEF lo, hi, low, start, n, b
      <3>5. start + (lo - low) = lo /\ lo + (hi - lo) = hi
        BY <2>2, <3>4
      <3>6. b[i].total = RangeTotal(lo + 1, hi)
        BY <2>4, <3>3, <3>4
      <3> QED BY <3>2, <3>3, <3>5, <3>6
    <2> HIDE DEF n, b, start
    <2> QED BY <2>3, <2>5, <2>6, <2>7 DEF WindowIsTheLatest, n, b, start
  <1> QED BY <1>1, DwInvInit, DwInvStep, PTL DEF DriftSpec

-----------------------------------------------------------------------------
(* Walking a book. *)

\* Products of naturals keep an order.
LEMMA ProductsKeepOrder ==
    ASSUME NEW a \in Nat, NEW b \in Nat, NEW c \in Nat, NEW d \in Nat, a <= b, c <= d
    PROVE  a * c \in Nat /\ b * d \in Nat /\ a * c <= b * d
  <1>1. a * c \in Nat /\ b * d \in Nat /\ a * d \in Nat
    OBVIOUS
  <1>2. a * c <= a * d
    <2>1. PICK m \in Nat : d = c + m
      <3>1. d - c \in Nat /\ d = c + (d - c)
        OBVIOUS
      <3> QED BY <3>1
    <2>2. a * d = a * c + a * m /\ a * m \in Nat
      BY <2>1
    <2> QED BY <1>1, <2>2
  <1>3. a * d <= b * d
    <2>1. PICK m \in Nat : b = a + m
      <3>1. b - a \in Nat /\ b = a + (b - a)
        OBVIOUS
      <3> QED BY <3>1
    <2>2. b * d = a * d + m * d /\ m * d \in Nat
      BY <2>1
    <2> QED BY <1>1, <2>2
  <1> QED BY <1>1, <1>2, <1>3

LEMMA AvailableFacts ==
    ASSUME NEW level \in Quotes
    PROVE  Available(level) \in Nat /\ Available(level) <= level.size
           /\ level.price \in Nat \ {0} /\ level.size \in Nat
  <1> DEFINE s == level.size
  <1>1. s \in Nat /\ level.price \in Nat \ {0}
    BY DEF Quotes
  <1> HIDE DEF s
  <1>2. CapNum \in Nat /\ CapDen \in Nat \ {0} /\ CapNum <= CapDen
    BY WalkAssumption
  <1>3. s * CapNum \in Nat /\ s * CapNum <= s * CapDen
    BY <1>1, <1>2, ProductsKeepOrder
  <1> DEFINE x == s * CapNum  q == x \div CapDen
  <1>4. q \in Nat /\ q * CapDen <= x
    <2> HIDE DEF x
    <2>1. x \in Nat
      BY <1>3 DEF x
    <2> QED BY <1>2, <2>1
  <1>5. q <= s
    <2> SUFFICES ASSUME q >= s + 1 PROVE FALSE
      BY <1>1, <1>4
    <2> HIDE DEF q, x
    <2>1. (s + 1) * CapDen <= q * CapDen
      BY <1>1, <1>2, <1>4, ProductsKeepOrder
    <2>2. (s + 1) * CapDen = s * CapDen + CapDen /\ s * CapDen \in Nat /\ (s + 1) * CapDen \in Nat /\ q * CapDen \in Nat /\ x \in Nat
      BY <1>1, <1>2, <1>3, <1>4 DEF x
    <2>3. x <= s * CapDen
      BY <1>3 DEF x
    <2> QED BY <1>2, <1>4, <2>1, <2>2, <2>3
  <1> QED BY <1>1, <1>4, <1>5 DEF Available, s

WalkStates == [left : Nat, filled : Nat, notional : Nat, levels : Nat]
SpendStates == [left : Nat, filled : Nat \X (Nat \ {0}), notional : Nat, levels : Nat]
ToWalk(quantity) == [left |-> quantity, filled |-> 0, notional |-> 0, levels |-> 0]
ToSpend(amount) == [left |-> amount, filled |-> <<0, 1>>, notional |-> 0, levels |-> 0]

Takes(w, level, take, v) ==
    /\ take \in Nat /\ take <= w.left /\ take <= Available(level) /\ take <= level.size
    /\ take = w.left \/ take = Available(level)
    /\ v.left = w.left - take /\ v.filled = w.filled + take
    /\ v.notional = w.notional + take * level.price

\* What a level gives.
LEMMA TakeLevelFacts ==
    ASSUME NEW w \in WalkStates, NEW level \in Quotes
    PROVE  /\ TakeLevel(w, level) \in WalkStates
           /\ \E take : Takes(w, level, take, TakeLevel(w, level))
  <1> DEFINE take == Smaller(w.left, Available(level))
             worth == take * level.price
             more == IF take > 0 THEN 1 ELSE 0
  <1>1. w.left \in Nat /\ w.filled \in Nat /\ w.notional \in Nat /\ w.levels \in Nat
    BY DEF WalkStates
  <1>2. /\ take \in Nat /\ take <= w.left /\ take <= Available(level) /\ take <= level.size
        /\ take = w.left \/ take = Available(level)
    BY <1>1, AvailableFacts DEF Smaller
  <1>3. worth \in Nat
    <2> HIDE DEF take
    <2> QED BY <1>2, AvailableFacts
  <1>4. TakeLevel(w, level) = [left |-> w.left - take, filled |-> w.filled + take,
                               notional |-> w.notional + worth, levels |-> w.levels + more]
    BY DEF TakeLevel
  <1>5. more \in Nat
    OBVIOUS
  <1> HIDE DEF take, worth, more
  <1>6. TakeLevel(w, level) \in WalkStates
    BY <1>1, <1>2, <1>3, <1>4, <1>5 DEF WalkStates
  <1>7. Takes(w, level, take, TakeLevel(w, level))
    BY <1>2, <1>4 DEF worth, Takes
  <1> QED BY <1>6, <1>7

\* The rounds of a walk.
WalkOver(walk, levels, quantity) ==
    /\ walk \in [0 .. Len(levels) -> WalkStates] /\ walk[0] = ToWalk(quantity)
    /\ \A k \in 1 .. Len(levels) : walk[k] = TakeLevel(walk[k - 1], levels[k])

LEMMA WalkBookRuns ==
    ASSUME NEW levels \in Seq(Quotes), NEW quantity \in Nat
    PROVE  \E walk : /\ WalkOver(walk, levels, quantity)
                     /\ WalkBook(levels, quantity) = Walked(walk[IF quantity > 0 THEN Len(levels) ELSE 0])
  <1> DEFINE N == Len(levels)  base == ToWalk(quantity)
             step == [p \in (1 .. N) \X WalkStates |-> TakeLevel(p[2], levels[p[1]])]
             Loop(f) == f = [k \in 0 .. N |-> IF k = 0 THEN base ELSE TakeLevel(f[k - 1], levels[k])]
  <1>1. N \in Nat /\ \A k \in 1 .. N : levels[k] \in Quotes
    BY LenProperties, ElementOfSeq
  <1>2. base \in WalkStates
    BY DEF WalkStates, ToWalk
  <1>3. step \in [(1 .. N) \X WalkStates -> WalkStates]
    <2>1. ASSUME NEW p \in (1 .. N) \X WalkStates PROVE TakeLevel(p[2], levels[p[1]]) \in WalkStates
      <3>1. p[1] \in 1 .. N /\ p[2] \in WalkStates
        OBVIOUS
      <3> QED BY <1>1, <3>1, TakeLevelFacts
    <2> QED BY <2>1
  <1>4. PICK f : Runs(f, N, WalkStates, base, step)
    <2> HIDE DEF N, base, step
    <2> QED BY <1>1, <1>2, <1>3, LoopRuns
  <1>5. WalkOver(f, levels, quantity)
    <2>1. ASSUME NEW k \in 1 .. N PROVE f[k] = TakeLevel(f[k - 1], levels[k])
      <3>1. k - 1 \in 0 .. N
        BY <1>1
      <3>2. f[k] = step[<<k, f[k - 1]>>] /\ f[k - 1] \in WalkStates
        BY <1>4, <3>1 DEF Runs
      <3> QED BY <3>2
    <2> QED BY <1>4, <2>1 DEF Runs, WalkOver
  <1>6. Loop(f)
    <2>1. ASSUME NEW k \in 0 .. N PROVE f[k] = IF k = 0 THEN base ELSE TakeLevel(f[k - 1], levels[k])
      <3>1. k # 0 => k \in 1 .. N
        BY <1>1
      <3> QED BY <1>5, <3>1 DEF WalkOver
    <2> QED BY <1>5, <2>1 DEF WalkOver
  <1> DEFINE walk == CHOOSE g : Loop(g)
  <1>7. Loop(walk)
    <2> HIDE DEF Loop
    <2> QED BY <1>6
  <1>8. WalkBook(levels, quantity) = Walked(walk[IF quantity > 0 THEN N ELSE 0])
    BY DEF WalkBook, ToWalk
  <1> HIDE DEF walk
  <1> DEFINE Typed == {k \in Nat : walk[k] \in WalkStates}
  <1>9. \A k \in 0 .. N : walk[k] = IF k = 0 THEN base ELSE TakeLevel(walk[k - 1], levels[k])
    BY <1>7
  <1>10. ASSUME NEW k \in 1 .. N PROVE walk[k] = TakeLevel(walk[k - 1], levels[k])
    <2>1. k \in 0 .. N /\ k # 0
      BY <1>1
    <2> HIDE DEF Loop
    <2> QED BY <1>9, <2>1
  <1>11. \A k \in 0 .. N : k \in Typed
    <2>1. 0 \in Typed
      <3>1. 0 \in 0 .. N
        BY <1>1
      <3> QED BY <1>2, <1>9, <3>1
    <2>2. ASSUME NEW k \in 0 .. N, k < N, k \in Typed PROVE k + 1 \in Typed
      <3>1. k + 1 \in 1 .. N /\ k + 1 - 1 = k /\ k + 1 \in Nat
        BY <1>1, <2>2
      <3>2. walk[k + 1] = TakeLevel(walk[k], levels[k + 1]) /\ walk[k] \in WalkStates
        BY <1>10, <2>2, <3>1
      <3>3. walk[k + 1] \in WalkStates
        BY <1>1, <3>1, <3>2, TakeLevelFacts
      <3> QED BY <3>1, <3>3
    <2> HIDE DEF Typed, N
    <2> QED BY <1>1, <2>1, <2>2, IntervalInduction
  <1>12. WalkOver(walk, levels, quantity)
    <2>1. walk[0] = base
      <3>1. 0 \in 0 .. N
        BY <1>1
      <3> QED BY <1>9, <3>1
    <2>2. walk \in [0 .. N -> WalkStates]
      BY <1>7, <1>11
    <2> QED BY <1>10, <2>1, <2>2 DEF WalkOver
  <1> QED BY <1>8, <1>12

\* What spending at a level gives: nothing more, all of it, or the last of the money.
LEMMA SpendLevelFacts ==
    ASSUME NEW w \in SpendStates, NEW level \in Quotes
    PROVE  /\ SpendLevel(w, level) \in SpendStates
           /\ w.left = 0 => SpendLevel(w, level) = w
           /\ w.left > 0 /\ Available(level) * level.price <= w.left =>
                /\ SpendLevel(w, level).left = w.left - Available(level) * level.price
                /\ SpendLevel(w, level).filled = <<w.filled[1] + Available(level), 1>>
                /\ SpendLevel(w, level).notional = w.notional + Available(level) * level.price
           /\ w.left > 0 /\ Available(level) * level.price > w.left =>
                /\ SpendLevel(w, level).left = 0
                /\ SpendLevel(w, level).filled = <<w.filled[1] * level.price + w.left, level.price>>
                /\ SpendLevel(w, level).notional = w.notional + w.left
  <1> DEFINE worth == Available(level) * level.price
             more == w.levels + IF worth > 0 THEN 1 ELSE 0
             all == <<w.filled[1] + Available(level), 1>>
             part == <<w.filled[1] * level.price + w.left, level.price>>
             s == SpendLevel(w, level)
  <1>1. /\ w.left \in Nat /\ w.filled \in Nat \X (Nat \ {0}) /\ w.filled[1] \in Nat /\ w.notional \in Nat /\ w.levels \in Nat
        /\ w = [left |-> w.left, filled |-> w.filled, notional |-> w.notional, levels |-> w.levels]
    BY DEF SpendStates
  <1>2. Available(level) \in Nat /\ level.price \in Nat \ {0} /\ worth \in Nat /\ more \in Nat
    BY <1>1, AvailableFacts
  <1>3. all \in Nat \X (Nat \ {0}) /\ part \in Nat \X (Nat \ {0})
    BY <1>1, <1>2
  <1> HIDE DEF worth, more, all, part
  <1>4. CASE w.left = 0
    <2>1. s = w
      BY <1>4 DEF SpendLevel
    <2> QED BY <1>4, <2>1
  <1>5. CASE w.left > 0 /\ worth <= w.left
    <2>1. s = [w EXCEPT !.left = w.left - worth, !.filled = all, !.notional = w.notional + worth, !.levels = more]
      BY <1>1, <1>5 DEF SpendLevel, worth, more, all
    <2>2. s = [left |-> w.left - worth, filled |-> all, notional |-> w.notional + worth, levels |-> more]
      BY <1>1, <2>1
    <2>3. w.left - worth \in Nat /\ w.notional + worth \in Nat
      BY <1>1, <1>2, <1>5
    <2>4. s \in SpendStates
      BY <1>2, <1>3, <2>2, <2>3 DEF SpendStates
    <2>5. w.left # 0 /\ ~(worth > w.left)
      BY <1>1, <1>2, <1>5
    <2> QED BY <2>2, <2>4, <2>5 DEF worth, all
  <1>6. CASE w.left > 0 /\ worth > w.left
    <2>1. s = [left |-> 0, filled |-> part, notional |-> w.notional + w.left, levels |-> w.levels + 1]
      <3>1. w.left # 0 /\ ~(worth <= w.left /\ w.left > 0)
        BY <1>1, <1>2, <1>6
      <3> QED BY <3>1 DEF SpendLevel, worth, part
    <2>2. s \in SpendStates
      BY <1>1, <1>3, <2>1 DEF SpendStates
    <2>3. ~(worth <= w.left) /\ w.left # 0
      BY <1>1, <1>2, <1>6
    <2> QED BY <1>6, <2>1, <2>2, <2>3 DEF worth, part
  <1> QED BY <1>1, <1>2, <1>4, <1>5, <1>6

\* The rounds of spending.
SpendOver(walk, levels, amount) ==
    /\ walk \in [0 .. Len(levels) -> SpendStates] /\ walk[0] = ToSpend(amount)
    /\ \A k \in 1 .. Len(levels) : walk[k] = SpendLevel(walk[k - 1], levels[k])

LEMMA WalkForNotionalRuns ==
    ASSUME NEW levels \in Seq(Quotes), NEW amount \in Nat
    PROVE  \E walk : /\ SpendOver(walk, levels, amount)
                     /\ WalkForNotional(levels, amount) = Walked(walk[IF amount > 0 THEN Len(levels) ELSE 0])
  <1> DEFINE N == Len(levels)  base == ToSpend(amount)
             step == [p \in (1 .. N) \X SpendStates |-> SpendLevel(p[2], levels[p[1]])]
             Loop(f) == f = [k \in 0 .. N |-> IF k = 0 THEN base ELSE SpendLevel(f[k - 1], levels[k])]
  <1>1. N \in Nat /\ \A k \in 1 .. N : levels[k] \in Quotes
    BY LenProperties, ElementOfSeq
  <1>2. base \in SpendStates
    BY DEF SpendStates, ToSpend
  <1>3. step \in [(1 .. N) \X SpendStates -> SpendStates]
    <2>1. ASSUME NEW p \in (1 .. N) \X SpendStates PROVE SpendLevel(p[2], levels[p[1]]) \in SpendStates
      <3>1. p[1] \in 1 .. N /\ p[2] \in SpendStates
        OBVIOUS
      <3> QED BY <1>1, <3>1, SpendLevelFacts
    <2> QED BY <2>1
  <1>4. PICK f : Runs(f, N, SpendStates, base, step)
    <2> HIDE DEF N, base, step
    <2> QED BY <1>1, <1>2, <1>3, LoopRuns
  <1>5. SpendOver(f, levels, amount)
    <2>1. ASSUME NEW k \in 1 .. N PROVE f[k] = SpendLevel(f[k - 1], levels[k])
      <3>1. k - 1 \in 0 .. N
        BY <1>1
      <3>2. f[k] = step[<<k, f[k - 1]>>] /\ f[k - 1] \in SpendStates
        BY <1>4, <3>1 DEF Runs
      <3> QED BY <3>2
    <2> QED BY <1>4, <2>1 DEF Runs, SpendOver
  <1>6. Loop(f)
    <2>1. ASSUME NEW k \in 0 .. N PROVE f[k] = IF k = 0 THEN base ELSE SpendLevel(f[k - 1], levels[k])
      <3>1. k # 0 => k \in 1 .. N
        BY <1>1
      <3> QED BY <1>5, <3>1 DEF SpendOver
    <2> QED BY <1>5, <2>1 DEF SpendOver
  <1> DEFINE walk == CHOOSE g : Loop(g)
  <1>7. Loop(walk)
    <2> HIDE DEF Loop
    <2> QED BY <1>6
  <1>8. WalkForNotional(levels, amount) = Walked(walk[IF amount > 0 THEN N ELSE 0])
    BY DEF WalkForNotional, ToSpend
  <1> HIDE DEF walk
  <1> DEFINE Typed == {k \in Nat : walk[k] \in SpendStates}
  <1>9. \A k \in 0 .. N : walk[k] = IF k = 0 THEN base ELSE SpendLevel(walk[k - 1], levels[k])
    BY <1>7
  <1>10. ASSUME NEW k \in 1 .. N PROVE walk[k] = SpendLevel(walk[k - 1], levels[k])
    <2>1. k \in 0 .. N /\ k # 0
      BY <1>1
    <2> HIDE DEF Loop
    <2> QED BY <1>9, <2>1
  <1>11. \A k \in 0 .. N : k \in Typed
    <2>1. 0 \in Typed
      <3>1. 0 \in 0 .. N
        BY <1>1
      <3> QED BY <1>2, <1>9, <3>1
    <2>2. ASSUME NEW k \in 0 .. N, k < N, k \in Typed PROVE k + 1 \in Typed
      <3>1. k + 1 \in 1 .. N /\ k + 1 - 1 = k /\ k + 1 \in Nat
        BY <1>1, <2>2
      <3>2. walk[k + 1] = SpendLevel(walk[k], levels[k + 1]) /\ walk[k] \in SpendStates
        BY <1>10, <2>2, <3>1
      <3>3. walk[k + 1] \in SpendStates
        BY <1>1, <3>1, <3>2, SpendLevelFacts
      <3> QED BY <3>1, <3>3
    <2> HIDE DEF Typed, N
    <2> QED BY <1>1, <2>1, <2>2, IntervalInduction
  <1>12. SpendOver(walk, levels, amount)
    <2>1. walk[0] = base
      <3>1. 0 \in 0 .. N
        BY <1>1
      <3> QED BY <1>9, <3>1
    <2>2. walk \in [0 .. N -> SpendStates]
      BY <1>7, <1>11
    <2> QED BY <1>10, <2>1, <2>2 DEF SpendOver
  <1> QED BY <1>8, <1>12

\* No sale is worth more than the touch makes it.
LEMMA SalesBelowTouch ==
    ASSUME NEW levels, BidSide(levels), levels # << >>, NEW quantity \in Nat
    PROVE  /\ WalkBook(levels, quantity).filled \in Nat /\ WalkBook(levels, quantity).notional \in Nat
           /\ WalkBook(levels, quantity).notional <= WalkBook(levels, quantity).filled * levels[1].price
  <1> DEFINE N == Len(levels)  touch == levels[1].price
  <1>1. /\ levels \in Seq(Quotes) /\ N \in Nat \ {0} /\ 1 \in 1 .. N /\ touch \in Nat \ {0}
        /\ \A k \in 1 .. N : levels[k] \in Quotes /\ levels[k].price \in Nat /\ levels[k].price <= touch
    <2>1. levels \in Seq(Quotes) /\ N \in Nat \ {0} /\ DOMAIN levels = 1 .. N /\ \A k \in 1 .. N : levels[k] \in Quotes
      BY LenProperties, ElementOfSeq, EmptySeq DEF BidSide
    <2>2. ASSUME NEW k \in 1 .. N PROVE levels[k].price \in Nat \ {0} /\ levels[k].price <= touch
      <3>1. 1 \in DOMAIN levels /\ k \in DOMAIN levels /\ 1 <= k
        BY <2>1
      <3>2. levels[k].price \in Nat \ {0} /\ levels[1].price \in Nat \ {0}
        BY <2>1, <3>1 DEF Quotes
      <3>3. levels[1].price >= levels[k].price
        BY <3>1 DEF BidSide
      <3> QED BY <3>2, <3>3
    <2> QED BY <2>1, <2>2
  <1>2. PICK walk : /\ WalkOver(walk, levels, quantity)
                    /\ WalkBook(levels, quantity) = Walked(walk[IF quantity > 0 THEN N ELSE 0])
    BY <1>1, WalkBookRuns
  <1> HIDE DEF N, touch
  <1> DEFINE Below == {k \in Nat : walk[k].notional <= walk[k].filled * touch}
  <1>3. /\ walk[0] = ToWalk(quantity) /\ \A k \in 0 .. N : walk[k] \in WalkStates
        /\ \A k \in 1 .. N : walk[k] = TakeLevel(walk[k - 1], levels[k])
    BY <1>2 DEF WalkOver, N
  <1>4. \A k \in 0 .. N : k \in Below
    <2>1. 0 \in Below
      BY <1>1, <1>3 DEF ToWalk
    <2>2. ASSUME NEW k \in 0 .. N, k < N, k \in Below PROVE k + 1 \in Below
      <3>1. k + 1 \in 1 .. N /\ k + 1 - 1 = k /\ k + 1 \in Nat
        BY <1>1, <2>2
      <3> DEFINE w == walk[k]  v == walk[k + 1]  price == levels[k + 1].price
      <3>2. v = TakeLevel(w, levels[k + 1]) /\ w \in WalkStates /\ levels[k + 1] \in Quotes /\ price \in Nat /\ price <= touch
        BY <1>1, <1>3, <2>2, <3>1
      <3>3. PICK take \in Nat : v.filled = w.filled + take /\ v.notional = w.notional + take * price
        <4>1. \E take : Takes(w, levels[k + 1], take, v)
          <5> HIDE DEF w, v
          <5> QED BY <3>2, TakeLevelFacts
        <4> QED BY <4>1 DEF Takes
      <3> DEFINE f == w.filled  n == w.notional
      <3>4. f \in Nat /\ n \in Nat /\ n <= f * touch
        BY <2>2, <3>2 DEF WalkStates
      <3>5. v.filled = f + take /\ v.notional = n + take * price
        BY <3>3
      <3> HIDE DEF f, n, price
      <3>6. take * price <= take * touch /\ take * price \in Nat /\ take * touch \in Nat
        BY <1>1, <3>2, ProductsKeepOrder
      <3>7. (f + take) * touch = f * touch + take * touch /\ f * touch \in Nat
        BY <1>1, <3>4
      <3>8. n + take * price <= (f + take) * touch
        <4> DEFINE a == take * price  b == take * touch  c == f * touch  d == (f + take) * touch
        <4>1. a <= b /\ {a, b, c} \subseteq Nat /\ d = c + b /\ n <= c
          BY <3>4, <3>6, <3>7
        <4> HIDE DEF a, b, c, d
        <4>2. n + a <= d
          BY <3>4, <4>1
        <4> QED BY <4>2 DEF a, d
      <3>9. v.notional <= v.filled * touch
        BY <3>5, <3>8
      <3> QED BY <3>1, <3>9
    <2> HIDE DEF Below
    <2> QED BY <1>1, <2>1, <2>2, IntervalInduction
  <1> DEFINE e == IF quantity > 0 THEN N ELSE 0
  <1>5. e \in 0 .. N
    BY <1>1
  <1>6. walk[e] \in WalkStates /\ walk[e].notional <= walk[e].filled * touch
    <2> HIDE DEF e
    <2> QED BY <1>3, <1>4, <1>5
  <1>7. WalkBook(levels, quantity).filled = walk[e].filled /\ WalkBook(levels, quantity).notional = walk[e].notional
    BY <1>2 DEF Walked, N
  <1> QED BY <1>6, <1>7 DEF WalkStates, touch

\* What is bought costs the touch or more, and no more than what is spent.
LEMMA BuysAboveTouch ==
    ASSUME NEW levels, AskSide(levels), levels # << >>, NEW amount \in Nat
    PROVE  LET r == WalkForNotional(levels, amount)
           IN  /\ r.filled \in Nat \X (Nat \ {0}) /\ r.notional \in Nat /\ r.notional <= amount
               /\ levels[1].price * r.filled[1] <= r.notional * r.filled[2]
  <1> DEFINE N == Len(levels)  touch == levels[1].price
             Above(w) == /\ w.left + w.notional = amount
                         /\ touch * w.filled[1] <= w.notional * w.filled[2]
                         /\ w.left > 0 => w.filled[2] = 1
  <1>1. /\ levels \in Seq(Quotes) /\ N \in Nat \ {0} /\ 1 \in 1 .. N /\ touch \in Nat \ {0}
        /\ \A k \in 1 .. N : levels[k] \in Quotes /\ levels[k].price \in Nat \ {0} /\ levels[k].price >= touch
    <2>1. levels \in Seq(Quotes) /\ N \in Nat \ {0} /\ DOMAIN levels = 1 .. N /\ \A k \in 1 .. N : levels[k] \in Quotes
      BY LenProperties, ElementOfSeq, EmptySeq DEF AskSide
    <2>2. ASSUME NEW k \in 1 .. N PROVE levels[k].price \in Nat \ {0} /\ levels[k].price >= touch
      <3>1. 1 \in DOMAIN levels /\ k \in DOMAIN levels /\ 1 <= k
        BY <2>1
      <3>2. levels[k].price \in Nat \ {0} /\ levels[1].price \in Nat \ {0}
        BY <2>1, <3>1 DEF Quotes
      <3>3. levels[1].price <= levels[k].price
        BY <3>1 DEF AskSide
      <3> QED BY <3>2, <3>3
    <2>3. touch \in Nat \ {0}
      BY <2>1, <2>2
    <2> QED BY <2>1, <2>2, <2>3
  <1>2. PICK walk : /\ SpendOver(walk, levels, amount)
                    /\ WalkForNotional(levels, amount) = Walked(walk[IF amount > 0 THEN N ELSE 0])
    BY <1>1, WalkForNotionalRuns
  <1> HIDE DEF N, touch
  <1>3. /\ walk[0] = ToSpend(amount) /\ \A k \in 0 .. N : walk[k] \in SpendStates
        /\ \A k \in 1 .. N : walk[k] = SpendLevel(walk[k - 1], levels[k])
    BY <1>2 DEF SpendOver, N
  <1> DEFINE Good == {k \in Nat : Above(walk[k])}
  <1>4. \A k \in 0 .. N : k \in Good
    <2>1. 0 \in Good
      BY <1>1, <1>3 DEF ToSpend
    <2>2. ASSUME NEW k \in 0 .. N, k < N, k \in Good PROVE k + 1 \in Good
      <3>1. k + 1 \in 1 .. N /\ k + 1 - 1 = k /\ k + 1 \in Nat
        BY <1>1, <2>2
      <3> DEFINE w == walk[k]  v == walk[k + 1]  level == levels[k + 1]
                 price == level.price  all == Available(level)  worth == all * price
                 left == w.left  f == w.filled[1]  d == w.filled[2]  n == w.notional
      <3>2. v = SpendLevel(w, level) /\ w \in SpendStates /\ level \in Quotes /\ price >= touch
        BY <1>1, <1>3, <2>2, <3>1
      <3>3. all \in Nat /\ price \in Nat \ {0}
        BY <3>2, AvailableFacts
      <3>4. left \in Nat /\ f \in Nat /\ d \in Nat \ {0} /\ n \in Nat
        BY <3>2 DEF SpendStates
      <3>5. left + n = amount /\ touch * f <= n * d /\ (left > 0 => d = 1)
        BY <2>2
      <3>6. worth \in Nat
        <4> HIDE DEF all, price
        <4> QED BY <3>3
      <3>7. /\ left = 0 => v = w
            /\ left > 0 /\ worth <= left => v.left = left - worth /\ v.filled = <<f + all, 1>> /\ v.notional = n + worth
            /\ left > 0 /\ worth > left => v.left = 0 /\ v.filled = <<f * price + left, price>> /\ v.notional = n + left
        <4> HIDE DEF w, v, level
        <4> QED BY <3>2, SpendLevelFacts
      <3>8. CASE left = 0
        <4>1. v = w
          BY <3>7, <3>8
        <4> QED BY <2>2, <3>1, <4>1
      <3>9. CASE left > 0 /\ worth <= left
        <4>1. v.left = left - worth /\ v.filled[1] = f + all /\ v.filled[2] = 1 /\ v.notional = n + worth
          BY <3>7, <3>9
        <4> HIDE DEF price, all, left, f, n, d
        <4>2. touch * all <= worth /\ touch * all \in Nat
          <5>1. touch * all <= price * all /\ touch * all \in Nat /\ price * all = worth
            BY <1>1, <3>2, <3>3, ProductsKeepOrder
          <5> QED BY <5>1
        <4>3. touch * (f + all) <= (n + worth) * 1
          <5> DEFINE a == touch * f  b == touch * all
          <5>1. touch * (f + all) = a + b /\ a \in Nat /\ b \in Nat /\ a <= n /\ b <= worth
            BY <1>1, <3>3, <3>4, <3>5, <3>9, <4>2
          <5> HIDE DEF a, b, worth
          <5> QED BY <3>4, <3>6, <5>1
        <4> HIDE DEF worth
        <4>4. (left - worth) + (n + worth) = amount
          BY <3>4, <3>5, <3>6
        <4>5. Above(v)
          BY <4>1, <4>3, <4>4
        <4> QED BY <3>1, <4>5
      <3>10. CASE left > 0 /\ worth > left
        <4>1. v.left = 0 /\ v.filled[1] = f * price + left /\ v.filled[2] = price /\ v.notional = n + left
          BY <3>7, <3>10
        <4> HIDE DEF price, all, left, f, n, d, worth
        <4>2. touch * (f * price + left) <= (n + left) * price
          <5> DEFINE a == touch * f  b == a * price  c == n * price  x == touch * left  y == left * price
          <5>1. a \in Nat /\ a <= n
            BY <1>1, <3>4, <3>5, <3>10
          <5>2. b <= c /\ b \in Nat /\ c \in Nat
            <6> HIDE DEF a
            <6> QED BY <3>3, <3>4, <5>1, ProductsKeepOrder
          <5>3. x <= y /\ x \in Nat /\ y \in Nat
            <6>1. touch * left <= price * left /\ touch * left \in Nat /\ price * left \in Nat /\ price * left = left * price
              BY <1>1, <3>2, <3>3, <3>4, ProductsKeepOrder
            <6> QED BY <6>1
          <5>4. touch * (f * price + left) = b + x
            <6>1. touch * (f * price) = (touch * f) * price
              BY <1>1, <3>3, <3>4
            <6>2. touch * (f * price + left) = touch * (f * price) + touch * left
              <7> DEFINE g == f * price
              <7>1. g \in Nat
                BY <3>3, <3>4
              <7> HIDE DEF g
              <7>2. touch * (g + left) = touch * g + touch * left
                BY <1>1, <3>4, <7>1
              <7> QED BY <7>2 DEF g
            <6> QED BY <6>1, <6>2
          <5>5. (n + left) * price = c + y
            BY <3>3, <3>4
          <5> HIDE DEF b, c, x, y
          <5> QED BY <5>2, <5>3, <5>4, <5>5
        <4>3. 0 + (n + left) = amount
          BY <3>4, <3>5
        <4>4. Above(v)
          BY <4>1, <4>2, <4>3
        <4> QED BY <3>1, <4>4
      <3> QED BY <3>4, <3>6, <3>8, <3>9, <3>10
    <2> HIDE DEF Good
    <2> QED BY <1>1, <2>1, <2>2, IntervalInduction
  <1> DEFINE e == IF amount > 0 THEN N ELSE 0
  <1>5. e \in 0 .. N
    BY <1>1
  <1>6. walk[e] \in SpendStates /\ Above(walk[e])
    <2> HIDE DEF e, Above
    <2> QED BY <1>3, <1>4, <1>5
  <1>7. WalkForNotional(levels, amount).filled = walk[e].filled /\ WalkForNotional(levels, amount).notional = walk[e].notional
    BY <1>2 DEF Walked, N
  <1>8. walk[e].filled \in Nat \X (Nat \ {0}) /\ walk[e].notional \in Nat /\ walk[e].left \in Nat
    BY <1>6 DEF SpendStates
  <1>9. walk[e].notional <= amount
    BY <1>6, <1>8
  <1> QED BY <1>6, <1>7, <1>8, <1>9 DEF touch

-----------------------------------------------------------------------------
(* The edges. *)

Positive == Nat \ {0}
Assets == {GraphBase} \cup {Symbols[i].base : i \in Places} \cup {Symbols[i].quote : i \in Places}
Values == UNION {[D -> Positive \X Positive] : D \in SUBSET Assets}

LEMMA ProductsArePositive ==
    ASSUME NEW a \in Positive, NEW b \in Positive
    PROVE  a * b \in Positive
  <1>1. a * b \in Nat /\ 1 * 1 <= a * b
    BY ProductsKeepOrder DEF Positive
  <1> QED BY <1>1 DEF Positive

LEMMA BookFacts ==
    ASSUME NEW book \in GraphBooks
    PROVE  /\ BidSide(book.bids) /\ AskSide(book.asks)
           /\ book.bids # << >> => book.bids[1].price \in Positive
           /\ book.asks # << >> => book.asks[1].price \in Positive
  <1>1. BidSide(book.bids) /\ AskSide(book.asks)
    BY GraphAssumption
  <1>2. ASSUME NEW levels \in Seq(Quotes), levels # << >> PROVE levels[1].price \in Positive
    <2>1. levels[1] \in Quotes
      BY <1>2, EmptySeq, LenProperties, ElementOfSeq
    <2> QED BY <2>1 DEF Quotes, Positive
  <1> QED BY <1>1, <1>2 DEF BidSide, AskSide

LEMMA ValuedTyped ==
    ASSUME NEW value \in Values, NEW i \in Places, gBook \in [Places -> GraphBooks]
    PROVE  Valued(value, i) \in Values
  <1> DEFINE s == Symbols[i]  book == gBook[i]
             bid == book.bids[1].price  ask == book.asks[1].price  mid == <<bid + ask, 2>>
             With(a, v) == [x \in DOMAIN value \cup {a} |-> IF x = a THEN v ELSE value[x]]
  <1>1. PICK D \in SUBSET Assets : value \in [D -> Positive \X Positive]
    BY DEF Values
  <1>2. s.base \in Assets /\ s.quote \in Assets
    BY DEF Assets
  <1>3. ASSUME NEW a \in Assets, NEW v \in Positive \X Positive PROVE With(a, v) \in Values
    <2> DEFINE E == D \cup {a}
    <2>1. E \in SUBSET Assets /\ With(a, v) \in [E -> Positive \X Positive]
      BY <1>1, <1>3
    <2> HIDE DEF E
    <2> QED BY <2>1 DEF Values
  <1>4. CASE ~book.ready \/ ~Sided(book) \/ Crossed(book)
    BY <1>4 DEF Valued
  <1>5. CASE ~(~book.ready \/ ~Sided(book) \/ Crossed(book))
    <2>1. mid \in Positive \X Positive
      <3>1. bid \in Positive /\ ask \in Positive
        BY <1>5, BookFacts DEF Sided
      <3> HIDE DEF bid, ask
      <3> QED BY <3>1 DEF Positive
    <2>2. CASE s.quote \in DOMAIN value /\ ~(s.base \in DOMAIN value)
      <3> DEFINE v == Times(mid, value[s.quote])
      <3>1. value[s.quote] \in Positive \X Positive
        BY <1>1, <2>2
      <3>2. v \in Positive \X Positive
        <4> HIDE DEF mid
        <4> QED BY <2>1, <3>1, ProductsArePositive DEF Times
      <3>3. Valued(value, i) = With(s.base, v)
        BY <1>5, <2>2 DEF Valued
      <3> HIDE DEF v, With
      <3> QED BY <1>2, <1>3, <3>2, <3>3
    <2>3. CASE s.base \in DOMAIN value /\ ~(s.quote \in DOMAIN value)
      <3> DEFINE v == Over(value[s.base], mid)
      <3>1. value[s.base] \in Positive \X Positive
        BY <1>1, <2>3
      <3>2. v \in Positive \X Positive
        <4> HIDE DEF mid
        <4> QED BY <2>1, <3>1, ProductsArePositive DEF Over
      <3>3. Valued(value, i) = With(s.quote, v)
        BY <1>5, <2>3 DEF Valued
      <3> HIDE DEF v, With
      <3> QED BY <1>2, <1>3, <3>2, <3>3
    <2>4. CASE ~(s.quote \in DOMAIN value /\ ~(s.base \in DOMAIN value)) /\ ~(s.base \in DOMAIN value /\ ~(s.quote \in DOMAIN value))
      BY <1>5, <2>4 DEF Valued
    <2> QED BY <2>2, <2>3, <2>4
  <1> QED BY <1>4, <1>5

\* Two passes over the symbols give every asset they reach a value above zero.
LEMMA ValuationTyped ==
    ASSUME gBook \in [Places -> GraphBooks]
    PROVE  Valuation \in Values
  <1> DEFINE M == Len(Symbols)  N == 2 * M  base == [a \in {GraphBase} |-> <<1, 1>>]
             place(k) == ((k - 1) % M) + 1
             step == [p \in (1 .. N) \X Values |-> Valued(p[2], place(p[1]))]
             Loop(f) == f = [k \in 0 .. N |-> IF k = 0 THEN base ELSE Valued(f[k - 1], place(k))]
  <1>1. M \in Nat /\ N \in Nat
    BY GraphAssumption, LenProperties
  <1>2. ASSUME NEW k \in 1 .. N PROVE place(k) \in Places
    <2> HIDE DEF M
    <2>1. M > 0 /\ k - 1 \in Int
      BY <1>1
    <2>2. (k - 1) % M \in 0 .. (M - 1)
      BY <1>1, <2>1
    <2> QED BY <1>1, <2>2 DEF Places, M
  <1>3. base \in Values
    <2> DEFINE D == {GraphBase}
    <2>1. D \in SUBSET Assets /\ base \in [D -> Positive \X Positive]
      BY DEF Assets, Positive
    <2> HIDE DEF D, base
    <2> QED BY <2>1 DEF Values
  <1> HIDE DEF place
  <1>4. step \in [(1 .. N) \X Values -> Values]
    <2>1. ASSUME NEW p \in (1 .. N) \X Values PROVE Valued(p[2], place(p[1])) \in Values
      <3>1. p[1] \in 1 .. N /\ p[2] \in Values
        OBVIOUS
      <3>2. place(p[1]) \in Places
        BY <1>2, <3>1
      <3> QED BY <3>1, <3>2, ValuedTyped
    <2> QED BY <2>1
  <1>5. PICK f : Runs(f, N, Values, base, step)
    <2> HIDE DEF N, base, step
    <2> QED BY <1>1, <1>3, <1>4, LoopRuns
  <1>6. Loop(f)
    <2>1. ASSUME NEW k \in 1 .. N PROVE f[k] = Valued(f[k - 1], place(k))
      <3>1. k - 1 \in 0 .. N
        BY <1>1
      <3>2. f[k] = step[<<k, f[k - 1]>>] /\ f[k - 1] \in Values
        BY <1>5, <3>1 DEF Runs
      <3> QED BY <3>2
    <2>2. ASSUME NEW k \in 0 .. N PROVE f[k] = IF k = 0 THEN base ELSE Valued(f[k - 1], place(k))
      <3>1. k # 0 => k \in 1 .. N
        BY <1>1
      <3> QED BY <1>5, <2>1, <3>1 DEF Runs
    <2> QED BY <1>5, <2>2 DEF Runs
  <1> DEFINE loop == CHOOSE g : Loop(g)
  <1>7. Loop(loop)
    <2> HIDE DEF Loop
    <2> QED BY <1>6
  <1>8. Valuation = loop[N]
    BY DEF Valuation, place
  <1> HIDE DEF loop
  <1>9. \A k \in 0 .. N : loop[k] = IF k = 0 THEN base ELSE Valued(loop[k - 1], place(k))
    BY <1>7
  <1> DEFINE Typed == {k \in Nat : loop[k] \in Values}
  <1>10. \A k \in 0 .. N : k \in Typed
    <2>1. 0 \in Typed
      <3>1. 0 \in 0 .. N
        BY <1>1
      <3> QED BY <1>3, <1>9, <3>1
    <2>2. ASSUME NEW k \in 0 .. N, k < N, k \in Typed PROVE k + 1 \in Typed
      <3>1. k + 1 \in 1 .. N /\ k + 1 \in 0 .. N /\ k + 1 # 0 /\ k + 1 - 1 = k /\ k + 1 \in Nat
        BY <1>1, <2>2
      <3>2. loop[k + 1] = Valued(loop[k], place(k + 1)) /\ loop[k] \in Values /\ place(k + 1) \in Places
        <4> HIDE DEF Loop, N
        <4> QED BY <1>2, <1>9, <2>2, <3>1
      <3>3. loop[k + 1] \in Values
        BY <3>2, ValuedTyped
      <3> QED BY <3>1, <3>3
    <2> HIDE DEF Typed, N
    <2> QED BY <1>1, <2>1, <2>2, IntervalInduction
  <1>11. N \in 0 .. N
    BY <1>1
  <1> QED BY <1>8, <1>10, <1>11

LEMMA NotionalTyped ==
    ASSUME NEW value \in Values, NEW asset
    PROVE  NotionalIn(value, asset) \in Nat
  <1>1. PICK D \in SUBSET Assets : value \in [D -> Positive \X Positive]
    BY DEF Values
  <1>2. CASE asset \notin DOMAIN value
    BY <1>2 DEF NotionalIn
  <1>3. CASE asset \in DOMAIN value
    <2> DEFINE n == value[asset][1]  d == value[asset][2]  top == RefNotional * d
    <2>1. n \in Positive /\ d \in Positive
      BY <1>1, <1>3
    <2>2. top \in Nat
      <3> HIDE DEF d
      <3> QED BY <2>1, GraphAssumption DEF Positive
    <2>3. top \div n \in Nat
      <3> HIDE DEF top, n
      <3> QED BY <2>1, <2>2 DEF Positive
    <2> QED BY <1>3, <2>3 DEF NotionalIn
  <1> QED BY <1>2, <1>3

\* What a usable edge that buys says: what it pays is bought above the touch.
BuysAt(rate, book, f, d, n) ==
    /\ rate = <<f * (FeeDen - FeeNum), d * n * FeeDen>>
    /\ f \in Nat /\ d \in Positive /\ n \in Nat /\ book.asks[1].price * f <= n * d

\* What a usable edge that sells says: what it takes is paid for below the touch.
SellsAt(rate, book, f, n) ==
    /\ rate = <<n * (FeeDen - FeeNum), f * FeeDen>>
    /\ f \in Nat /\ n \in Nat /\ n <= f * book.bids[1].price

LEMMA BuyEdge ==
    ASSUME NEW value \in Values, NEW i \in Places, gBook[i] \in GraphBooks,
           PriceEdge(value, i, "buy").quality = "ok"
    PROVE  /\ gBook[i].asks # << >> /\ ~Crossed(gBook[i])
           /\ \E f, d, n : BuysAt(PriceEdge(value, i, "buy").rate, gBook[i], f, d, n)
  <1> DEFINE book == gBook[i]  e == PriceEdge(value, i, "buy")
             n == NotionalIn(value, Symbols[i].quote)
             walk == WalkForNotional(book.asks, n)
             rate == NetOfFee(Over(walk.filled, <<n, 1>>))
  <1>1. n \in Nat
    BY NotionalTyped
  <1> HIDE DEF n
  <1>2. book.asks # << >> /\ ~Crossed(book) /\ e.rate = rate
    <2> HIDE DEF walk
    <2> QED BY DEF PriceEdge, Rejected, SideWalk, Levels, walk, n
  <1>3. walk.filled \in Nat \X Positive /\ walk.notional \in Nat /\ walk.notional <= n
        /\ book.asks[1].price * walk.filled[1] <= walk.notional * walk.filled[2]
    BY <1>1, <1>2, BookFacts, BuysAboveTouch DEF Positive
  <1> DEFINE f == walk.filled[1]  d == walk.filled[2]
  <1>4. f \in Nat /\ d \in Positive
    BY <1>3
  <1>5. rate = <<f * (FeeDen - FeeNum), d * n * FeeDen>>
    <2>1. rate = <<f * 1 * (FeeDen - FeeNum), d * n * FeeDen>>
      BY DEF NetOfFee, Over
    <2> HIDE DEF f, d, rate
    <2> QED BY <1>4, <2>1
  <1>6. book.asks[1].price * f <= n * d
    <2> DEFINE m == walk.notional  p == book.asks[1].price
    <2>1. m \in Nat /\ m <= n /\ p * f <= m * d /\ p \in Nat
      BY <1>2, <1>3, BookFacts DEF Positive
    <2> HIDE DEF m, p, f, d
    <2>2. m * d <= n * d /\ m * d \in Nat /\ n * d \in Nat /\ p * f \in Nat
      BY <1>1, <1>4, <2>1, ProductsKeepOrder DEF Positive
    <2>3. p * f <= n * d
      BY <2>1, <2>2
    <2> QED BY <2>3 DEF p
  <1>7. BuysAt(e.rate, book, f, d, n)
    BY <1>1, <1>2, <1>4, <1>5, <1>6 DEF BuysAt
  <1> HIDE DEF f, d
  <1> QED BY <1>2, <1>7

LEMMA SellEdge ==
    ASSUME NEW value \in Values, NEW i \in Places, gBook[i] \in GraphBooks,
           PriceEdge(value, i, "sell").quality = "ok"
    PROVE  /\ gBook[i].bids # << >> /\ ~Crossed(gBook[i])
           /\ \E f, n : SellsAt(PriceEdge(value, i, "sell").rate, gBook[i], f, n)
  <1> DEFINE book == gBook[i]  e == PriceEdge(value, i, "sell")
             N == NotionalIn(value, Symbols[i].quote)
             touch == book.bids[1].price  q == N \div touch
             walk == WalkBook(book.bids, q)
             rate == NetOfFee(<<walk.notional, walk.filled>>)
  <1>1. N \in Nat
    BY NotionalTyped
  <1>2. book.bids # << >> /\ ~Crossed(book) /\ e.rate = rate
    <2> HIDE DEF walk
    <2> QED BY DEF PriceEdge, Rejected, SideWalk, Levels, walk
  <1> HIDE DEF N
  <1>3. touch \in Positive
    BY <1>2, BookFacts
  <1>4. q \in Nat
    <2> HIDE DEF touch
    <2> QED BY <1>1, <1>3 DEF Positive
  <1> HIDE DEF q
  <1>5. walk.filled \in Nat /\ walk.notional \in Nat /\ walk.notional <= walk.filled * touch
    BY <1>2, <1>4, BookFacts, SalesBelowTouch
  <1> DEFINE f == walk.filled  n == walk.notional
  <1>6. rate = <<n * (FeeDen - FeeNum), f * FeeDen>>
    BY DEF NetOfFee
  <1>7. SellsAt(e.rate, book, f, n)
    BY <1>2, <1>5, <1>6 DEF SellsAt
  <1> HIDE DEF f, n
  <1> QED BY <1>2, <1>7

\* Over and back on one book, whatever each way was sized with.
LEMMA OverAndBack ==
    ASSUME NEW book \in GraphBooks, book.asks # << >>, book.bids # << >>, ~Crossed(book),
           NEW out, NEW back, \E f, d, n : BuysAt(out, book, f, d, n),
           \E f, n : SellsAt(back, book, f, n)
    PROVE  out[1] * back[1] <= out[2] * back[2]
  <1>1. PICK f, d, n : BuysAt(out, book, f, d, n)
    OBVIOUS
  <1>2. PICK x, w : SellsAt(back, book, x, w)
    OBVIOUS
  <1> DEFINE g == FeeDen - FeeNum  ask == book.asks[1].price  bid == book.bids[1].price
             kept == g * g  full == FeeDen * FeeDen
             made == f * w  spent == d * n * x
  <1>3. ask \in Positive /\ bid \in Positive /\ bid <= ask
    <2>1. ask \in Positive /\ bid \in Positive /\ ~(bid >= ask)
      BY BookFacts DEF Crossed, Sided
    <2> HIDE DEF ask, bid
    <2> QED BY <2>1 DEF Positive
  <1>4. g \in Nat /\ g <= FeeDen /\ FeeDen \in Nat
    BY GraphAssumption
  <1>5. /\ out = <<f * g, d * n * FeeDen>> /\ f \in Nat /\ d \in Nat /\ n \in Nat /\ ask * f <= n * d
        /\ back = <<w * g, x * FeeDen>> /\ x \in Nat /\ w \in Nat /\ w <= x * bid
    BY <1>1, <1>2 DEF BuysAt, SellsAt, Positive
  <1>6. made <= spent /\ made \in Nat /\ spent \in Nat
    <2> HIDE DEF ask, bid
    <2>0. ask \in Nat /\ bid \in Nat
      BY <1>3 DEF Positive
    <2> DEFINE a == x * bid  b == x * ask  c == ask * f  e == n * d
    <2>1. a \in Nat /\ b \in Nat /\ c \in Nat /\ e \in Nat /\ a <= b /\ w <= a /\ c <= e
      BY <1>3, <1>5, <2>0, ProductsKeepOrder
    <2>2. b * f = x * c /\ e * x = d * n * x
      BY <1>5, <2>0
    <2> HIDE DEF a, b, c, e
    <2>3. f * w <= f * b /\ f * w \in Nat /\ f * b \in Nat
      <3>1. w <= b
        BY <1>5, <2>1
      <3> QED BY <1>5, <2>1, <3>1, ProductsKeepOrder
    <2>4. x * c <= x * e /\ x * c \in Nat /\ x * e \in Nat
      BY <1>5, <2>1, ProductsKeepOrder
    <2>5. f * b = b * f /\ x * e = e * x
      BY <1>5, <2>1
    <2> DEFINE k1 == f * w  k2 == f * b  k3 == x * c  k4 == x * e
    <2>6. k1 <= k2 /\ k2 = k3 /\ k3 <= k4 /\ k4 = spent /\ {k1, k2, k3, k4} \subseteq Nat
      BY <2>2, <2>3, <2>4, <2>5
    <2> HIDE DEF k2, k3, k4, spent, k1
    <2>7. k1 <= spent /\ k1 \in Nat /\ spent \in Nat
      BY <2>6
    <2> QED BY <2>7 DEF k1
  <1>7. kept <= full /\ kept \in Nat /\ full \in Nat
    <2> HIDE DEF g
    <2> QED BY <1>4, ProductsKeepOrder
  <1>8. made * kept <= spent * full
    <2> HIDE DEF made, kept, spent, full
    <2> QED BY <1>6, <1>7, ProductsKeepOrder
  <1>9. out[1] * back[1] = made * kept
    <2>1. out[1] = f * g /\ back[1] = w * g
      BY <1>5
    <2> HIDE DEF g
    <2>2. (f * g) * (w * g) = (f * w) * (g * g)
      BY <1>4, <1>5
    <2> QED BY <2>1, <2>2
  <1>10. out[2] * back[2] = spent * full
    <2>1. out[2] = d * n * FeeDen /\ back[2] = x * FeeDen
      BY <1>5
    <2> DEFINE m == d * n
    <2>2. m \in Nat
      BY <1>5
    <2> HIDE DEF m
    <2>3. (m * FeeDen) * (x * FeeDen) = (m * x) * (FeeDen * FeeDen)
      BY <1>4, <1>5, <2>2
    <2> QED BY <2>1, <2>3 DEF m
  <1> QED BY <1>8, <1>9, <1>10

EdgesLose(out, back) ==
    Usable(out) /\ Usable(back) => out.rate[1] * back.rate[1] <= out.rate[2] * back.rate[2]

LEMMA PricedEdgesLose ==
    ASSUME NEW value \in Values, NEW i \in Places, gBook \in [Places -> GraphBooks]
    PROVE  EdgesLose(PriceEdge(value, i, "buy"), PriceEdge(value, i, "sell"))
  <1> DEFINE out == PriceEdge(value, i, "buy")  back == PriceEdge(value, i, "sell")  book == gBook[i]
  <1> SUFFICES ASSUME out.quality = "ok", back.quality = "ok"
               PROVE  out.rate[1] * back.rate[1] <= out.rate[2] * back.rate[2]
    BY DEF EdgesLose, Usable
  <1>1. book \in GraphBooks
    OBVIOUS
  <1>2. book.asks # << >> /\ ~Crossed(book) /\ \E f, d, n : BuysAt(out.rate, book, f, d, n)
    BY <1>1, BuyEdge
  <1>3. book.bids # << >> /\ \E f, n : SellsAt(back.rate, book, f, n)
    BY <1>1, SellEdge
  <1> DEFINE over == out.rate  again == back.rate
  <1> HIDE DEF book
  <1>4. over[1] * again[1] <= over[2] * again[2]
    <2> HIDE DEF over, again
    <2>1. (\E f, d, n : BuysAt(over, book, f, d, n)) /\ \E f, n : SellsAt(again, book, f, n)
      BY <1>2, <1>3 DEF over, again
    <2> QED BY <1>1, <1>2, <1>3, <2>1, OverAndBack
  <1> QED BY <1>4

-----------------------------------------------------------------------------
(* The steps. *)

GraphInv ==
    /\ gBook \in [Places -> GraphBooks] /\ gValue \in Values
    /\ RoundTripsLose

LEMMA GraphInvInit == GraphInit => GraphInv
  <1> SUFFICES ASSUME GraphInit PROVE GraphInv
    OBVIOUS
  <1>1. gBook \in [Places -> GraphBooks] /\ gEdges = << >>
    BY DEF GraphInit
  <1>2. gValue \in Values
    <2> DEFINE D == {GraphBase}
    <2>1. D \in SUBSET Assets /\ gValue \in [D -> Positive \X Positive]
      BY DEF Assets, Positive, GraphInit
    <2> HIDE DEF D
    <2> QED BY <2>1 DEF Values
  <1> QED BY <1>1, <1>2 DEF GraphInv, RoundTripsLose

LEMMA GraphInvStep == GraphInv /\ [GraphNext]_gVars => GraphInv'
  <1> SUFFICES ASSUME GraphInv, [GraphNext]_gVars PROVE GraphInv'
    OBVIOUS
  <1>1. gBook \in [Places -> GraphBooks] /\ gValue \in Values /\ RoundTripsLose
    BY DEF GraphInv
  <1>2. CASE Build
    <2>1. gBook' = gBook /\ gValue' = Valuation /\ gEdges' = [k \in Places \X Sides |-> PriceEdge(gValue', k[1], k[2])]
      BY <1>2 DEF Build
    <2>2. gValue' \in Values
      BY <1>1, <2>1, ValuationTyped
    <2>3. ASSUME NEW i \in Places PROVE EdgesLose(gEdges'[<<i, "buy">>], gEdges'[<<i, "sell">>])
      <3> DEFINE value == gValue'
      <3>1. EdgesLose(PriceEdge(value, i, "buy"), PriceEdge(value, i, "sell"))
        <4> HIDE DEF value
        <4>1. value \in Values
          BY <2>2 DEF value
        <4> QED BY <1>1, <4>1, PricedEdgesLose
      <3>2. gEdges'[<<i, "buy">>] = PriceEdge(value, i, "buy") /\ gEdges'[<<i, "sell">>] = PriceEdge(value, i, "sell")
        BY <2>1 DEF Sides
      <3> QED BY <3>1, <3>2
    <2>4. RoundTripsLose'
      BY <2>3 DEF RoundTripsLose, EdgesLose
    <2> QED BY <1>1, <2>1, <2>2, <2>4 DEF GraphInv
  <1>3. CASE BooksAge \/ UNCHANGED gVars
    <2>1. gBook' = gBook /\ gValue' = gValue /\ gEdges' = gEdges
      BY <1>3 DEF BooksAge, gVars
    <2>2. RoundTripsLose'
      BY <1>1, <2>1 DEF RoundTripsLose
    <2> QED BY <1>1, <2>1, <2>2 DEF GraphInv
  <1>4. ASSUME NEW i \in Places, BookMoves(i) PROVE GraphInv'
    <2>1. gBook' \in [Places -> GraphBooks] /\ gValue' = gValue /\ gEdges' = gEdges
      BY <1>1, <1>4 DEF BookMoves
    <2>2. RoundTripsLose'
      BY <1>1, <2>1 DEF RoundTripsLose
    <2> QED BY <1>1, <2>1, <2>2 DEF GraphInv
  <1>5. ASSUME NEW i \in Places, UpdateSymbol(i) PROVE GraphInv'
    <2>1. /\ gBook' = gBook /\ gValue' = gValue /\ gEdges # << >>
          /\ gEdges' = [k \in Places \X Sides |-> IF k[1] = i THEN PriceEdge(gValue, i, k[2]) ELSE gEdges[k]]
      BY <1>5 DEF UpdateSymbol
    <2>2. ASSUME NEW j \in Places PROVE EdgesLose(gEdges'[<<j, "buy">>], gEdges'[<<j, "sell">>])
      <3>1. CASE j = i
        <4>1. EdgesLose(PriceEdge(gValue, i, "buy"), PriceEdge(gValue, i, "sell"))
          BY <1>1, PricedEdgesLose
        <4>2. gEdges'[<<j, "buy">>] = PriceEdge(gValue, i, "buy") /\ gEdges'[<<j, "sell">>] = PriceEdge(gValue, i, "sell")
          BY <2>1, <3>1 DEF Sides
        <4> QED BY <4>1, <4>2
      <3>2. CASE j # i
        <4>1. gEdges'[<<j, "buy">>] = gEdges[<<j, "buy">>] /\ gEdges'[<<j, "sell">>] = gEdges[<<j, "sell">>]
          BY <2>1, <3>2 DEF Sides
        <4>2. EdgesLose(gEdges[<<j, "buy">>], gEdges[<<j, "sell">>])
          BY <1>1, <2>1 DEF RoundTripsLose, EdgesLose
        <4> QED BY <4>1, <4>2
      <3> QED BY <3>1, <3>2
    <2>3. RoundTripsLose'
      BY <2>2 DEF RoundTripsLose, EdgesLose
    <2> QED BY <1>1, <2>1, <2>3 DEF GraphInv
  <1> QED BY <1>2, <1>3, <1>4, <1>5 DEF GraphNext

\* Buying a symbol's base and selling it again at the edges' rates never gains.
\* Code: _price_edge, the sides it walks and the fee it takes.
THEOREM EdgesLoseBothWays == GraphSpec => []RoundTripsLose
  <1>1. GraphInv => RoundTripsLose
    BY DEF GraphInv
  <1> QED BY <1>1, GraphInvInit, GraphInvStep, PTL DEF GraphSpec

-----------------------------------------------------------------------------
(* Taking a quantity from the whole of a book. *)

WholeStates == [left : Nat, worth : Nat]
ToTake(quantity) == [left |-> quantity, worth |-> 0]

TakesWhole(w, level, take, v) ==
    /\ take \in Nat /\ take <= w.left /\ take <= level.size
    /\ take = w.left \/ take = level.size
    /\ v.left = w.left - take /\ v.worth = w.worth + take * level.price

LEMMA TakeWholeFacts ==
    ASSUME NEW w \in WholeStates, NEW level \in Quotes
    PROVE  /\ TakeWhole(w, level) \in WholeStates
           /\ \E take : TakesWhole(w, level, take, TakeWhole(w, level))
  <1> DEFINE take == Smaller(w.left, level.size)  worth == take * level.price
  <1>1. w.left \in Nat /\ w.worth \in Nat /\ level.size \in Nat /\ level.price \in Nat
    BY DEF WholeStates, Quotes
  <1>2. take \in Nat /\ take <= w.left /\ take <= level.size /\ (take = w.left \/ take = level.size)
    BY <1>1 DEF Smaller
  <1>3. worth \in Nat
    <2> HIDE DEF take
    <2> QED BY <1>1, <1>2
  <1>4. TakeWhole(w, level) = [left |-> w.left - take, worth |-> w.worth + worth]
    BY DEF TakeWhole
  <1> HIDE DEF take, worth
  <1>5. TakeWhole(w, level) \in WholeStates
    BY <1>1, <1>2, <1>3, <1>4 DEF WholeStates
  <1>6. TakesWhole(w, level, take, TakeWhole(w, level))
    BY <1>2, <1>4 DEF worth, TakesWhole
  <1> QED BY <1>5, <1>6

WholeOver(walk, levels, quantity) ==
    /\ walk \in [0 .. Len(levels) -> WholeStates] /\ walk[0] = ToTake(quantity)
    /\ \A k \in 1 .. Len(levels) : walk[k] = TakeWhole(walk[k - 1], levels[k])

LEMMA FullWorthRuns ==
    ASSUME NEW levels \in Seq(Quotes), NEW quantity \in Nat
    PROVE  \E walk : /\ WholeOver(walk, levels, quantity)
                     /\ FullWorth(levels, quantity) = walk[Len(levels)].worth
  <1> DEFINE N == Len(levels)  base == ToTake(quantity)
             step == [p \in (1 .. N) \X WholeStates |-> TakeWhole(p[2], levels[p[1]])]
             Loop(f) == f = [k \in 0 .. N |-> IF k = 0 THEN base ELSE TakeWhole(f[k - 1], levels[k])]
  <1>1. N \in Nat /\ \A k \in 1 .. N : levels[k] \in Quotes
    BY LenProperties, ElementOfSeq
  <1>2. base \in WholeStates
    BY DEF WholeStates, ToTake
  <1>3. step \in [(1 .. N) \X WholeStates -> WholeStates]
    <2>1. ASSUME NEW p \in (1 .. N) \X WholeStates PROVE TakeWhole(p[2], levels[p[1]]) \in WholeStates
      <3>1. p[1] \in 1 .. N /\ p[2] \in WholeStates
        OBVIOUS
      <3> QED BY <1>1, <3>1, TakeWholeFacts
    <2> QED BY <2>1
  <1>4. PICK f : Runs(f, N, WholeStates, base, step)
    <2> HIDE DEF N, base, step
    <2> QED BY <1>1, <1>2, <1>3, LoopRuns
  <1>5. WholeOver(f, levels, quantity)
    <2>1. ASSUME NEW k \in 1 .. N PROVE f[k] = TakeWhole(f[k - 1], levels[k])
      <3>1. k - 1 \in 0 .. N
        BY <1>1
      <3>2. f[k] = step[<<k, f[k - 1]>>] /\ f[k - 1] \in WholeStates
        BY <1>4, <3>1 DEF Runs
      <3> QED BY <3>2
    <2> QED BY <1>4, <2>1 DEF Runs, WholeOver
  <1>6. Loop(f)
    <2>1. ASSUME NEW k \in 0 .. N PROVE f[k] = IF k = 0 THEN base ELSE TakeWhole(f[k - 1], levels[k])
      <3>1. k # 0 => k \in 1 .. N
        BY <1>1
      <3> QED BY <1>5, <3>1 DEF WholeOver
    <2> QED BY <1>5, <2>1 DEF WholeOver
  <1> DEFINE walk == CHOOSE g : Loop(g)
  <1>7. Loop(walk)
    <2> HIDE DEF Loop
    <2> QED BY <1>6
  <1>8. FullWorth(levels, quantity) = walk[N].worth
    BY DEF FullWorth, ToTake
  <1> HIDE DEF walk
  <1> DEFINE Typed == {k \in Nat : walk[k] \in WholeStates}
  <1>9. \A k \in 0 .. N : walk[k] = IF k = 0 THEN base ELSE TakeWhole(walk[k - 1], levels[k])
    BY <1>7
  <1>10. ASSUME NEW k \in 1 .. N PROVE walk[k] = TakeWhole(walk[k - 1], levels[k])
    <2>1. k \in 0 .. N /\ k # 0
      BY <1>1
    <2> HIDE DEF Loop
    <2> QED BY <1>9, <2>1
  <1>11. \A k \in 0 .. N : k \in Typed
    <2>1. 0 \in Typed
      <3>1. 0 \in 0 .. N
        BY <1>1
      <3> QED BY <1>2, <1>9, <3>1
    <2>2. ASSUME NEW k \in 0 .. N, k < N, k \in Typed PROVE k + 1 \in Typed
      <3>1. k + 1 \in 1 .. N /\ k + 1 - 1 = k /\ k + 1 \in Nat
        BY <1>1, <2>2
      <3>2. walk[k + 1] = TakeWhole(walk[k], levels[k + 1]) /\ walk[k] \in WholeStates
        BY <1>10, <2>2, <3>1
      <3>3. walk[k + 1] \in WholeStates
        BY <1>1, <3>1, <3>2, TakeWholeFacts
      <3> QED BY <3>1, <3>3
    <2> HIDE DEF Typed, N
    <2> QED BY <1>1, <2>1, <2>2, IntervalInduction
  <1>12. WholeOver(walk, levels, quantity)
    <2>1. walk[0] = base
      <3>1. 0 \in 0 .. N
        BY <1>1
      <3> QED BY <1>9, <3>1
    <2>2. walk \in [0 .. N -> WholeStates]
      BY <1>7, <1>11
    <2> QED BY <1>10, <2>1, <2>2 DEF WholeOver
  <1> QED BY <1>8, <1>12

\* The level j where the quantity runs out: whole levels before it, nothing after it.
TurnsAt(walk, levels, j) ==
    /\ j \in 1 .. Len(levels)
    /\ \A k \in 1 .. Len(levels) :
          \E take : /\ TakesWhole(walk[k - 1], levels[k], take, walk[k])
                    /\ k < j => take = levels[k].size
                    /\ k > j => take = 0

LEMMA TurnExists ==
    ASSUME NEW levels \in Seq(Quotes), levels # << >>, NEW quantity \in Nat,
           NEW walk, WholeOver(walk, levels, quantity)
    PROVE  \E j : TurnsAt(walk, levels, j)
  <1> DEFINE N == Len(levels)
             Out == {k \in 1 .. N : walk[k].left = 0}
  <1>1. N \in Nat \ {0} /\ \A k \in 1 .. N : levels[k] \in Quotes
    BY LenProperties, ElementOfSeq, EmptySeq
  <1>2. /\ \A k \in 0 .. N : walk[k] \in WholeStates /\ walk[k].left \in Nat
        /\ \A k \in 1 .. N : walk[k] = TakeWhole(walk[k - 1], levels[k])
    BY DEF WholeOver, WholeStates
  <1>3. ASSUME NEW k \in 1 .. N PROVE \E take : TakesWhole(walk[k - 1], levels[k], take, walk[k])
    <2>1. k - 1 \in 0 .. N
      BY <1>1
    <2> DEFINE w == walk[k - 1]  level == levels[k]
    <2>2. w \in WholeStates /\ level \in Quotes /\ walk[k] = TakeWhole(w, level)
      BY <1>1, <1>2, <2>1
    <2> HIDE DEF w, level
    <2>3. \E take : TakesWhole(w, level, take, TakeWhole(w, level))
      BY <2>2, TakeWholeFacts
    <2> QED BY <2>2, <2>3 DEF w, level
  <1>4. CASE Out = {}
    <2>1. ASSUME NEW k \in 1 .. N PROVE \E take : /\ TakesWhole(walk[k - 1], levels[k], take, walk[k])
                                                  /\ k < N => take = levels[k].size
                                                  /\ k > N => take = 0
      <3>1. PICK take : TakesWhole(walk[k - 1], levels[k], take, walk[k])
        BY <1>3
      <3>2. walk[k].left # 0 /\ k - 1 \in 0 .. N
        BY <1>1, <1>4
      <3>3. walk[k - 1].left \in Nat
        BY <1>2, <3>2
      <3>4. take # walk[k - 1].left
        BY <3>1, <3>2, <3>3 DEF TakesWhole
      <3>5. take = levels[k].size /\ ~(k > N)
        BY <1>1, <3>1, <3>4 DEF TakesWhole
      <3> QED BY <3>1, <3>5
    <2>2. TurnsAt(walk, levels, N)
      BY <1>1, <2>1 DEF TurnsAt
    <2> QED BY <2>2
  <1>5. CASE Out # {}
    <2>1. PICK j \in Out : \A k \in Out : j <= k
      <3>1. Out \in SUBSET Nat
        BY <1>1
      <3> HIDE DEF Out
      <3> QED BY <1>5, <3>1, LeastNatural
    <2>2. j \in 1 .. N /\ j \in Nat /\ N \in Nat /\ walk[j].left = 0
      BY <1>1, <2>1
    <2> DEFINE Stays == {k \in Nat : walk[k].left = 0}
    <2>3. \A k \in j .. N : k \in Stays
      <3>1. j \in Stays
        BY <2>2
      <3>2. ASSUME NEW k \in j .. N, k < N, k \in Stays PROVE k + 1 \in Stays
        <4>1. k + 1 \in 1 .. N /\ k + 1 - 1 = k /\ k \in 0 .. N /\ k + 1 \in 0 .. N /\ k + 1 \in Nat
          BY <2>2, <3>2
        <4> DEFINE m == k + 1
        <4>2. PICK take : TakesWhole(walk[m - 1], levels[m], take, walk[m])
          <5> HIDE DEF m
          <5>1. m \in 1 .. N
            BY <4>1 DEF m
          <5> QED BY <1>3, <5>1
        <4>3. walk[m - 1] = walk[k]
          BY <4>1
        <4>4. walk[k].left = 0
          BY <3>2
        <4> HIDE DEF m
        <4>5. walk[m].left = 0
          BY <4>2, <4>3, <4>4 DEF TakesWhole
        <4> QED BY <4>1, <4>5 DEF m
      <3> HIDE DEF Stays
      <3> QED BY <2>2, <3>1, <3>2, IntervalInduction
    <2>4. ASSUME NEW k \in 1 .. N PROVE \E take : /\ TakesWhole(walk[k - 1], levels[k], take, walk[k])
                                                  /\ k < j => take = levels[k].size
                                                  /\ k > j => take = 0
      <3>1. PICK take : TakesWhole(walk[k - 1], levels[k], take, walk[k])
        BY <1>3
      <3>2. k - 1 \in 0 .. N /\ walk[k - 1].left \in Nat /\ walk[k].left \in Nat
        BY <1>1, <1>2
      <3>3. ASSUME k < j PROVE take = levels[k].size
        <4>1. walk[k].left # 0
          <5> SUFFICES ASSUME walk[k].left = 0 PROVE FALSE
            OBVIOUS
          <5>1. k \in Out
            OBVIOUS
          <5>2. j <= k
            BY <2>1, <5>1
          <5> QED BY <2>2, <3>3, <5>2
        <4>2. take # walk[k - 1].left
          BY <3>1, <3>2, <4>1 DEF TakesWhole
        <4> QED BY <3>1, <4>2 DEF TakesWhole
      <3>4. ASSUME k > j PROVE take = 0
        <4>1. k - 1 \in j .. N
          BY <2>2, <3>4
        <4>2. walk[k - 1].left = 0
          BY <2>3, <4>1
        <4> QED BY <3>1, <4>2 DEF TakesWhole
      <3> QED BY <3>1, <3>3, <3>4
    <2>5. TurnsAt(walk, levels, j)
      BY <2>2, <2>4 DEF TurnsAt
    <2> QED BY <2>5
  <1> QED BY <1>4, <1>5

\* Multiplying by an integer keeps an order, or turns it round.
LEMMA TimesKeepsOrder ==
    ASSUME NEW x \in Int, NEW y \in Int, NEW z \in Int, x <= y
    PROVE  x * z \in Int /\ y * z \in Int /\ (z >= 0 => x * z <= y * z) /\ (z <= 0 => y * z <= x * z)
  <1>1. PICK m \in Nat : y = x + m
    <2>1. y - x \in Nat /\ y = x + (y - x)
      OBVIOUS
    <2> QED BY <2>1
  <1>2. y * z = x * z + m * z /\ x * z \in Int /\ m * z \in Int
    BY <1>1
  <1>3. z >= 0 => m * z >= 0
    <2> SUFFICES ASSUME z >= 0 PROVE m * z >= 0
      OBVIOUS
    <2>1. z \in Nat
      OBVIOUS
    <2> QED BY <2>1
  <1>4. z <= 0 => m * z <= 0
    <2> SUFFICES ASSUME z <= 0 PROVE m * z <= 0
      OBVIOUS
    <2>1. -z \in Nat
      OBVIOUS
    <2>2. m * (-z) \in Nat /\ m * z = -(m * (-z))
      BY <2>1
    <2> DEFINE a == m * (-z)
    <2> HIDE DEF a
    <2>3. a \in Nat /\ m * z = -a
      BY <2>2 DEF a
    <2> QED BY <2>3
  <1> DEFINE a == x * z  b == y * z  c == m * z
  <1>5. b = a + c /\ a \in Int /\ c \in Int /\ (z >= 0 => c >= 0) /\ (z <= 0 => c <= 0)
    BY <1>2, <1>3, <1>4
  <1> HIDE DEF a, b, c
  <1>6. a \in Int /\ b \in Int /\ (z >= 0 => a <= b) /\ (z <= 0 => b <= a)
    BY <1>5
  <1> QED BY <1>6 DEF a, b

\* A level before the turn gives all it has, a level after it nothing, and none at its
\* own price counts: so with d = price - p, taking differs from x by what has the sign.
Inside(x, most) == 0 <= x /\ x <= most
Turned(take, most, d) == (take = most /\ d <= 0) \/ d = 0 \/ (take = 0 /\ d >= 0)

LEMMA TurnedFavours ==
    ASSUME NEW take \in Int, NEW most \in Int, NEW x \in Int, NEW d \in Int,
           Turned(take, most, d), Inside(x, most)
    PROVE  take * d \in Int /\ x * d \in Int /\ take * d <= x * d
  <1>1. take * d \in Int /\ x * d \in Int
    OBVIOUS
  <1>2. CASE take = most /\ d <= 0
    BY <1>2, TimesKeepsOrder DEF Inside
  <1>3. CASE d = 0
    BY <1>3
  <1>4. CASE take = 0 /\ d >= 0
    BY <1>4, TimesKeepsOrder DEF Inside
  <1> QED BY <1>1, <1>2, <1>3, <1>4 DEF Turned

\* What is bought at the walk's average from the whole book costs no more than the walk.
LEMMA BuyCostsNoMore ==
    ASSUME NEW levels, AskSide(levels), levels # << >>, NEW amount \in Nat, NEW quantity \in Nat,
           WalkForNotional(levels, amount).filled[1] > 0,
           quantity * WalkForNotional(levels, amount).filled[2] <= WalkForNotional(levels, amount).filled[1]
    PROVE  /\ FullWorth(levels, quantity) \in Nat
           /\ FullWorth(levels, quantity) <= WalkForNotional(levels, amount).notional
  <1> DEFINE N == Len(levels)
  <1>1. levels \in Seq(Quotes) /\ N \in Nat \ {0} /\ DOMAIN levels = 1 .. N /\ \A k \in 1 .. N : levels[k] \in Quotes
    BY LenProperties, ElementOfSeq, EmptySeq DEF AskSide
  <1>2. PICK spend : /\ SpendOver(spend, levels, amount)
                     /\ WalkForNotional(levels, amount) = Walked(spend[IF amount > 0 THEN N ELSE 0])
    BY <1>1, WalkForNotionalRuns
  <1>3. PICK full : WholeOver(full, levels, quantity) /\ FullWorth(levels, quantity) = full[N].worth
    BY <1>1, FullWorthRuns
  <1>4. PICK j : TurnsAt(full, levels, j)
    BY <1>1, <1>3, TurnExists
  <1> DEFINE p == levels[j].price
  <1>5. p \in Nat /\ j \in 1 .. N
    BY <1>1, <1>4 DEF TurnsAt, Quotes
  <1>6. /\ spend[0] = ToSpend(amount) /\ \A k \in 0 .. N : spend[k] \in SpendStates
        /\ \A k \in 1 .. N : spend[k] = SpendLevel(spend[k - 1], levels[k])
    BY <1>2 DEF SpendOver
  <1>7. /\ full[0] = ToTake(quantity) /\ \A k \in 0 .. N : full[k] \in WholeStates
    BY <1>3 DEF WholeOver
  <1> DEFINE Owes(w, v) == /\ p * w.filled[1] <= w.filled[2] * (w.notional - v.worth + p * (quantity - v.left))
                           /\ w.left > 0 => w.filled[2] = 1
             Good == {k \in Nat : Owes(spend[k], full[k])}
  <1>8. ASSUME NEW k \in 1 .. N
        PROVE  \E take : /\ TakesWhole(full[k - 1], levels[k], take, full[k])
                         /\ Turned(take, levels[k].size, levels[k].price - p)
    <2>1. PICK take : /\ TakesWhole(full[k - 1], levels[k], take, full[k])
                      /\ k < j => take = levels[k].size
                      /\ k > j => take = 0
      BY <1>4 DEF TurnsAt
    <2>2. levels[k].price \in Nat /\ (k < j => levels[k].price <= p) /\ (k > j => p <= levels[k].price)
      <3>1. k \in DOMAIN levels /\ j \in DOMAIN levels
        BY <1>1, <1>5
      <3>2. levels[k].price \in Nat
        BY <1>1 DEF Quotes
      <3> QED BY <1>1, <1>5, <3>1, <3>2 DEF AskSide
    <2>3. k < j \/ k = j \/ k > j
      BY <1>5
    <2>4. Turned(take, levels[k].size, levels[k].price - p)
      <3> DEFINE price == levels[k].price
      <3>1. k = j => price = p
        OBVIOUS
      <3>2. price \in Nat /\ (k < j => price <= p) /\ (k > j => p <= price)
        BY <2>2
      <3> HIDE DEF price, p
      <3>3. Turned(take, levels[k].size, price - p)
        BY <1>5, <2>1, <2>3, <3>1, <3>2 DEF Turned
      <3> QED BY <3>3 DEF price
    <2> QED BY <2>1, <2>4
  <1> HIDE DEF N, p
  <1>9. \A k \in 0 .. N : k \in Good
    <2>1. 0 \in Good
      <3>1. spend[0].filled = <<0, 1>> /\ spend[0].notional = 0 /\ full[0].worth = 0 /\ full[0].left = quantity
        BY <1>6, <1>7 DEF ToSpend, ToTake
      <3>2. p * 0 = 0 /\ 1 * (0 - 0 + p * (quantity - quantity)) = 0
        BY <1>5
      <3> QED BY <3>1, <3>2
    <2>2. ASSUME NEW k \in 0 .. N, k < N, k \in Good PROVE k + 1 \in Good
      <3>1. k + 1 \in 1 .. N /\ k + 1 - 1 = k /\ k + 1 \in Nat /\ k + 1 \in 0 .. N
        BY <1>1, <2>2
      <3> DEFINE w == spend[k]  w2 == spend[k + 1]  v == full[k]  v2 == full[k + 1]  level == levels[k + 1]
                 price == level.price  all == Available(level)  size == level.size  worth == all * price
                 left == w.left  f == w.filled[1]  d == w.filled[2]  n == w.notional
                 u == v.worth  r == v.left  delta == price - p
      <3>2. PICK take : TakesWhole(v, level, take, v2) /\ Turned(take, size, delta)
        BY <1>8, <3>1
      <3>3. w2 = SpendLevel(w, level) /\ w \in SpendStates /\ level \in Quotes /\ v \in WholeStates
        BY <1>1, <1>6, <1>7, <2>2, <3>1
      <3>4. all \in Nat /\ price \in Nat \ {0} /\ size \in Nat /\ all <= size
        BY <3>3, AvailableFacts
      <3>5. left \in Nat /\ f \in Nat /\ d \in Nat \ {0} /\ n \in Nat /\ u \in Nat /\ r \in Nat
        BY <3>3 DEF SpendStates, WholeStates
      <3>6. take \in Nat /\ v2.left = r - take /\ v2.worth = u + take * price
        BY <3>2 DEF TakesWhole
      <3> DEFINE g == n - u + p * (quantity - r)
      <3>7. p * f <= d * g /\ (left > 0 => d = 1)
        BY <2>2
      <3>8. worth \in Nat /\ delta \in Int
        <4> HIDE DEF all, price
        <4> QED BY <1>5, <3>4
      <3>9. /\ left = 0 => w2 = w
            /\ left > 0 /\ worth <= left => w2.left = left - worth /\ w2.filled = <<f + all, 1>> /\ w2.notional = n + worth
            /\ left > 0 /\ worth > left => w2.left = 0 /\ w2.filled = <<f * price + left, price>> /\ w2.notional = n + left
        <4> HIDE DEF w, w2, level
        <4> QED BY <3>3, SpendLevelFacts
      <3> DEFINE td == take * delta
      <3>10. /\ p * (quantity - (r - take)) = p * (quantity - r) + p * take
             /\ take * price = take * p + td /\ p * take = take * p
             /\ p * (quantity - r) \in Int /\ take * price \in Int /\ take * p \in Int /\ td \in Int
        <4> HIDE DEF r
        <4>1. p * (quantity - (r - take)) = p * (quantity - r) + p * take
          <5> DEFINE e == quantity - r
          <5>1. quantity - (r - take) = e + take /\ e \in Int
            BY <3>5, <3>6
          <5> HIDE DEF e
          <5>2. p * (e + take) = p * e + p * take
            BY <1>5, <3>6, <5>1
          <5> QED BY <5>1, <5>2 DEF e
        <4>2. p * (quantity - r) \in Int
          <5>1. quantity - r \in Int
            BY <3>5
          <5> QED BY <1>5, <5>1
        <4>3. take * price = take * p + td /\ td \in Int
          <5>1. price = p + delta
            BY <1>5, <3>4
          <5> HIDE DEF delta, price
          <5> QED BY <1>5, <3>6, <3>8, <5>1
        <4>4. take * price \in Int /\ p * take = take * p /\ take * p \in Int
          <5> HIDE DEF price
          <5> QED BY <1>5, <3>4, <3>6
        <4> HIDE DEF td, price
        <4> QED BY <4>1, <4>2, <4>3, <4>4
      <3>11. g \in Int /\ \A m \in Nat : m - v2.worth + p * (quantity - v2.left) = m - u + p * (quantity - r) - td
        <4> DEFINE e == p * (quantity - r)  tp == take * p
        <4>1. v2.worth = u + (tp + td) /\ p * (quantity - v2.left) = e + tp /\ {e, tp, td} \subseteq Int
          BY <3>6, <3>10
        <4> DEFINE worth2 == v2.worth  e2 == p * (quantity - v2.left)
        <4>2. worth2 = u + (tp + td) /\ e2 = e + tp /\ {e, tp, td} \subseteq Int /\ u \in Nat /\ n \in Nat
          BY <3>5, <4>1
        <4> HIDE DEF e, tp, td, u, worth2, e2, n
        <4>3. n - u + e \in Int
          BY <4>2
        <4>4. ASSUME NEW m \in Nat PROVE m - worth2 + e2 = m - u + e - td
          BY <4>2
        <4> QED BY <4>3, <4>4 DEF e, worth2, e2
      <3>12. CASE left = 0
        <4>1. w2 = w
          BY <3>9, <3>12
        <4>2. td <= 0
          <5> DEFINE zero == 0
          <5>1. take * delta <= zero * delta
            <6>1. Inside(zero, size) /\ zero \in Int /\ size \in Int /\ take \in Int
              BY <3>4, <3>6 DEF Inside
            <6> HIDE DEF delta, size, zero
            <6> QED BY <3>2, <3>8, <6>1, TurnedFavours
          <5>2. 0 * delta = 0
            BY <3>8
          <5> QED BY <5>1, <5>2
        <4> DEFINE g2 == n - v2.worth + p * (quantity - v2.left)
        <4>3. g2 = g - td
          <5> DEFINE e == p * (quantity - r)  e2 == p * (quantity - v2.left)  uu == v2.worth
          <5>1. g = n - u + e /\ g2 = n - uu + e2 /\ n \in Nat /\ u \in Nat /\ e \in Int /\ td \in Int
            BY <3>5, <3>10
          <5>2. \A m \in Nat : m - uu + e2 = m - u + e - td
            BY <3>11
          <5> HIDE DEF n, td, u, e, e2, uu, g, g2
          <5> QED BY <5>1, <5>2
        <4>4. p * f <= d * g2
          <5>1. g <= g2 /\ g \in Int /\ g2 \in Int
            <6> HIDE DEF g, g2, td
            <6> QED BY <3>10, <3>11, <4>2, <4>3
          <5> HIDE DEF g, g2, d, f
          <5>2. g * d <= g2 * d /\ g * d \in Int /\ g2 * d \in Int
            <6>1. d \in Int /\ d >= 0
              BY <3>5
            <6> QED BY <5>1, <6>1, TimesKeepsOrder
          <5>3. d * g = g * d /\ d * g2 = g2 * d /\ p * f \in Int
            BY <1>5, <3>5, <5>1
          <5> QED BY <3>7, <5>2, <5>3
        <4>5. Owes(w2, v2)
          BY <3>7, <4>1, <4>4
        <4> QED BY <3>1, <4>5
      <3>13. CASE left > 0 /\ worth <= left
        <4>1. w2.left = left - worth /\ w2.filled[1] = f + all /\ w2.filled[2] = 1 /\ w2.notional = n + worth /\ d = 1
          BY <3>7, <3>9, <3>13
        <4>2. td <= all * delta /\ all * delta \in Int
          <5>1. Inside(all, size) /\ all \in Int /\ size \in Int /\ take \in Int
            BY <3>4, <3>6 DEF Inside
          <5> HIDE DEF delta, size, all
          <5> QED BY <3>2, <3>8, <5>1, TurnedFavours
        <4>3. worth = all * p + all * delta /\ p * (f + all) = p * f + all * p /\ all * p \in Int /\ p * f \in Int
          <5>1. price = p + delta
            BY <1>5, <3>4
          <5>2. all * price = all * p + all * delta
            <6> HIDE DEF delta, price, all
            <6> QED BY <1>5, <3>4, <3>8, <5>1
          <5>3. p * (f + all) = p * f + all * p /\ all * p \in Int /\ p * f \in Int
            <6> HIDE DEF all, f
            <6> QED BY <1>5, <3>4, <3>5
          <5> QED BY <5>2, <5>3
        <4> DEFINE g2 == (n + worth) - v2.worth + p * (quantity - v2.left)  e == p * (quantity - r)
                   pf == p * f  ap == all * p  ad == all * delta
        <4>4. g2 = (n + worth) - u + e - td
          <5>1. n + worth \in Nat
            <6> HIDE DEF n, worth
            <6> QED BY <3>5, <3>8
          <5> DEFINE m == n + worth
          <5> HIDE DEF m, td, u
          <5>2. m - v2.worth + p * (quantity - v2.left) = m - u + p * (quantity - r) - td
            BY <3>11, <5>1, Zenon DEF m
          <5> QED BY <5>2 DEF m, td, u
        <4>5. p * (f + all) <= 1 * g2
          <5>1. /\ g = n - u + e /\ pf <= g /\ worth = ap + ad /\ p * (f + all) = pf + ap
                /\ e \in Int /\ td \in Int /\ pf \in Int /\ ap \in Int /\ ad \in Int /\ td <= ad
            <6>1. d * g = g
              <7> HIDE DEF g
              <7> QED BY <3>11, <4>1
            <6> QED BY <3>7, <3>10, <4>2, <4>3, <6>1
          <5>2. g2 \in Int
            <6> HIDE DEF g2, e, td, worth, u, n
            <6> QED BY <3>5, <3>8, <4>4, <5>1
          <5> DEFINE pfa == p * (f + all)
          <5>3. pfa = pf + ap
            BY <5>1
          <5> HIDE DEF g2, g, e, pf, ap, ad, td, worth, u, n, pfa
          <5>4. pfa <= g2
            <6>1. n \in Nat /\ u \in Nat /\ worth \in Nat
              BY <3>5, <3>8
            <6>2. g = n - u + e /\ pf <= g /\ worth = ap + ad /\ td <= ad
              BY <5>1
            <6>3. e \in Int /\ td \in Int /\ pf \in Int /\ ap \in Int /\ ad \in Int
              BY <5>1
            <6> QED BY <4>4, <5>3, <6>1, <6>2, <6>3
          <5>5. 1 * g2 = g2
            BY <5>2
          <5> QED BY <5>4, <5>5 DEF pfa
        <4>6. Owes(w2, v2)
          BY <4>1, <4>5
        <4> QED BY <3>1, <4>6
      <3>14. CASE left > 0 /\ worth > left
        <4>1. w2.left = 0 /\ w2.filled[1] = f * price + left /\ w2.filled[2] = price /\ w2.notional = n + left /\ d = 1
          BY <3>7, <3>9, <3>14
        <4>2. price * td <= left * delta /\ left * delta \in Int /\ price * td \in Int
          <5> DEFINE taken == price * take  most == price * size
          <5>1. most \in Nat /\ left <= most /\ taken \in Int
            <6>1. worth <= size * price /\ size * price \in Nat
              <7> HIDE DEF all, size, price
              <7> QED BY <3>4, ProductsKeepOrder
            <6>2. most = size * price
              <7> HIDE DEF size, price
              <7> QED BY <3>4
            <6>3. taken \in Int
              <7> HIDE DEF price
              <7> QED BY <3>4, <3>6
            <6> HIDE DEF worth, most, size, price, left
            <6> QED BY <3>5, <3>8, <3>14, <6>1, <6>2, <6>3
          <5>2. Turned(taken, most, delta)
            <6>1. take = 0 => taken = 0
              BY <3>4
            <6> HIDE DEF delta, size
            <6> QED BY <3>2, <6>1 DEF Turned
          <5>3. taken * delta <= left * delta /\ left * delta \in Int /\ taken * delta \in Int
            <6>1. Inside(left, most) /\ left \in Int /\ most \in Int /\ taken \in Int
              BY <3>5, <5>1 DEF Inside
            <6> HIDE DEF taken, most, delta, left
            <6> QED BY <3>8, <5>2, <6>1, TurnedFavours
          <5>4. price * td = taken * delta
            <6> HIDE DEF delta, price
            <6> QED BY <3>4, <3>6, <3>8
          <5> QED BY <5>3, <5>4
        <4> DEFINE g2 == (n + left) - v2.worth + p * (quantity - v2.left)
                   pt == price * td  ld == left * delta  pl == p * left  pg == price * g  pf == p * f
        <4>3. g2 = g + left - td
          <5> DEFINE e == p * (quantity - r)  m == n + left
          <5>1. m \in Nat
            <6> HIDE DEF n, left
            <6> QED BY <3>5
          <5> HIDE DEF m, e, td, u, n, left
          <5>2. m - v2.worth + p * (quantity - v2.left) = m - u + p * (quantity - r) - td
            BY <3>11, <5>1, Zenon
          <5>3. m - u + e - td = (n - u + e) + left - td
            <6>1. e \in Int /\ td \in Int
              BY <3>10 DEF e
            <6> QED BY <3>5, <6>1 DEF m
          <5> QED BY <5>2, <5>3 DEF m, e, td, u, n, left
        <4>4. price * g2 = pg + price * left - pt /\ pg \in Int /\ price * left = pl + ld /\ pl \in Int
          <5>1. price * left = pl + ld /\ pl \in Int
            <6>1. price = p + delta
              BY <1>5, <3>4
            <6>2. p \in Int /\ delta \in Int /\ left \in Int
              BY <1>5, <3>5, <3>8
            <6>3. \A x, y, z \in Int : (x + y) * z = x * z + z * y /\ x * z \in Int
              OBVIOUS
            <6> HIDE DEF delta, price, left
            <6>4. (p + delta) * left = p * left + left * delta /\ p * left \in Int
              BY <6>2, <6>3, Zenon
            <6> QED BY <6>1, <6>4
          <5>2. price * (g + left - td) = price * g + price * left - price * td /\ price * g \in Int
            <6> HIDE DEF g, left, td, price
            <6> QED BY <3>4, <3>5, <3>10, <3>11
          <5> HIDE DEF g2, pg, pt
          <5> QED BY <4>3, <5>1, <5>2 DEF pg, pt
        <4>5. p * (f * price + left) = price * pf + pl /\ price * pf \in Int /\ price * pf <= pg
          <5>1. pf <= g /\ pf \in Int /\ g \in Int
            <6>1. d * g = g
              <7> HIDE DEF g
              <7> QED BY <3>11, <4>1
            <6>2. pf \in Int
              <7> HIDE DEF f
              <7> QED BY <1>5, <3>5
            <6> QED BY <3>7, <3>11, <6>1, <6>2
          <5>2. p * (f * price + left) = price * pf + pl
            <6> DEFINE fp == f * price
            <6>1. fp \in Nat
              <7> HIDE DEF f, price
              <7> QED BY <3>4, <3>5
            <6>2. p * fp = price * pf
              <7> HIDE DEF f, price
              <7> QED BY <1>5, <3>4, <3>5
            <6> HIDE DEF fp, left
            <6>3. p * (fp + left) = p * fp + p * left
              BY <1>5, <3>5, <6>1
            <6> QED BY <6>2, <6>3 DEF fp
          <5>3. price * pf \in Int /\ price * pf <= price * g
            <6> HIDE DEF pf, g, price
            <6>1. pf * price \in Int /\ pf * price <= g * price /\ pf * price = price * pf /\ g * price = price * g
              BY <3>4, <5>1, TimesKeepsOrder
            <6> QED BY <6>1
          <5> QED BY <5>2, <5>3
        <4>6. p * (f * price + left) <= price * g2
          <5> DEFINE ppf == price * pf  pleft == price * left
          <5>1. /\ p * (f * price + left) = ppf + pl /\ ppf \in Int /\ ppf <= pg /\ pg \in Int /\ pl \in Int
                /\ price * g2 = pg + pleft - pt /\ pleft = pl + ld /\ ld \in Int /\ pt \in Int /\ pt <= ld
            BY <4>2, <4>4, <4>5
          <5> HIDE DEF ppf, pleft, pg, pl, ld, pt, g2
          <5> QED BY <5>1
        <4>7. Owes(w2, v2)
          BY <4>1, <4>6
        <4> QED BY <3>1, <4>7
      <3> QED BY <3>5, <3>8, <3>12, <3>13, <3>14
    <2> HIDE DEF Good
    <2> QED BY <1>1, <2>1, <2>2, IntervalInduction DEF N
  <1> DEFINE r == WalkForNotional(levels, amount)
  <1>10. r.filled = spend[N].filled /\ r.notional = spend[N].notional
    <2>1. amount # 0
      <3> SUFFICES ASSUME amount = 0 PROVE FALSE
        OBVIOUS
      <3>1. r = Walked(spend[0])
        BY <1>2 DEF N
      <3>2. r.filled[1] = 0
        BY <1>6, <3>1 DEF Walked, ToSpend
      <3> QED BY <3>2
    <2>2. r = Walked(spend[N])
      BY <1>2, <2>1 DEF N
    <2> QED BY <2>2 DEF Walked
  <1> DEFINE f == spend[N].filled[1]  d == spend[N].filled[2]  n == spend[N].notional
             u == full[N].worth  left == full[N].left
  <1>11. N \in 0 .. N /\ spend[N] \in SpendStates /\ full[N] \in WholeStates
    BY <1>1, <1>6, <1>7 DEF N
  <1>12. f \in Nat /\ d \in Nat \ {0} /\ n \in Nat /\ u \in Nat /\ left \in Nat
    BY <1>11 DEF SpendStates, WholeStates
  <1>13. p * f <= d * (n - u + p * (quantity - left)) /\ quantity * d <= f
    BY <1>9, <1>10, <1>11
  <1> HIDE DEF f, d, n, u, left
  <1>14. u <= n
    <2> DEFINE e == p * (quantity - left)  g == n - u + e  pq == p * quantity
    <2>1. e <= pq /\ e \in Int /\ pq \in Nat /\ g \in Int
      <3> DEFINE x == quantity - left
      <3>1. x \in Int /\ x <= quantity
        BY <1>12
      <3> HIDE DEF x
      <3>2. x * p <= quantity * p /\ x * p \in Int /\ quantity * p \in Int /\ p * x = x * p /\ p * quantity = quantity * p
        BY <1>5, <3>1, TimesKeepsOrder
      <3>3. p * quantity \in Nat
        BY <1>5
      <3>4. e = p * x
        BY DEF x
      <3> QED BY <1>12, <3>2, <3>3, <3>4
    <2>2. pq * d <= g * d
      <3>1. pq * d = p * (quantity * d) /\ quantity * d \in Nat
        BY <1>5, <1>12
      <3> DEFINE qd == quantity * d
      <3>2. qd * p <= f * p /\ p * qd = qd * p /\ p * f = f * p /\ p * f \in Nat
        <4> HIDE DEF qd
        <4>1. qd \in Int /\ qd <= f
          BY <1>13, <3>1 DEF qd
        <4> QED BY <1>5, <1>12, <4>1, TimesKeepsOrder
      <3>3. p * f <= d * g
        BY <1>13
      <3> HIDE DEF g, pq
      <3>4. d * g = g * d /\ g * d \in Int /\ pq * d \in Int
        BY <1>12, <2>1
      <3>5. pq * d <= p * f
        BY <3>1, <3>2
      <3> QED BY <3>2, <3>3, <3>4, <3>5
    <2>3. pq <= g
      <3> SUFFICES ASSUME g + 1 <= pq PROVE FALSE
        <4> HIDE DEF g, pq
        <4> QED BY <2>1
      <3> HIDE DEF g, pq
      <3>1. (g + 1) * d <= pq * d
        BY <1>12, <2>1, TimesKeepsOrder
      <3>2. (g + 1) * d = g * d + d /\ g * d \in Int /\ pq * d \in Int
        BY <1>12, <2>1
      <3> QED BY <1>12, <2>2, <3>1, <3>2
    <2> HIDE DEF e, pq
    <2> QED BY <1>12, <2>1, <2>3
  <1>15. FullWorth(levels, quantity) = u
    BY <1>3 DEF u, N
  <1> QED BY <1>10, <1>12, <1>14, <1>15 DEF n

\* What is sold into the whole book returns the walk's average or more.
LEMMA SaleReturnsNoLess ==
    ASSUME NEW levels, BidSide(levels), levels # << >>, NEW asked \in Nat, NEW quantity \in Nat,
           WalkBook(levels, asked).filled > 0, quantity <= WalkBook(levels, asked).filled
    PROVE  /\ FullWorth(levels, quantity) \in Nat
           /\ quantity * WalkBook(levels, asked).notional <= WalkBook(levels, asked).filled * FullWorth(levels, quantity)
  <1> DEFINE N == Len(levels)
  <1>1. levels \in Seq(Quotes) /\ N \in Nat \ {0} /\ DOMAIN levels = 1 .. N /\ \A k \in 1 .. N : levels[k] \in Quotes
    BY LenProperties, ElementOfSeq, EmptySeq DEF BidSide
  <1>2. PICK sale : /\ WalkOver(sale, levels, asked)
                    /\ WalkBook(levels, asked) = Walked(sale[IF asked > 0 THEN N ELSE 0])
    BY <1>1, WalkBookRuns
  <1>3. PICK full : WholeOver(full, levels, quantity) /\ FullWorth(levels, quantity) = full[N].worth
    BY <1>1, FullWorthRuns
  <1>4. PICK j : TurnsAt(full, levels, j)
    BY <1>1, <1>3, TurnExists
  <1> DEFINE p == levels[j].price  F == sale[N].filled
  <1>5. p \in Nat /\ j \in 1 .. N
    BY <1>1, <1>4 DEF TurnsAt, Quotes
  <1>6. /\ sale[0] = ToWalk(asked) /\ \A k \in 0 .. N : sale[k] \in WalkStates
        /\ \A k \in 1 .. N : sale[k] = TakeLevel(sale[k - 1], levels[k])
    BY <1>2 DEF WalkOver
  <1>7. full[0] = ToTake(quantity) /\ \A k \in 0 .. N : full[k] \in WholeStates
    BY <1>3 DEF WholeOver
  <1>8. ASSUME NEW k \in 1 .. N
        PROVE  \E take : /\ TakesWhole(full[k - 1], levels[k], take, full[k])
                         /\ Turned(take, levels[k].size, p - levels[k].price)
    <2>1. PICK take : /\ TakesWhole(full[k - 1], levels[k], take, full[k])
                      /\ k < j => take = levels[k].size
                      /\ k > j => take = 0
      BY <1>4 DEF TurnsAt
    <2>2. levels[k].price \in Nat /\ (k < j => levels[k].price >= p) /\ (k > j => p >= levels[k].price)
      <3>1. k \in DOMAIN levels /\ j \in DOMAIN levels
        BY <1>1, <1>5
      <3>2. levels[k].price \in Nat
        BY <1>1 DEF Quotes
      <3> QED BY <1>1, <1>5, <3>1, <3>2 DEF BidSide
    <2>3. k < j \/ k = j \/ k > j
      BY <1>5
    <2>4. Turned(take, levels[k].size, p - levels[k].price)
      <3> DEFINE price == levels[k].price
      <3>1. k = j => price = p
        OBVIOUS
      <3>2. price \in Nat /\ (k < j => price >= p) /\ (k > j => p >= price)
        BY <2>2
      <3> HIDE DEF price, p
      <3>3. Turned(take, levels[k].size, p - price)
        BY <1>5, <2>1, <2>3, <3>1, <3>2 DEF Turned
      <3> QED BY <3>3 DEF price
    <2> QED BY <2>1, <2>4
  <1> DEFINE r == WalkBook(levels, asked)
  <1>9. r.filled = F /\ r.notional = sale[N].notional
    <2>1. asked # 0
      <3> SUFFICES ASSUME asked = 0 PROVE FALSE
        OBVIOUS
      <3>1. r = Walked(sale[0])
        BY <1>2
      <3>2. r.filled = 0
        BY <1>6, <3>1 DEF Walked, ToWalk
      <3> QED BY <3>2
    <2>2. r = Walked(sale[N])
      BY <1>2, <2>1
    <2> QED BY <2>2 DEF Walked
  <1>10. F \in Nat /\ quantity <= F
    <2>1. N \in 0 .. N
      BY <1>1
    <2>2. F \in Nat
      BY <1>6, <2>1 DEF WalkStates
    <2> QED BY <1>9, <2>2
  <1> DEFINE Yields(w, v) == /\ quantity * (w.notional - p * w.filled) <= F * (v.worth - p * (quantity - v.left))
                             /\ v.left = 0 \/ w.filled <= quantity - v.left
             Good == {k \in Nat : Yields(sale[k], full[k])}
  <1> HIDE DEF N, p, F
  <1>11. \A k \in 0 .. N : k \in Good
    <2>1. 0 \in Good
      <3>1. sale[0].filled = 0 /\ sale[0].notional = 0 /\ full[0].worth = 0 /\ full[0].left = quantity
        BY <1>6, <1>7 DEF ToWalk, ToTake
      <3>2. quantity * (0 - p * 0) = 0 /\ F * (0 - p * (quantity - quantity)) = 0
        BY <1>5, <1>10
      <3> QED BY <3>1, <3>2
    <2>2. ASSUME NEW k \in 0 .. N, k < N, k \in Good PROVE k + 1 \in Good
      <3>1. k + 1 \in 1 .. N /\ k + 1 - 1 = k /\ k + 1 \in Nat /\ k + 1 \in 0 .. N
        BY <1>1, <2>2
      <3> DEFINE w == sale[k]  w2 == sale[k + 1]  v == full[k]  v2 == full[k + 1]  level == levels[k + 1]
                 price == level.price  size == level.size
                 f == w.filled  n == w.notional  u == v.worth  left == v.left  delta == p - price
      <3>2. PICK take : TakesWhole(v, level, take, v2) /\ Turned(take, size, delta)
        BY <1>8, <3>1
      <3>3. w2 = TakeLevel(w, level) /\ w \in WalkStates /\ level \in Quotes /\ v \in WholeStates
        BY <1>1, <1>6, <1>7, <2>2, <3>1
      <3>4. price \in Nat /\ size \in Nat /\ delta \in Int
        BY <1>5, <3>3 DEF Quotes
      <3>5. f \in Nat /\ n \in Nat /\ u \in Nat /\ left \in Nat
        BY <3>3 DEF WalkStates, WholeStates
      <3>6. /\ take \in Nat /\ take <= left /\ (take = left \/ take = size)
            /\ v2.left = left - take /\ v2.worth = u + take * price
        BY <3>2 DEF TakesWhole
      <3>7. PICK sold : Takes(w, level, sold, w2)
        <4> HIDE DEF w, w2, level
        <4> QED BY <3>3, TakeLevelFacts
      <3>8. sold \in Nat /\ sold <= size /\ w2.filled = f + sold /\ w2.notional = n + sold * price
        BY <3>7 DEF Takes
      <3> DEFINE td == take * delta  sd == sold * delta  f2 == f + sold
                 a == n - p * f  a2 == w2.notional - p * w2.filled
                 b == u - p * (quantity - left)  b2 == v2.worth - p * (quantity - v2.left)
      <3>9. a2 = a - sd /\ a \in Int /\ sd \in Int
        <4>1. sold * price = sold * p - sd /\ sd \in Int /\ sold * p \in Int
          <5>1. price = p - delta
            BY <1>5, <3>4
          <5> HIDE DEF delta, price
          <5>2. sold * (p - delta) = sold * p - sold * delta
            BY <1>5, <3>4, <3>8
          <5> QED BY <1>5, <3>4, <3>8, <5>1, <5>2
        <4>2. p * (f + sold) = p * f + sold * p /\ p * f \in Int
          <5> HIDE DEF f
          <5> QED BY <1>5, <3>5, <3>8
        <4> DEFINE pf == p * f  sp == sold * p  pfs == p * (f + sold)  earned == sold * price
        <4>3. a = n - pf /\ a2 = (n + earned) - pfs
          <5>1. a2 = (n + earned) - p * (f + sold)
            <6> HIDE DEF w2, n, f, price
            <6> QED BY <3>8, Zenon
          <5>2. a = n - pf
            OBVIOUS
          <5>3. (n + earned) - p * (f + sold) = (n + earned) - pfs
            OBVIOUS
          <5> HIDE DEF a2, a
          <5> QED BY <5>1, <5>2, <5>3, Zenon
        <4>4. earned = sp - sd /\ pfs = pf + sp /\ pf \in Int /\ sp \in Int /\ sd \in Int /\ n \in Nat
          BY <3>5, <4>1, <4>2
        <4> HIDE DEF pf, sp, sd, pfs, earned, a, a2, n
        <4> QED BY <4>3, <4>4
      <3>10. b2 = b - td /\ b \in Int /\ td \in Int
        <4>1. take * price = take * p - td /\ td \in Int /\ take * p \in Int
          <5>1. price = p - delta
            BY <1>5, <3>4
          <5> HIDE DEF delta, price
          <5>2. take * (p - delta) = take * p - take * delta
            BY <1>5, <3>4, <3>6
          <5> QED BY <1>5, <3>4, <3>6, <5>1, <5>2
        <4> DEFINE x == quantity - left
        <4>2. quantity - v2.left = x + take /\ x \in Int
          BY <3>5, <3>6
        <4>3. p * (x + take) = p * x + take * p /\ p * x \in Int
          <5> HIDE DEF x
          <5> QED BY <1>5, <3>6, <4>2
        <4> DEFINE px == p * x  tp == take * p  pxt == p * (quantity - v2.left)  paid == take * price
        <4>4. b = u - px /\ b2 = (u + paid) - pxt
          <5>1. b2 = (u + paid) - p * (quantity - v2.left)
            <6> HIDE DEF v2, u, price
            <6> QED BY <3>6, Zenon
          <5>2. b = u - px
            OBVIOUS
          <5>3. (u + paid) - p * (quantity - v2.left) = (u + paid) - pxt
            OBVIOUS
          <5> HIDE DEF b2, b
          <5> QED BY <5>1, <5>2, <5>3, Zenon
        <4>5. paid = tp - td /\ pxt = px + tp /\ px \in Int /\ tp \in Int /\ td \in Int /\ u \in Nat
          BY <3>5, <4>1, <4>2, <4>3
        <4> HIDE DEF px, tp, td, pxt, paid, b, b2, u
        <4> QED BY <4>4, <4>5
      <3>11. F * td <= quantity * sd /\ F * td \in Int /\ quantity * sd \in Int
        <4> DEFINE taken == F * take  most == F * size  x == quantity * sold
        <4>1. taken \in Nat /\ x \in Nat /\ most \in Nat /\ x <= most
          <5> HIDE DEF size
          <5> QED BY <1>10, <3>4, <3>6, <3>8, ProductsKeepOrder
        <4>2. Turned(taken, most, delta)
          <5>1. take = 0 => taken = 0
            BY <1>10
          <5> HIDE DEF delta, size
          <5> QED BY <3>2, <5>1 DEF Turned
        <4>3. taken * delta <= x * delta /\ taken * delta \in Int /\ x * delta \in Int
          <5>1. Inside(x, most) /\ x \in Int /\ most \in Int /\ taken \in Int
            BY <4>1 DEF Inside
          <5> HIDE DEF taken, most, delta, x
          <5> QED BY <3>4, <4>2, <5>1, TurnedFavours
        <4>4. F * td = taken * delta /\ quantity * sd = x * delta
          <5> HIDE DEF delta
          <5> QED BY <1>10, <3>4, <3>6, <3>8
        <4> QED BY <4>3, <4>4
      <3>12. quantity * a2 <= F * b2
        <4> DEFINE qa == quantity * a  qs == quantity * sd  fb == F * b  ft == F * td
        <4>1. qa <= fb
          BY <2>2
        <4>2. quantity * (a - sd) = qa - qs /\ qa \in Int
          <5> HIDE DEF a, sd
          <5> QED BY <3>9
        <4>3. F * (b - td) = fb - ft /\ fb \in Int
          <5> HIDE DEF b, td
          <5> QED BY <1>10, <3>10
        <4> DEFINE qa2 == quantity * a2  fb2 == F * b2
        <4>4. qa2 = qa - qs /\ fb2 = fb - ft
          <5> HIDE DEF a, a2, sd, b, b2, td
          <5> QED BY <3>9, <3>10, <4>2, <4>3
        <4>5. ft <= qs /\ ft \in Int /\ qs \in Int /\ qa \in Int /\ fb \in Int
          BY <3>11, <4>2, <4>3
        <4> HIDE DEF qa, qs, fb, ft, qa2, fb2
        <4>6. qa2 <= fb2
          BY <4>1, <4>4, <4>5
        <4> QED BY <4>6 DEF qa2, fb2
      <3>13. v2.left = 0 \/ w2.filled <= quantity - v2.left
        <4>1. left = 0 \/ f <= quantity - left
          BY <2>2
        <4> HIDE DEF left, f, size
        <4>2. CASE take = left
          BY <3>5, <3>6, <4>2
        <4>3. CASE take = size /\ take # left
          <5>1. left # 0
            BY <3>5, <3>6, <4>3
          <5> QED BY <3>4, <3>5, <3>6, <3>8, <4>1, <4>3, <5>1
        <4> QED BY <3>6, <4>2, <4>3
      <3>14. Yields(w2, v2)
        BY <3>12, <3>13
      <3> QED BY <3>1, <3>14
    <2> HIDE DEF Good
    <2> QED BY <1>1, <2>1, <2>2, IntervalInduction DEF N
  <1> DEFINE n == sale[N].notional  u == full[N].worth  left == full[N].left
  <1>12. N \in 0 .. N /\ sale[N] \in WalkStates /\ full[N] \in WholeStates
    BY <1>1, <1>6, <1>7 DEF N
  <1>13. n \in Nat /\ u \in Nat /\ left \in Nat
    BY <1>12 DEF WalkStates, WholeStates
  <1>14. quantity * (n - p * F) <= F * (u - p * (quantity - left)) /\ (left = 0 \/ F <= quantity - left)
    BY <1>11, <1>12 DEF F
  <1> HIDE DEF n, u, left
  <1>15. left = 0
    BY <1>10, <1>13, <1>14
  <1>16. quantity * n <= F * u
    <2> DEFINE qn == quantity * n  fu == F * u  x == quantity * (p * F)
    <2>1. quantity * (n - p * F) = qn - x /\ x \in Int /\ qn \in Int
      <3> DEFINE pf == p * F
      <3>1. pf \in Int
        BY <1>5, <1>10
      <3>2. quantity * (n - pf) = quantity * n - quantity * pf /\ quantity * pf \in Int /\ quantity * n \in Int
        <4> HIDE DEF pf
        <4> QED BY <1>13, <3>1
      <3> QED BY <3>2
    <2>2. F * (u - p * (quantity - left)) = fu - x /\ fu \in Int
      <3> DEFINE pq == p * quantity
      <3>1. quantity - left = quantity
        BY <1>15
      <3>2. pq \in Int /\ F * pq = x
        BY <1>5, <1>10
      <3>3. F * (u - pq) = F * u - F * pq /\ F * u \in Int
        <4> HIDE DEF pq
        <4> QED BY <1>10, <1>13, <3>2
      <3> QED BY <3>1, <3>2, <3>3
    <2>3. qn - x <= fu - x
      BY <1>14, <2>1, <2>2
    <2> HIDE DEF qn, fu, x
    <2>4. qn <= fu
      BY <2>1, <2>2, <2>3
    <2> QED BY <2>4 DEF qn, fu
  <1>17. FullWorth(levels, quantity) = u
    BY <1>3 DEF u, N
  <1> QED BY <1>9, <1>13, <1>16, <1>17 DEF n

-----------------------------------------------------------------------------
(* Fees and grids. *)

LEMMA QuotientFacts ==
    ASSUME NEW x \in Nat, NEW d \in Nat \ {0}
    PROVE  x \div d \in Nat /\ (x \div d) * d \in Nat /\ (x \div d) * d <= x /\ x < (x \div d + 1) * d
  OBVIOUS

LEMMA QuotientsKeepOrder ==
    ASSUME NEW x \in Nat, NEW y \in Nat, NEW d \in Nat \ {0}, x <= y
    PROVE  x \div d <= y \div d
  <1> DEFINE a == x \div d  b == y \div d
  <1>1. a \in Nat /\ b \in Nat /\ a * d \in Nat /\ a * d <= x /\ y < (b + 1) * d
    BY QuotientFacts
  <1> HIDE DEF a, b
  <1>2. SUFFICES ASSUME b + 1 <= a PROVE FALSE
    BY <1>1 DEF a, b
  <1>3. (b + 1) * d <= a * d /\ (b + 1) * d \in Nat
    BY <1>1, <1>2, ProductsKeepOrder
  <1> QED BY <1>1, <1>3

\* A quotient is the most that fits.
LEMMA QuotientFits ==
    ASSUME NEW x \in Nat, NEW d \in Nat \ {0}, NEW m \in Nat, x <= m * d
    PROVE  x \div d <= m
  <1> DEFINE a == x \div d
  <1>1. a \in Nat /\ a * d \in Nat /\ a * d <= x
    BY QuotientFacts
  <1> HIDE DEF a
  <1>2. SUFFICES ASSUME m + 1 <= a PROVE FALSE
    BY <1>1 DEF a
  <1>3. (m + 1) * d <= a * d /\ (m + 1) * d \in Nat
    BY <1>1, <1>2, ProductsKeepOrder
  <1>4. (m + 1) * d = m * d + d /\ m * d \in Nat
    OBVIOUS
  <1> QED BY <1>1, <1>3, <1>4

LEMMA FloorFacts ==
    ASSUME NEW n \in Nat, NEW lot \in Nat \ {0}
    PROVE  FloorTo(n, lot) \in Nat /\ FloorTo(n, lot) <= n
  BY QuotientFacts DEF FloorTo

\* No fee is more than what it is charged on; a maker's may be a rebate.
LEMMA RateFacts ==
    ASSUME plVolume \in Nat, NEW liquidity
    PROVE  RateOf(liquidity) \in Int /\ RateOf(liquidity) <= FeeScale
  <1> DEFINE Reached == {k \in DOMAIN Ladder : \A j \in 1 .. k : plVolume >= Ladder[j].min}
             m == Max(Reached)  tier == Ladder[m]
  <1>1. Len(Ladder) \in Nat \ {0} /\ DOMAIN Ladder = 1 .. Len(Ladder)
    BY PlanningAssumption, LenProperties, EmptySeq
  <1>2. m \in Reached
    <2>1. 1 \in Reached
      BY <1>1, PlanningAssumption
    <2>2. Reached \in SUBSET Int /\ Reached # {} /\ Len(Ladder) \in Int /\ \A k \in Reached : k <= Len(Ladder)
      BY <1>1, <2>1
    <2> HIDE DEF Reached
    <2> QED BY <2>2, MaxIsIn
  <1>3. m \in DOMAIN Ladder
    BY <1>2
  <1>4. tier.maker \in Int /\ tier.taker \in Int /\ tier.maker <= FeeScale /\ tier.taker <= FeeScale
    <2> HIDE DEF m
    <2>1. tier \in [min : Nat, maker : Int, taker : Int]
      BY <1>1, <1>3, PlanningAssumption, ElementOfSeq
    <2>2. tier.maker <= FeeScale /\ tier.taker <= FeeScale
      BY <1>3, PlanningAssumption
    <2> QED BY <2>1, <2>2
  <1>5. tier = TierFor(plVolume)
    BY DEF TierFor
  <1> HIDE DEF tier
  <1> DEFINE x == IF liquidity = "maker" THEN tier.maker ELSE tier.taker  c == 100 - Discount
             y == x * c
  <1>6. x \in Int /\ x <= FeeScale
    BY <1>4
  <1>7. c \in Nat /\ c <= 100 /\ FeeScale \in Nat
    BY PlanningAssumption
  <1>8. y \in Int /\ y <= FeeScale * 100
    <2> HIDE DEF x, c
    <2>1. x * c \in Int /\ FeeScale * c \in Int /\ x * c <= FeeScale * c
      BY <1>6, <1>7, TimesKeepsOrder
    <2>2. FeeScale * c <= FeeScale * 100
      <3> DEFINE hundred == 100
      <3>1. c <= hundred /\ hundred \in Nat
        BY <1>7
      <3> HIDE DEF hundred
      <3>2. FeeScale * c <= FeeScale * hundred
        BY <1>7, <3>1, ProductsKeepOrder
      <3> QED BY <3>2 DEF hundred
    <2> QED BY <1>7, <2>1, <2>2
  <1>9. RateOf(liquidity) = y \div 100
    BY <1>5 DEF RateOf
  <1> HIDE DEF y
  <1> QED BY <1>7, <1>8, <1>9

LEMMA AfterFeeFacts ==
    ASSUME plVolume \in Nat, NEW liquidity, NEW a \in Nat, NEW b \in Nat, a <= b
    PROVE  /\ AfterFee(a, liquidity) \in Nat /\ AfterFee(b, liquidity) \in Nat
           /\ AfterFee(a, liquidity) <= AfterFee(b, liquidity)
  <1> DEFINE keep == FeeScale - RateOf(liquidity)  x == a * keep  y == b * keep
  <1>1. keep \in Nat /\ FeeScale \in Nat \ {0}
    BY RateFacts, PlanningAssumption
  <1> HIDE DEF keep
  <1>2. x \in Nat /\ y \in Nat /\ x <= y
    BY <1>1, ProductsKeepOrder
  <1>3. AfterFee(a, liquidity) = x \div FeeScale /\ AfterFee(b, liquidity) = y \div FeeScale
    BY DEF AfterFee, keep
  <1> HIDE DEF x, y
  <1> QED BY <1>1, <1>2, <1>3, QuotientFacts, QuotientsKeepOrder

-----------------------------------------------------------------------------
(* The legs of a plan. *)

PlLegs == [pair : DOMAIN Specs, side : {"buy", "sell"}, from : STRING, to : STRING]
SizedLegs == [failure : {""}, leg : PlLegs, input : Nat, quantity : Nat, limit : Int,
              liquidity : {"maker", "taker"}, output : Nat]

\* An order that costs no more than its input and returns its output, or more.
KeepsItsWord(l) ==
    /\ l.leg.side = "buy" => /\ WorthOf(l) \in Int /\ WorthOf(l) <= l.input
                             /\ l.output = AfterFee(l.quantity, l.liquidity)
    /\ l.leg.side = "sell" => /\ WorthOf(l) \in Nat /\ l.quantity <= l.input
                              /\ l.output <= AfterFee(WorthOf(l), l.liquidity)

SoundLegs == {l \in SizedLegs : KeepsItsWord(l)}

BooksTyped == /\ \A p \in DOMAIN Specs : plBook[p] \in PlanBooks[p]
              /\ plVolume \in Nat

LEMMA LevelsFacts ==
    ASSUME BooksTyped, NEW leg \in PlLegs
    PROVE  /\ leg.side = "buy" => AskSide(LevelsOf(leg))
           /\ leg.side = "sell" => BidSide(LevelsOf(leg))
           /\ LevelsOf(leg) \in Seq(Quotes)
           /\ LevelsOf(leg) # << >> => LevelsOf(leg)[1].price \in Nat \ {0}
           /\ leg.side = "buy" \/ leg.side = "sell"
           /\ leg.pair \in DOMAIN Specs
  <1>1. leg.pair \in DOMAIN Specs /\ (leg.side = "buy" \/ leg.side = "sell")
    BY DEF PlLegs
  <1>2. BidSide(plBook[leg.pair].bids) /\ AskSide(plBook[leg.pair].asks)
    BY <1>1, PlanningAssumption DEF BooksTyped
  <1>3. LevelsOf(leg) \in Seq(Quotes)
    BY <1>1, <1>2 DEF LevelsOf, BidSide, AskSide
  <1>4. LevelsOf(leg) # << >> => LevelsOf(leg)[1] \in Quotes
    BY <1>3, EmptySeq, LenProperties, ElementOfSeq
  <1>5. (leg.side = "buy" => AskSide(LevelsOf(leg))) /\ (leg.side = "sell" => BidSide(LevelsOf(leg)))
    BY <1>2 DEF LevelsOf
  <1> QED BY <1>1, <1>3, <1>4, <1>5 DEF Quotes

LEMMA LimitFacts ==
    ASSUME BooksTyped, NEW leg \in PlLegs, LevelsOf(leg) # << >>, NEW liquidity
    PROVE  /\ LimitPrice(leg, liquidity) \in Int
           /\ liquidity = "maker" /\ leg.side = "buy" => LimitPrice(leg, liquidity) <= LevelsOf(leg)[1].price
           /\ liquidity = "maker" /\ leg.side = "sell" => LimitPrice(leg, liquidity) >= LevelsOf(leg)[1].price
  <1> DEFINE touch == LevelsOf(leg)[1].price  tick == Specs[leg.pair].tick
             back == -tick * MakerTicks  on == tick * TakerTicks
  <1>1. touch \in Nat /\ tick \in Nat /\ MakerTicks \in Nat /\ TakerTicks \in Nat
    BY LevelsFacts, PlanningAssumption
  <1>2. back \in Int /\ back <= 0 /\ on \in Nat
    <2> HIDE DEF tick
    <2>1. tick * MakerTicks \in Nat /\ -tick * MakerTicks = -(tick * MakerTicks)
      BY <1>1
    <2> DEFINE m == tick * MakerTicks
    <2>2. m \in Nat /\ back = -m
      BY <2>1
    <2>3. on \in Nat
      BY <1>1
    <2> HIDE DEF m, back, on
    <2> QED BY <2>2, <2>3
  <1>3. LimitPrice(leg, liquidity) =
            LET through == IF liquidity = "maker" THEN back ELSE on
            IN  IF leg.side = "buy" THEN touch + through ELSE touch - through
    BY DEF LimitPrice
  <1> HIDE DEF touch, back, on
  <1> QED BY <1>1, <1>2, <1>3 DEF touch

OrderWorth(leg, liquidity, quantity) ==
    IF liquidity = "maker" THEN quantity * LimitPrice(leg, liquidity) ELSE FullWorth(LevelsOf(leg), quantity)

\* An order to buy costs no more than what it was sized from.
LEMMA BuyIsCovered ==
    ASSUME BooksTyped, NEW leg \in PlLegs, leg.side = "buy", LevelsOf(leg) # << >>,
           NEW input \in Nat, NEW liquidity, WalkOf(leg, input).filled[1] # 0
    PROVE  /\ Quantity(leg, input, WalkOf(leg, input)) \in Nat
           /\ OrderWorth(leg, liquidity, Quantity(leg, input, WalkOf(leg, input))) \in Int
           /\ OrderWorth(leg, liquidity, Quantity(leg, input, WalkOf(leg, input))) <= input
  <1> DEFINE levels == LevelsOf(leg)  walk == WalkForNotional(levels, input)  lot == Specs[leg.pair].lot
             f == walk.filled[1]  d == walk.filled[2]  n == walk.notional  touch == levels[1].price
             most == f \div d  q == FloorTo(most, lot)  limit == LimitPrice(leg, liquidity)
  <1>1. AskSide(levels) /\ touch \in Nat \ {0} /\ lot \in Nat \ {0}
    BY LevelsFacts, PlanningAssumption
  <1>2. walk.filled \in Nat \X (Nat \ {0}) /\ n \in Nat /\ n <= input /\ touch * f <= n * d
    <2> HIDE DEF levels
    <2> QED BY <1>1, BuysAboveTouch DEF levels
  <1>3. f \in Nat /\ d \in Nat \ {0} /\ f > 0
    <2>1. f \in Nat /\ d \in Nat \ {0}
      BY <1>2
    <2>2. f # 0
      BY DEF WalkOf
    <2> QED BY <2>1, <2>2
  <1>4. Quantity(leg, input, WalkOf(leg, input)) = q
    BY DEF WalkOf, Quantity
  <1>5. q \in Nat /\ q * d <= f
    <2> HIDE DEF f, d, lot
    <2>1. most \in Nat /\ most * d \in Nat /\ most * d <= f
      BY <1>3, QuotientFacts
    <2> HIDE DEF most
    <2>2. q \in Nat /\ q <= most
      BY <1>1, <2>1, FloorFacts
    <2> HIDE DEF q
    <2>3. q * d <= most * d /\ q * d \in Nat
      BY <1>3, <2>1, <2>2, ProductsKeepOrder
    <2> QED BY <1>3, <2>1, <2>2, <2>3
  <1>6. FullWorth(levels, q) \in Nat /\ FullWorth(levels, q) <= n
    <2> HIDE DEF levels, q
    <2> QED BY <1>1, <1>3, <1>5, BuyCostsNoMore DEF levels
  <1>7. q * touch <= n
    <2> HIDE DEF q, f, d, n, touch
    <2>1. touch * (q * d) <= touch * f /\ touch * (q * d) \in Nat /\ touch * f \in Nat
      <3> DEFINE qd == q * d
      <3>1. qd \in Nat /\ qd <= f
        BY <1>3, <1>5
      <3> HIDE DEF qd
      <3> QED BY <1>1, <1>3, <3>1, ProductsKeepOrder DEF qd
    <2>2. touch * (q * d) = (q * touch) * d
      BY <1>1, <1>3, <1>5
    <2> DEFINE a == q * touch
    <2>3. a \in Nat /\ a * d <= n * d
      <3>1. a \in Nat /\ n * d \in Nat
        BY <1>1, <1>2, <1>3, <1>5
      <3> QED BY <1>2, <2>1, <2>2, <3>1
    <2> HIDE DEF a
    <2>4. a <= n
      <3> SUFFICES ASSUME n + 1 <= a PROVE FALSE
        BY <1>2, <2>3
      <3>1. (n + 1) * d <= a * d
        BY <1>2, <1>3, <2>3, ProductsKeepOrder
      <3>2. (n + 1) * d = n * d + d /\ n * d \in Nat /\ a * d \in Nat
        BY <1>2, <1>3, <2>3
      <3> QED BY <1>3, <2>3, <3>1, <3>2
    <2> QED BY <2>4 DEF a
  <1>8. CASE liquidity = "maker"
    <2>1. limit \in Int /\ limit <= touch
      BY <1>8, LimitFacts
    <2>2. q * limit <= q * touch /\ q * limit \in Int /\ q * touch \in Int
      <3> HIDE DEF limit, touch, q
      <3>1. limit * q <= touch * q /\ limit * q = q * limit /\ touch * q = q * touch /\ q * limit \in Int /\ q * touch \in Int
        BY <1>1, <1>5, <2>1, TimesKeepsOrder
      <3> QED BY <3>1
    <2> DEFINE a == q * limit  b == q * touch
    <2>3. a \in Int /\ a <= input
      <3>1. a <= b /\ b <= n /\ a \in Int /\ b \in Int
        BY <1>7, <2>2
      <3> HIDE DEF a, b, n
      <3> QED BY <1>2, <3>1
    <2>4. OrderWorth(leg, liquidity, q) = a
      BY <1>8 DEF OrderWorth
    <2> QED BY <1>4, <1>5, <2>3, <2>4
  <1>9. CASE liquidity # "maker"
    <2>1. OrderWorth(leg, liquidity, q) = FullWorth(levels, q)
      BY <1>9 DEF OrderWorth
    <2> HIDE DEF q, n, levels
    <2>2. FullWorth(levels, q) \in Int /\ FullWorth(levels, q) <= input
      BY <1>2, <1>6
    <2> QED BY <1>4, <1>5, <2>1, <2>2
  <1> QED BY <1>8, <1>9

\* An order to sell is for no more than the input and returns the notional, or more.
LEMMA SaleIsCovered ==
    ASSUME BooksTyped, NEW leg \in PlLegs, leg.side = "sell", LevelsOf(leg) # << >>,
           NEW input \in Nat, NEW liquidity, WalkOf(leg, input).filled # 0
    PROVE  LET walk == WalkOf(leg, input)
               quantity == Quantity(leg, input, walk)
           IN  /\ quantity \in Nat /\ quantity <= input
               /\ Notional(leg, walk, quantity) \in Nat
               /\ OrderWorth(leg, liquidity, quantity) \in Nat
               /\ Notional(leg, walk, quantity) <= OrderWorth(leg, liquidity, quantity)
  <1> DEFINE levels == LevelsOf(leg)  lot == Specs[leg.pair].lot  asked == FloorTo(input, lot)
             walk == WalkBook(levels, asked)  f == walk.filled  n == walk.notional  touch == levels[1].price
             q == Quantity(leg, input, walk)  limit == LimitPrice(leg, liquidity)
             notional == (q * n) \div f
  <1>1. BidSide(levels) /\ touch \in Nat \ {0} /\ lot \in Nat \ {0} /\ levels \in Seq(Quotes)
    BY LevelsFacts, PlanningAssumption
  <1>2. asked \in Nat /\ asked <= input
    BY <1>1, FloorFacts
  <1>3. WalkOf(leg, input) = walk
    BY DEF WalkOf
  <1> HIDE DEF asked
  <1>4. f \in Nat /\ n \in Nat /\ n <= f * touch /\ f # 0
    <2>1. f # 0
      BY <1>3
    <2> HIDE DEF levels
    <2> QED BY <1>1, <1>2, <2>1, SalesBelowTouch DEF levels
  <1>5. f <= asked /\ (~walk.exhausted => f = asked)
    <2>1. PICK w : /\ WalkOver(w, levels, asked)
                   /\ walk = Walked(w[IF asked > 0 THEN Len(levels) ELSE 0])
      BY <1>1, <1>2, WalkBookRuns
    <2> DEFINE N == Len(levels)  e == IF asked > 0 THEN N ELSE 0
               Whole == {k \in Nat : w[k].left + w[k].filled = asked}
    <2>2. N \in Nat /\ e \in 0 .. N /\ \A k \in 1 .. N : levels[k] \in Quotes
      BY <1>1, <1>2, LenProperties, ElementOfSeq
    <2>3. /\ w[0] = ToWalk(asked) /\ \A k \in 0 .. N : w[k] \in WalkStates
          /\ \A k \in 1 .. N : w[k] = TakeLevel(w[k - 1], levels[k])
      BY <2>1 DEF WalkOver
    <2>4. \A k \in 0 .. N : k \in Whole
      <3>1. 0 \in Whole
        BY <1>2, <2>3 DEF ToWalk
      <3>2. ASSUME NEW k \in 0 .. N, k < N, k \in Whole PROVE k + 1 \in Whole
        <4>1. k + 1 \in 1 .. N /\ k + 1 - 1 = k /\ k + 1 \in Nat
          BY <2>2, <3>2
        <4> DEFINE w1 == w[k]  w2 == w[k + 1]  level == levels[k + 1]
        <4>2. w2 = TakeLevel(w1, level) /\ w1 \in WalkStates /\ level \in Quotes /\ w1.left + w1.filled = asked
          BY <2>2, <2>3, <3>2, <4>1
        <4> HIDE DEF w1, w2, level
        <4>3. PICK take : Takes(w1, level, take, w2)
          BY <4>2, TakeLevelFacts
        <4>4. w1.left \in Nat /\ w1.filled \in Nat
          BY <4>2 DEF WalkStates
        <4>5. w2.left + w2.filled = asked
          BY <4>2, <4>3, <4>4 DEF Takes
        <4> QED BY <4>1, <4>5 DEF w2
      <3> HIDE DEF Whole, N
      <3> QED BY <2>2, <3>1, <3>2, IntervalInduction
    <2>5. w[e].left + w[e].filled = asked /\ w[e] \in WalkStates
      <3> HIDE DEF e
      <3> QED BY <2>2, <2>3, <2>4
    <2>6. f = w[e].filled /\ (~walk.exhausted => ~(w[e].left > 0))
      <3>1. walk = Walked(w[e])
        BY <2>1
      <3> HIDE DEF walk, e
      <3> QED BY <3>1 DEF Walked
    <2>7. w[e].left \in Nat /\ w[e].filled \in Nat
      BY <2>5 DEF WalkStates
    <2> HIDE DEF e, f, walk
    <2> QED BY <1>2, <2>5, <2>6, <2>7
  <1>6. q \in Nat /\ q <= f /\ q <= input
    <2> HIDE DEF walk, lot
    <2>1. CASE walk.exhausted
      <3>1. q = FloorTo(f, lot)
        BY <2>1 DEF Quantity, lot
      <3>2. f \in Nat /\ f <= asked
        BY <1>4, <1>5
      <3> HIDE DEF q, f
      <3>3. FloorTo(f, lot) \in Nat /\ FloorTo(f, lot) <= f
        BY <1>1, <3>2, FloorFacts
      <3> QED BY <1>2, <3>1, <3>2, <3>3
    <2>2. CASE ~walk.exhausted
      <3>1. q = asked
        BY <2>2 DEF Quantity, asked, lot
      <3> HIDE DEF q, f
      <3> QED BY <1>1, <1>2, <1>4, <1>5, <2>2, <3>1
    <2> QED BY <2>1, <2>2
  <1>7. q * n <= f * FullWorth(levels, q) /\ FullWorth(levels, q) \in Nat
    <2> HIDE DEF levels, q
    <2>1. f > 0
      BY <1>4
    <2> QED BY <1>1, <1>2, <1>6, <2>1, SaleReturnsNoLess DEF levels
  <1>8. Notional(leg, walk, q) = notional
    BY DEF Notional
  <1> DEFINE qn == q * n
  <1>9. qn \in Nat /\ f \in Nat \ {0}
    <2>1. f \in Nat \ {0}
      BY <1>4
    <2> HIDE DEF q, n
    <2> QED BY <1>4, <1>6, <2>1
  <1>10. notional \in Nat
    <2> HIDE DEF qn, f
    <2>1. qn \div f \in Nat
      BY <1>9, QuotientFacts
    <2> QED BY <2>1 DEF qn
  <1>11. CASE liquidity = "maker"
    <2> DEFINE worth == q * limit
    <2>1. limit \in Int /\ limit >= touch
      BY <1>11, LimitFacts
    <2>2. worth \in Nat /\ qn <= worth * f
      <3> HIDE DEF q, n, f, limit, touch
      <3>1. limit \in Nat /\ touch \in Nat
        BY <1>1, <2>1
      <3> DEFINE ft == f * touch  fl == f * limit
      <3>2. ft <= fl /\ ft \in Nat /\ fl \in Nat
        BY <1>4, <2>1, <3>1, ProductsKeepOrder
      <3>3. n <= fl
        <4> HIDE DEF ft, fl
        <4>1. n <= ft
          BY <1>4 DEF ft
        <4> QED BY <1>4, <3>2, <4>1
      <3>4. q * n <= q * fl
        <4> HIDE DEF fl
        <4> QED BY <1>4, <1>6, <3>2, <3>3, ProductsKeepOrder
      <3>5. q * fl = worth * f /\ worth \in Nat
        BY <1>4, <1>6, <3>1
      <3> QED BY <3>4, <3>5
    <2>3. notional <= worth
      <3> HIDE DEF qn, f, worth
      <3>1. qn \div f <= worth
        BY <1>9, <2>2, QuotientFits
      <3> QED BY <3>1 DEF qn
    <2>4. OrderWorth(leg, liquidity, q) = worth
      BY <1>11 DEF OrderWorth
    <2> HIDE DEF q, walk, notional, worth
    <2> QED BY <1>3, <1>6, <1>8, <1>10, <2>2, <2>3, <2>4 DEF q
  <1>12. CASE liquidity # "maker"
    <2> DEFINE worth == FullWorth(levels, q)
    <2>1. worth \in Nat /\ qn <= worth * f
      <3>1. worth \in Nat /\ qn <= f * worth
        BY <1>7
      <3> HIDE DEF worth, qn, f
      <3>2. f * worth = worth * f
        BY <1>9, <3>1
      <3> QED BY <3>1, <3>2
    <2>2. notional <= worth
      <3> HIDE DEF qn, f, worth
      <3>1. qn \div f <= worth
        BY <1>9, <2>1, QuotientFits
      <3> QED BY <3>1 DEF qn
    <2>3. OrderWorth(leg, liquidity, q) = worth
      BY <1>12 DEF OrderWorth
    <2> HIDE DEF q, walk, notional, worth
    <2> QED BY <1>3, <1>6, <1>8, <1>10, <2>1, <2>2, <2>3 DEF q
  <1> QED BY <1>11, <1>12

Reasons == {"", "no_book", "insufficient_depth", "quantizes_to_zero", "above_max_quantity",
            "below_min_notional", "no_capital", "negative_after_costs"}

LEMMA SizeLegFacts ==
    ASSUME BooksTyped, NEW leg \in PlLegs, NEW input \in Nat, NEW liquidity \in {"maker", "taker"}
    PROVE  /\ SizeLeg(leg, input, liquidity).failure \in Reasons
           /\ SizeLeg(leg, input, liquidity).failure = "" =>
                 /\ SizeLeg(leg, input, liquidity) \in SoundLegs
                 /\ SizeLeg(leg, input, liquidity).input = input
  <1> DEFINE s == SizeLeg(leg, input, liquidity)
             walk == WalkOf(leg, input)  q == Quantity(leg, input, walk)  notional == Notional(leg, walk, q)
             gained == IF leg.side = "buy" THEN q ELSE notional
             sized == [failure |-> "", leg |-> leg, input |-> input, quantity |-> q,
                       limit |-> LimitPrice(leg, liquidity), liquidity |-> liquidity,
                       output |-> AfterFee(gained, liquidity)]
  <1>1. s.failure \in Reasons /\ (s.failure = "" => LevelsOf(leg) # << >> /\ Depth(leg, walk) # 0 /\ s = sized)
    <2>1. s.failure \in Reasons
      <3> HIDE DEF walk, q, notional
      <3> QED BY DEF SizeLeg, Failed, walk, q, notional, Reasons
    <2>2. s.failure = "" => LevelsOf(leg) # << >> /\ Depth(leg, walk) # 0
      <3> HIDE DEF walk, q, notional
      <3> QED BY DEF SizeLeg, Failed, walk, q, notional
    <2>3. s.failure = "" => s = sized
      <3> DEFINE With(out) == [failure |-> "", leg |-> leg, input |-> input, quantity |-> q,
                               limit |-> LimitPrice(leg, liquidity), liquidity |-> liquidity,
                               output |-> AfterFee(out, liquidity)]
      <3> HIDE DEF walk, q, notional
      <3>1. CASE leg.side = "buy"
        <4>1. s.failure = "" => s = With(q)
          BY <3>1 DEF SizeLeg, Failed, walk, q, notional
        <4>2. gained = q
          BY <3>1
        <4> HIDE DEF s, gained
        <4> QED BY <4>1, <4>2, Zenon
      <3>2. CASE leg.side # "buy"
        <4>1. s.failure = "" => s = With(notional)
          BY <3>2 DEF SizeLeg, Failed, walk, q, notional
        <4>2. gained = notional
          BY <3>2
        <4> HIDE DEF s, gained
        <4> QED BY <4>1, <4>2, Zenon
      <3> QED BY <3>1, <3>2
    <2> HIDE DEF s, sized, walk
    <2> QED BY <2>1, <2>2, <2>3
  <1>2. ASSUME s.failure = "" PROVE sized \in SoundLegs
    <2> HIDE DEF s
    <2>1. LevelsOf(leg) # << >> /\ Depth(leg, walk) # 0
      BY <1>1, <1>2
    <2>2. LimitPrice(leg, liquidity) \in Int
      BY <2>1, LimitFacts
    <2>3. plVolume \in Nat
      BY DEF BooksTyped
    <2>4. WorthOf(sized) = OrderWorth(leg, liquidity, q)
      <3> HIDE DEF q, gained
      <3> QED BY DEF WorthOf, OrderWorth
    <2>5. CASE leg.side = "buy"
      <3>1. q \in Nat /\ OrderWorth(leg, liquidity, q) \in Int /\ OrderWorth(leg, liquidity, q) <= input
        <4>1. WalkOf(leg, input).filled[1] # 0
          BY <2>1, <2>5 DEF Depth
        <4> QED BY <2>1, <2>5, <4>1, BuyIsCovered
      <3> HIDE DEF q
      <3>2. AfterFee(q, liquidity) \in Nat /\ gained = q
        BY <2>3, <2>5, <3>1, AfterFeeFacts
      <3> HIDE DEF gained
      <3>3. sized \in SizedLegs
        BY <2>2, <3>1, <3>2 DEF SizedLegs
      <3>4. KeepsItsWord(sized)
        BY <2>4, <2>5, <3>1, <3>2 DEF KeepsItsWord
      <3> QED BY <3>3, <3>4 DEF SoundLegs
    <2>6. CASE leg.side = "sell"
      <3>1. /\ q \in Nat /\ q <= input /\ notional \in Nat
            /\ OrderWorth(leg, liquidity, q) \in Nat /\ notional <= OrderWorth(leg, liquidity, q)
        <4>1. WalkOf(leg, input).filled # 0
          BY <2>1, <2>6 DEF Depth
        <4> QED BY <2>1, <2>6, <4>1, SaleIsCovered
      <3> DEFINE worth == OrderWorth(leg, liquidity, q)
      <3>2. gained = notional
        BY <2>6
      <3> HIDE DEF q, notional, gained, worth
      <3>3. AfterFee(gained, liquidity) \in Nat /\ AfterFee(gained, liquidity) <= AfterFee(worth, liquidity)
        BY <2>3, <3>1, <3>2, AfterFeeFacts DEF worth
      <3>4. sized \in SizedLegs
        BY <2>2, <3>1, <3>3 DEF SizedLegs
      <3>5. WorthOf(sized) = worth /\ worth \in Nat
        BY <2>4, <3>1 DEF worth
      <3>6. KeepsItsWord(sized)
        <4> DEFINE w == WorthOf(sized)
        <4>1. sized.leg.side = "sell" /\ sized.quantity <= sized.input /\ w = worth
              /\ sized.output <= AfterFee(worth, liquidity) /\ sized.liquidity = liquidity
          BY <2>6, <3>1, <3>3, <3>5
        <4> HIDE DEF sized
        <4>2. w \in Nat /\ sized.output <= AfterFee(w, sized.liquidity)
          <5> HIDE DEF w
          <5> QED BY <3>5, <4>1
        <4> QED BY <4>1, <4>2 DEF KeepsItsWord
      <3> QED BY <3>4, <3>6 DEF SoundLegs
    <2> QED BY <2>5, <2>6, LevelsFacts
  <1>3. sized.input = input
    OBVIOUS
  <1> HIDE DEF s, sized
  <1> QED BY <1>1, <1>2, <1>3 DEF s

-----------------------------------------------------------------------------
(* The forward pass. *)

\* What the leg before the k-th returned.
Before(plan, k) == IF k = 1 THEN plan.start ELSE plan.legs[k - 1].output

Chained(plan) ==
    /\ \A k \in 1 .. Len(plan.legs) : plan.legs[k].input = Before(plan, k)
    /\ plan.end = Before(plan, Len(plan.legs) + 1)

Plans == {plan \in [failure : Reasons, legs : Seq(SoundLegs), start : Nat, end : Nat] :
             plan.failure = "" => Chained(plan)}

PlanExtended(plan, sized) ==
    IF plan.failure # "" THEN plan
    ELSE IF sized.failure # "" THEN [plan EXCEPT !.failure = sized.failure]
    ELSE [plan EXCEPT !.legs = Append(@, sized), !.end = sized.output]

\* The pass stays a chain of orders that keep their word.
LEMMA PassStaysSound ==
    ASSUME BooksTyped, NEW plan \in Plans, NEW leg \in PlLegs, NEW liquidity \in {"maker", "taker"}
    PROVE  PlanExtended(plan, SizeLeg(leg, plan.end, liquidity)) \in Plans
  <1> DEFINE sized == SizeLeg(leg, plan.end, liquidity)
             failed == [failure |-> sized.failure, legs |-> plan.legs, start |-> plan.start, end |-> plan.end]
             longer == Append(plan.legs, sized)
             next == [failure |-> "", legs |-> longer, start |-> plan.start, end |-> sized.output]
  <1>1. /\ plan = [failure |-> plan.failure, legs |-> plan.legs, start |-> plan.start, end |-> plan.end]
        /\ plan.failure \in Reasons /\ plan.legs \in Seq(SoundLegs) /\ plan.start \in Nat /\ plan.end \in Nat
        /\ plan.failure = "" => Chained(plan)
    BY DEF Plans
  <1>2. sized.failure \in Reasons /\ (sized.failure = "" => sized \in SoundLegs /\ sized.input = plan.end)
    BY <1>1, SizeLegFacts
  <1> HIDE DEF sized
  <1>3. CASE plan.failure # ""
    BY <1>3 DEF PlanExtended
  <1>4. CASE plan.failure = "" /\ sized.failure # ""
    <2>1. PlanExtended(plan, sized) = failed
      <3>1. [plan EXCEPT !.failure = sized.failure] = failed
        <4> DEFINE a == plan.failure  b == plan.legs  c == plan.start  d == plan.end  x == sized.failure
        <4>1. plan = [failure |-> a, legs |-> b, start |-> c, end |-> d]
          BY <1>1
        <4> HIDE DEF a, b, c, d, x
        <4>2. [plan EXCEPT !.failure = x] = [failure |-> x, legs |-> b, start |-> c, end |-> d]
          BY <4>1
        <4> QED BY <4>2 DEF a, b, c, d, x
      <3> QED BY <1>4, <3>1 DEF PlanExtended
    <2>2. failed \in Plans
      BY <1>1, <1>2, <1>4 DEF Plans
    <2> QED BY <2>1, <2>2 DEF sized
  <1>5. CASE plan.failure = "" /\ sized.failure = ""
    <2>1. PlanExtended(plan, sized) = next
      <3>1. [plan EXCEPT !.legs = longer, !.end = sized.output] = next
        <4> DEFINE a == plan.failure  b == plan.legs  c == plan.start  d == plan.end  z == sized.output
        <4>1. plan = [failure |-> a, legs |-> b, start |-> c, end |-> d] /\ a = ""
          BY <1>1, <1>5
        <4> HIDE DEF a, b, c, d, z, longer
        <4>2. [plan EXCEPT !.legs = longer, !.end = z] = [failure |-> a, legs |-> longer, start |-> c, end |-> z]
          <5> DEFINE half == [plan EXCEPT !.legs = longer]
          <5>1. [plan EXCEPT !.legs = longer, !.end = z] = [half EXCEPT !.end = z]
            OBVIOUS
          <5>2. half = [failure |-> a, legs |-> longer, start |-> c, end |-> d]
            <6>1. plan = [failure |-> a, legs |-> b, start |-> c, end |-> d]
              BY <4>1
            <6> HIDE DEF failed, next
            <6> QED BY <6>1
          <5> HIDE DEF half
          <5>3. [half EXCEPT !.end = z] = [failure |-> a, legs |-> longer, start |-> c, end |-> z]
            BY <5>2
          <5> QED BY <5>1, <5>3, Zenon
        <4> QED BY <4>1, <4>2 DEF a, b, c, d, z
      <3> QED BY <1>5, <3>1 DEF PlanExtended
    <2> DEFINE n == Len(plan.legs)
    <2>2. /\ longer \in Seq(SoundLegs) /\ n \in Nat /\ Len(longer) = n + 1 /\ longer[n + 1] = sized
          /\ \A k \in 1 .. n : longer[k] = plan.legs[k]
      <3> DEFINE old == plan.legs
      <3>1. old \in Seq(SoundLegs) /\ sized \in SoundLegs
        BY <1>1, <1>2, <1>5
      <3> HIDE DEF old
      <3> QED BY <3>1, AppendProperties, LenProperties DEF old
    <2>3. sized.output \in Nat
      BY <1>2, <1>5 DEF SoundLegs, SizedLegs
    <2>4. Chained(plan)
      BY <1>1, <1>5
    <2> HIDE DEF longer
    <2>5. ASSUME NEW k \in 1 .. n + 1 PROVE Before(next, k) = Before(plan, k)
      <3>1. CASE k = 1
        BY <3>1 DEF Before
      <3>2. CASE k # 1
        <4>1. k - 1 \in 1 .. n
          BY <2>2, <3>2
        <4> QED BY <2>2, <3>2, <4>1 DEF Before
      <3> QED BY <3>1, <3>2
    <2>6. ASSUME NEW k \in 1 .. n + 1 PROVE longer[k].input = Before(plan, k)
      <3>1. CASE k = n + 1
        <4>1. longer[k] = sized /\ plan.end = Before(plan, k)
          BY <2>2, <2>4, <3>1 DEF Chained
        <4> QED BY <1>2, <1>5, <4>1
      <3>2. CASE k \in 1 .. n
        BY <2>2, <2>4, <3>2 DEF Chained
      <3> QED BY <2>2, <3>1, <3>2
    <2>7. next.end = Before(next, n + 1 + 1)
      <3>1. n + 1 + 1 # 1 /\ n + 1 + 1 - 1 = n + 1
        BY <2>2
      <3>2. Before(next, n + 1 + 1) = longer[n + 1].output
        BY <3>1 DEF Before
      <3> QED BY <2>2, <3>2
    <2>8. Chained(next)
      <3>1. next.legs = longer /\ Len(next.legs) = n + 1
        BY <2>2
      <3>2. \A k \in 1 .. n + 1 : next.legs[k].input = Before(next, k)
        BY <2>5, <2>6, <3>1
      <3> HIDE DEF next, n
      <3> QED BY <2>7, <3>1, <3>2 DEF Chained
    <2>9. next \in [failure : Reasons, legs : Seq(SoundLegs), start : Nat, end : Nat]
      BY <1>1, <2>2, <2>3 DEF Reasons
    <2> HIDE DEF next
    <2>10. next \in Plans
      BY <2>8, <2>9 DEF Plans
    <2> QED BY <2>1, <2>10 DEF sized
  <1> QED BY <1>3, <1>4, <1>5 DEF sized

ToSize(start) == [failure |-> "", legs |-> << >>, start |-> start, end |-> start]

LEMMA SizeIsSound ==
    ASSUME BooksTyped, NEW legs \in Seq(PlLegs), NEW start \in Nat,
           NEW liquidities, \A k \in 1 .. Len(legs) : liquidities[k] \in {"maker", "taker"}
    PROVE  Size(legs, start, liquidities) \in Plans
  <1> DEFINE N == Len(legs)  base == ToSize(start)
             After(plan, k) == PlanExtended(plan, SizeLeg(legs[k], plan.end, liquidities[k]))
             step == [p \in (1 .. N) \X Plans |-> After(p[2], p[1])]
             Loop(f) == f = [k \in 0 .. N |-> IF k = 0 THEN base ELSE After(f[k - 1], k)]
  <1>1. N \in Nat /\ \A k \in 1 .. N : legs[k] \in PlLegs /\ liquidities[k] \in {"maker", "taker"}
    BY LenProperties, ElementOfSeq
  <1>2. base \in Plans
    <2>1. base \in [failure : Reasons, legs : Seq(SoundLegs), start : Nat, end : Nat]
      BY EmptySeq DEF ToSize, Reasons
    <2>2. base.legs = << >> /\ base.end = base.start
      BY DEF ToSize
    <2> HIDE DEF base
    <2>3. Chained(base)
      <3>1. Len(base.legs) = 0
        BY <2>2, EmptySeq
      <3> QED BY <2>2, <3>1 DEF Chained, Before
    <2> QED BY <2>1, <2>3 DEF Plans
  <1>3. ASSUME NEW k \in 1 .. N, NEW plan \in Plans PROVE After(plan, k) \in Plans
    BY <1>1, PassStaysSound
  <1> HIDE DEF After
  <1>4. step \in [(1 .. N) \X Plans -> Plans]
    <2>1. ASSUME NEW p \in (1 .. N) \X Plans PROVE After(p[2], p[1]) \in Plans
      <3>1. p[1] \in 1 .. N /\ p[2] \in Plans
        OBVIOUS
      <3> QED BY <1>3, <3>1
    <2> QED BY <2>1
  <1>5. PICK f : Runs(f, N, Plans, base, step)
    <2> HIDE DEF N, base, step
    <2> QED BY <1>1, <1>2, <1>4, LoopRuns
  <1>6. Loop(f)
    <2>1. ASSUME NEW k \in 1 .. N PROVE f[k] = After(f[k - 1], k)
      <3>1. k - 1 \in 0 .. N
        BY <1>1
      <3>2. f[k] = step[<<k, f[k - 1]>>] /\ f[k - 1] \in Plans
        BY <1>5, <3>1 DEF Runs
      <3> QED BY <3>2
    <2>2. ASSUME NEW k \in 0 .. N PROVE f[k] = IF k = 0 THEN base ELSE After(f[k - 1], k)
      <3>1. k # 0 => k \in 1 .. N
        BY <1>1
      <3> QED BY <1>5, <2>1, <3>1 DEF Runs
    <2> QED BY <1>5, <2>2 DEF Runs
  <1> DEFINE passes == CHOOSE g : Loop(g)  last == passes[N]
  <1>7. Loop(passes)
    <2> HIDE DEF Loop
    <2> QED BY <1>6
  <1>8. Size(legs, start, liquidities) =
            IF start = 0 THEN [last EXCEPT !.failure = "no_capital"]
            ELSE IF last.failure = "" /\ last.end <= start THEN [last EXCEPT !.failure = "negative_after_costs"]
            ELSE last
    BY DEF Size, ToSize, After, PlanExtended
  <1> HIDE DEF passes
  <1>9. \A k \in 0 .. N : passes[k] = IF k = 0 THEN base ELSE After(passes[k - 1], k)
    BY <1>7
  <1> DEFINE Typed == {k \in Nat : passes[k] \in Plans}
  <1>10. \A k \in 0 .. N : k \in Typed
    <2>1. 0 \in Typed
      <3>1. 0 \in 0 .. N
        BY <1>1
      <3> QED BY <1>2, <1>9, <3>1
    <2>2. ASSUME NEW k \in 0 .. N, k < N, k \in Typed PROVE k + 1 \in Typed
      <3>1. k + 1 \in 1 .. N /\ k + 1 \in 0 .. N /\ k + 1 # 0 /\ k + 1 - 1 = k /\ k + 1 \in Nat
        BY <1>1, <2>2
      <3>2. passes[k + 1] = After(passes[k], k + 1) /\ passes[k] \in Plans
        <4> HIDE DEF Loop, N
        <4> QED BY <1>9, <2>2, <3>1
      <3>3. passes[k + 1] \in Plans
        BY <1>3, <3>1, <3>2
      <3> QED BY <3>1, <3>3
    <2> HIDE DEF Typed, N
    <2> QED BY <1>1, <2>1, <2>2, IntervalInduction
  <1>11. last \in Plans
    <2>1. N \in 0 .. N
      BY <1>1
    <2> QED BY <1>10, <2>1
  <1> HIDE DEF last
  <1>12. ASSUME NEW reason \in Reasons, reason # "" PROVE [last EXCEPT !.failure = reason] \in Plans
    <2> DEFINE failed == [failure |-> reason, legs |-> last.legs, start |-> last.start, end |-> last.end]
    <2>1. /\ last = [failure |-> last.failure, legs |-> last.legs, start |-> last.start, end |-> last.end]
          /\ last.legs \in Seq(SoundLegs) /\ last.start \in Nat /\ last.end \in Nat
      BY <1>11 DEF Plans
    <2>2. [last EXCEPT !.failure = reason] = failed
      BY <2>1
    <2>3. failed \in Plans
      BY <1>12, <2>1 DEF Plans
    <2> QED BY <2>2, <2>3
  <1>13. "no_capital" \in Reasons /\ "negative_after_costs" \in Reasons
    BY DEF Reasons
  <1>14. [last EXCEPT !.failure = "no_capital"] \in Plans /\ [last EXCEPT !.failure = "negative_after_costs"] \in Plans
    BY <1>12, <1>13
  <1> QED BY <1>8, <1>11, <1>14

PlanKept(last, result) ==
    IF result.start = 0 THEN last
    ELSE IF last.failure = "untried" THEN result
    ELSE IF result.failure = "" /\ (last.failure # "" \/ Better(result, last)) THEN result
    ELSE last

Tried == {[failure |-> "untried"]} \cup Plans

\* Whatever fraction is kept, a plan that did not fail is a chain of orders that keep their word.
LEMMA SizeBestIsSound ==
    ASSUME BooksTyped, NEW legs \in Seq(PlLegs), NEW available \in Nat,
           NEW liquidities, \A k \in 1 .. Len(legs) : liquidities[k] \in {"maker", "taker"}
    PROVE  SizeBest(legs, available, liquidities).failure = "" => SizeBest(legs, available, liquidities) \in Plans
  <1> DEFINE N == Len(Fractions)  base == [failure |-> "untried"]
             Result(k) == Size(legs, (available * Fractions[k]) \div 100, liquidities)
             After(last, k) == PlanKept(last, Result(k))
             step == [p \in (1 .. N) \X Tried |-> After(p[2], p[1])]
             Loop(f) == f = [k \in 0 .. N |-> IF k = 0 THEN base ELSE After(f[k - 1], k)]
  <1>1. N \in Nat /\ \A k \in 1 .. N : Fractions[k] \in 0 .. 100
    <2>1. Fractions \in Seq(0 .. 100)
      BY PlanningAssumption
    <2> QED BY <2>1, LenProperties, ElementOfSeq
  <1>2. base \in Tried
    BY DEF Tried
  <1>3. ASSUME NEW k \in 1 .. N PROVE Result(k) \in Plans
    <2> DEFINE percent == Fractions[k]  product == available * percent  start == product \div 100
    <2>1. product \in Nat
      <3>1. percent \in 0 .. 100
        BY <1>1, Zenon
      <3> HIDE DEF percent
      <3> QED BY <3>1
    <2> HIDE DEF product
    <2>2. start \in Nat
      BY <2>1
    <2> HIDE DEF start
    <2>3. Size(legs, start, liquidities) \in Plans
      BY <2>2, SizeIsSound
    <2> QED BY <2>3 DEF start, product, percent
  <1> HIDE DEF Result
  <1>4. ASSUME NEW k \in 1 .. N, NEW last \in Tried PROVE After(last, k) \in Tried
    BY <1>3 DEF PlanKept, Tried
  <1> HIDE DEF After
  <1>5. step \in [(1 .. N) \X Tried -> Tried]
    <2>1. ASSUME NEW p \in (1 .. N) \X Tried PROVE After(p[2], p[1]) \in Tried
      <3>1. p[1] \in 1 .. N /\ p[2] \in Tried
        OBVIOUS
      <3> QED BY <1>4, <3>1
    <2> QED BY <2>1
  <1>6. PICK f : Runs(f, N, Tried, base, step)
    <2> HIDE DEF N, base, step
    <2> QED BY <1>1, <1>2, <1>5, LoopRuns
  <1>7. Loop(f)
    <2>1. ASSUME NEW k \in 1 .. N PROVE f[k] = After(f[k - 1], k)
      <3>1. k - 1 \in 0 .. N
        BY <1>1
      <3>2. f[k] = step[<<k, f[k - 1]>>] /\ f[k - 1] \in Tried
        BY <1>6, <3>1 DEF Runs
      <3> QED BY <3>2
    <2>2. ASSUME NEW k \in 0 .. N PROVE f[k] = IF k = 0 THEN base ELSE After(f[k - 1], k)
      <3>1. k # 0 => k \in 1 .. N
        BY <1>1
      <3> QED BY <1>6, <2>1, <3>1 DEF Runs
    <2> QED BY <1>6, <2>2 DEF Runs
  <1> DEFINE best == CHOOSE g : Loop(g)  last == best[N]
  <1>8. Loop(best)
    <2> HIDE DEF Loop
    <2> QED BY <1>7
  <1>9. SizeBest(legs, available, liquidities) = IF last.failure = "untried" THEN Failed("no_capital") ELSE last
    BY DEF SizeBest, After, Result, PlanKept
  <1> HIDE DEF best
  <1>10. \A k \in 0 .. N : best[k] = IF k = 0 THEN base ELSE After(best[k - 1], k)
    BY <1>8
  <1> DEFINE Typed == {k \in Nat : best[k] \in Tried}
  <1>11. \A k \in 0 .. N : k \in Typed
    <2>1. 0 \in Typed
      <3>1. 0 \in 0 .. N
        BY <1>1
      <3> QED BY <1>2, <1>10, <3>1
    <2>2. ASSUME NEW k \in 0 .. N, k < N, k \in Typed PROVE k + 1 \in Typed
      <3>1. k + 1 \in 1 .. N /\ k + 1 \in 0 .. N /\ k + 1 # 0 /\ k + 1 - 1 = k /\ k + 1 \in Nat
        BY <1>1, <2>2
      <3>2. best[k + 1] = After(best[k], k + 1) /\ best[k] \in Tried
        <4> HIDE DEF Loop, N
        <4> QED BY <1>10, <2>2, <3>1
      <3>3. best[k + 1] \in Tried
        BY <1>4, <3>1, <3>2
      <3> QED BY <3>1, <3>3
    <2> HIDE DEF Typed, N
    <2> QED BY <1>1, <2>1, <2>2, IntervalInduction
  <1>12. last \in Tried
    <2>1. N \in 0 .. N
      BY <1>1
    <2> QED BY <1>11, <2>1
  <1> HIDE DEF last
  <1>13. last.failure = "" => last \in Plans
    <2>1. [failure |-> "untried"].failure # ""
      OBVIOUS
    <2> QED BY <1>12, <2>1 DEF Tried
  <1>14. CASE last.failure = "untried"
    <2>1. SizeBest(legs, available, liquidities) = [failure |-> "no_capital"]
      BY <1>9, <1>14 DEF Failed
    <2> QED BY <2>1
  <1>15. CASE last.failure # "untried"
    <2>1. SizeBest(legs, available, liquidities) = last
      BY <1>9, <1>15
    <2> QED BY <1>13, <2>1
  <1> QED BY <1>14, <1>15

-----------------------------------------------------------------------------
(* Executing a plan on the books it was made from. *)

\* The books and the volume the words were given on.
Holding == [held : Nat, covered : BOOLEAN]

LEMMA FillFacts ==
    ASSUME plVolume \in Nat, NEW l \in SoundLegs, NEW run \in Holding, NEW given \in Nat
    PROVE  /\ Fill(run, l) \in Holding
           /\ (run.covered /\ run.held >= given /\ l.input = given) =>
                 Fill(run, l).covered /\ Fill(run, l).held >= l.output
  <1> DEFINE worth == WorthOf(l)  q == l.quantity
  <1>1. /\ q \in Nat /\ l.input \in Nat /\ l.output \in Nat /\ run.held \in Nat /\ run.covered \in BOOLEAN
        /\ l.leg.side \in {"buy", "sell"}
        /\ l.leg.side = "buy" => worth \in Int /\ worth <= l.input /\ l.output = AfterFee(q, l.liquidity)
        /\ l.leg.side = "sell" => /\ worth \in Nat /\ q <= l.input /\ l.output <= AfterFee(worth, l.liquidity)
    BY DEF SoundLegs, SizedLegs, KeepsItsWord, Holding, PlLegs
  <1> HIDE DEF worth, q
  <1>2. CASE l.leg.side = "buy"
    <2> DEFINE out == AfterFee(q, l.liquidity)  paid == worth <= run.held
               next == [held |-> out, covered |-> run.covered /\ paid]
    <2>1. out \in Nat
      BY <1>1, AfterFeeFacts
    <2>2. Fill(run, l) = next
      BY <1>2 DEF Fill, worth, q
    <2>3. out >= l.output
      <3>1. out = l.output
        BY <1>1, <1>2
      <3> HIDE DEF out
      <3> QED BY <1>1, <3>1
    <2>4. (run.covered /\ run.held >= given /\ l.input = given) => paid
      BY <1>1, <1>2
    <2> HIDE DEF paid, out
    <2>5. next \in Holding
      BY <1>1, <2>1 DEF Holding
    <2>6. (run.covered /\ run.held >= given /\ l.input = given) => next.covered /\ next.held >= l.output
      BY <1>1, <2>1, <2>3, <2>4
    <2> HIDE DEF next
    <2> QED BY <2>2, <2>5, <2>6
  <1>3. CASE l.leg.side = "sell"
    <2> DEFINE out == AfterFee(worth, l.liquidity)  paid == q <= run.held
               next == [held |-> out, covered |-> run.covered /\ paid]
    <2>1. out \in Nat
      BY <1>1, <1>3, AfterFeeFacts
    <2>2. Fill(run, l) = next
      BY <1>3 DEF Fill, worth, q
    <2>3. out >= l.output
      <3>1. l.output <= out
        BY <1>1, <1>3
      <3> HIDE DEF out
      <3> QED BY <1>1, <2>1, <3>1
    <2>4. (run.covered /\ run.held >= given /\ l.input = given) => paid
      BY <1>1, <1>3
    <2> HIDE DEF paid, out
    <2>5. next \in Holding
      BY <1>1, <2>1 DEF Holding
    <2>6. (run.covered /\ run.held >= given /\ l.input = given) => next.covered /\ next.held >= l.output
      BY <1>1, <2>1, <2>3, <2>4
    <2> HIDE DEF next
    <2> QED BY <2>2, <2>5, <2>6
  <1> QED BY <1>1, <1>2, <1>3

\* Every order is covered by what the orders before it returned, and so is what was promised.
LEMMA ExecutedFacts ==
    ASSUME BooksTyped, plPlan \in Plans, Chained(plPlan)
    PROVE  Executed(plPlan.legs).covered /\ Executed(plPlan.legs).held >= plPlan.end
  <1>0. PICK legs, start : legs = plPlan.legs /\ start = plPlan.start
    OBVIOUS
  <1> DEFINE N == Len(legs)
             base == [held |-> start, covered |-> TRUE]
             step == [p \in (1 .. N) \X Holding |-> Fill(p[2], legs[p[1]])]
             Loop(f) == f = [k \in 0 .. N |-> IF k = 0 THEN base ELSE Fill(f[k - 1], legs[k])]
  <1>1. legs \in Seq(SoundLegs) /\ start \in Nat /\ plPlan.end \in Nat /\ Chained(plPlan) /\ plVolume \in Nat
    BY <1>0 DEF Plans, BooksTyped
  <1>2. N \in Nat /\ \A k \in 1 .. N : legs[k] \in SoundLegs
    BY <1>1, LenProperties, ElementOfSeq
  <1>3. /\ \A k \in 1 .. N : legs[k].input = Before(plPlan, k) /\ legs[k].output \in Nat
        /\ plPlan.end = Before(plPlan, N + 1)
        /\ \A k \in 1 .. N : Before(plPlan, k + 1) = legs[k].output
        /\ Before(plPlan, 1) = start
    <2>1. /\ \A k \in 1 .. N : legs[k].input = Before(plPlan, k)
          /\ plPlan.end = Before(plPlan, N + 1)
      BY <1>0, <1>1 DEF Chained
    <2>2. ASSUME NEW k \in 1 .. N PROVE Before(plPlan, k + 1) = legs[k].output /\ legs[k].output \in Nat
      <3>1. k + 1 # 1 /\ k + 1 - 1 = k
        BY <1>2
      <3>2. Before(plPlan, k + 1) = legs[k].output
        BY <1>0, <3>1 DEF Before
      <3> QED BY <1>2, <3>2 DEF SoundLegs, SizedLegs
    <2> QED BY <1>0, <2>1, <2>2 DEF Before
  <1>4. base \in Holding
    BY <1>1 DEF Holding
  <1>5. ASSUME NEW k \in 1 .. N, NEW run \in Holding PROVE Fill(run, legs[k]) \in Holding
    <2> DEFINE l == legs[k]
    <2>1. l \in SoundLegs
      BY <1>2
    <2> HIDE DEF l
    <2>2. Fill(run, l) \in Holding
      BY <1>1, <2>1, FillFacts
    <2> QED BY <2>2 DEF l
  <1>6. step \in [(1 .. N) \X Holding -> Holding]
    <2>1. ASSUME NEW p \in (1 .. N) \X Holding PROVE Fill(p[2], legs[p[1]]) \in Holding
      <3>1. p[1] \in 1 .. N /\ p[2] \in Holding
        OBVIOUS
      <3> QED BY <1>5, <3>1
    <2> QED BY <2>1
  <1>7. PICK f : Runs(f, N, Holding, base, step)
    <2> HIDE DEF N, base, step
    <2> QED BY <1>2, <1>4, <1>6, LoopRuns
  <1>8. Loop(f)
    <2>1. ASSUME NEW k \in 1 .. N PROVE f[k] = Fill(f[k - 1], legs[k])
      <3>1. k - 1 \in 0 .. N
        BY <1>2
      <3>2. f[k] = step[<<k, f[k - 1]>>] /\ f[k - 1] \in Holding
        BY <1>7, <3>1 DEF Runs
      <3> QED BY <3>2
    <2>2. ASSUME NEW k \in 0 .. N PROVE f[k] = IF k = 0 THEN base ELSE Fill(f[k - 1], legs[k])
      <3>1. k # 0 => k \in 1 .. N
        BY <1>2
      <3> QED BY <1>7, <2>1, <3>1 DEF Runs
    <2> QED BY <1>7, <2>2 DEF Runs
  <1> DEFINE run == CHOOSE g : Loop(g)
  <1>9. Loop(run)
    <2> HIDE DEF Loop
    <2> QED BY <1>8
  <1>10. Executed(legs) = run[N]
    BY <1>0 DEF Executed
  <1> HIDE DEF run
  <1>11. \A k \in 0 .. N : run[k] = IF k = 0 THEN base ELSE Fill(run[k - 1], legs[k])
    BY <1>9
  <1> DEFINE Enough == {k \in Nat : run[k] \in Holding /\ run[k].covered /\ run[k].held >= Before(plPlan, k + 1)}
  <1>12. \A k \in 0 .. N : k \in Enough
    <2>1. 0 \in Enough
      <3>1. 0 \in 0 .. N
        BY <1>2
      <3>2. run[0] = base
        BY <1>11, <3>1
      <3>3. base.covered /\ base.held >= start
        BY <1>1
      <3>4. Before(plPlan, 0 + 1) = start
        BY <1>3
      <3> QED BY <1>4, <3>2, <3>3, <3>4
    <2>2. ASSUME NEW k \in 0 .. N, k < N, k \in Enough PROVE k + 1 \in Enough
      <3>1. k + 1 \in 1 .. N /\ k + 1 \in 0 .. N /\ k + 1 # 0 /\ k + 1 - 1 = k /\ k + 1 \in Nat
        BY <1>2, <2>2
      <3> DEFINE now == run[k]  l == legs[k + 1]  given == Before(plPlan, k + 1)
      <3>2. run[k + 1] = Fill(now, l)
        <4> HIDE DEF Loop, N
        <4> QED BY <1>11, <2>2, <3>1
      <3>3. now \in Holding /\ now.covered /\ now.held >= given
        BY <2>2
      <3>4. l \in SoundLegs /\ l.input = given /\ l.output = Before(plPlan, k + 1 + 1)
        BY <1>2, <1>3, <3>1
      <3> HIDE DEF now, l, given
      <3>5. given \in Nat
        BY <3>4 DEF SoundLegs, SizedLegs
      <3>6. Fill(now, l) \in Holding /\ Fill(now, l).covered /\ Fill(now, l).held >= l.output
        BY <1>1, <3>3, <3>4, <3>5, FillFacts
      <3> QED BY <3>1, <3>2, <3>4, <3>6
    <2> HIDE DEF Enough, N
    <2> QED BY <1>2, <2>1, <2>2, IntervalInduction
  <1>13. run[N].covered /\ run[N].held >= Before(plPlan, N + 1)
    <2>1. N \in 0 .. N
      BY <1>2
    <2> QED BY <1>12, <2>1
  <1> HIDE DEF N
  <1> QED BY <1>0, <1>3, <1>10, <1>13

-----------------------------------------------------------------------------

PlanInv ==
    /\ BooksTyped
    /\ plPlan.failure = "" => plPlan \in Plans

LEMMA RotationIsLegs ==
    ASSUME NEW legs \in Opportunities, NEW r \in DOMAIN legs, NEW mode
    PROVE  /\ Rotation(legs, r) \in Seq(PlLegs)
           /\ \A k \in 1 .. Len(Rotation(legs, r)) :
                 AssignLiquidity(Rotation(legs, r), mode)[k] \in {"maker", "taker"}
  <1>1. legs \in Seq(PlLegs) /\ r \in 1 .. Len(legs) /\ Len(legs) \in Nat
    <2>1. legs \in Seq(PlLegs)
      BY PlanningAssumption DEF PlLegs
    <2> QED BY <2>1, LenProperties
  <1> DEFINE late == SubSeq(legs, r, Len(legs))  early == SubSeq(legs, 1, r - 1)  ordered == Rotation(legs, r)
  <1>2. late \in Seq(PlLegs) /\ early \in Seq(PlLegs)
    <2>1. \A k \in r .. Len(legs) : legs[k] \in PlLegs
      BY <1>1, ElementOfSeq
    <2>2. \A k \in 1 .. r - 1 : legs[k] \in PlLegs
      BY <1>1, ElementOfSeq
    <2> QED BY <1>1, <2>1, <2>2, SubSeqProperties
  <1>3. ordered \in Seq(PlLegs)
    <2> HIDE DEF late, early
    <2>1. late \o early \in Seq(PlLegs)
      BY <1>2, ConcatProperties
    <2> QED BY <2>1 DEF Rotation, late, early
  <1> HIDE DEF ordered
  <1>4. ASSUME NEW k \in 1 .. Len(ordered) PROVE AssignLiquidity(ordered, mode)[k] \in {"maker", "taker"}
    <2>1. k \in DOMAIN ordered
      BY <1>3, LenProperties
    <2> HIDE DEF MakerLeg
    <2> QED BY <2>1 DEF AssignLiquidity
  <1> QED BY <1>3, <1>4 DEF ordered

\* With the books and the volume as they were, a plan says what it said.
LEMMA PlansStay ==
    ASSUME UNCHANGED <<plBook, plVolume>>
    PROVE  Plans' = Plans
  <1>1. ASSUME NEW l PROVE WorthOf(l)' = WorthOf(l)
    BY DEF WorthOf, LevelsOf
  <1>2. ASSUME NEW a, NEW liquidity PROVE AfterFee(a, liquidity)' = AfterFee(a, liquidity)
    BY DEF AfterFee, RateOf, TierFor
  <1>3. ASSUME NEW l PROVE KeepsItsWord(l)' <=> KeepsItsWord(l)
    BY <1>1, <1>2 DEF KeepsItsWord
  <1>4. SoundLegs' = SoundLegs
    BY <1>3 DEF SoundLegs, SizedLegs, PlLegs
  <1> QED BY <1>4 DEF Plans, Chained, Before, Reasons

LEMMA PlanIndInit == PlInit => PlanInv
  BY DEF PlInit, PlanInv, BooksTyped, NoPlan

LEMMA PlanIndNext ==
    ASSUME PlanInv, [PlNext]_plVars PROVE PlanInv'
  <1>1. CASE PlanCycle
    <2>1. PICK legs \in Opportunities, available \in Amounts, mode \in PlanModes :
             \E r \in Rotations(legs, legs[1].from) :
                plPlan' = SizeBest(Rotation(legs, r), available, AssignLiquidity(Rotation(legs, r), mode))
      BY <1>1 DEF PlanCycle
    <2>2. PICK r \in Rotations(legs, legs[1].from) :
             plPlan' = SizeBest(Rotation(legs, r), available, AssignLiquidity(Rotation(legs, r), mode))
      BY <2>1
    <2> DEFINE ordered == Rotation(legs, r)  liquidities == AssignLiquidity(ordered, mode)
    <2>3. r \in DOMAIN legs /\ available \in Nat
      BY PlanningAssumption DEF Rotations
    <2>4. ordered \in Seq(PlLegs) /\ \A k \in 1 .. Len(ordered) : liquidities[k] \in {"maker", "taker"}
      BY <2>3, RotationIsLegs
    <2>5. BooksTyped /\ UNCHANGED <<plBook, plVolume>>
      BY <1>1 DEF PlanInv, PlanCycle
    <2> HIDE DEF ordered, liquidities
    <2>6. SizeBest(ordered, available, liquidities).failure = "" => SizeBest(ordered, available, liquidities) \in Plans
      BY <2>3, <2>4, <2>5, SizeBestIsSound
    <2>7. plPlan' = SizeBest(ordered, available, liquidities)
      BY <2>2 DEF ordered, liquidities
    <2>8. BooksTyped'
      BY <2>5 DEF BooksTyped
    <2>9. Plans' = Plans
      BY <2>5, PlansStay
    <2>10. plPlan'.failure = "" => plPlan' \in Plans'
      BY <2>6, <2>7, <2>9
    <2> QED BY <2>8, <2>10 DEF PlanInv
  <1>2. CASE FillsRecorded
    <2> DEFINE added == IF plPlan.failure = "" THEN plPlan.start ELSE 0  more == plVolume + added
    <2>1. more \in Nat /\ MaxVolume \in Nat
      <3>1. plVolume \in Nat /\ MaxVolume \in Nat
        BY PlanningAssumption DEF PlanInv, BooksTyped
      <3>2. plPlan.failure = "" => plPlan.start \in Nat
        BY DEF PlanInv, Plans
      <3>3. added \in Nat
        BY <3>2
      <3> HIDE DEF added
      <3> QED BY <3>1, <3>3
    <2>2. plVolume' = Smaller(more, MaxVolume) /\ plPlan' = [failure |-> "none"] /\ plBook' = plBook
      BY <1>2 DEF FillsRecorded, NoPlan
    <2> HIDE DEF more, added
    <2>3. plVolume' \in Nat
      BY <2>1, <2>2 DEF Smaller
    <2>4. BooksTyped'
      BY <2>2, <2>3 DEF PlanInv, BooksTyped
    <2>5. plPlan'.failure # ""
      BY <2>2
    <2> QED BY <2>4, <2>5 DEF PlanInv
  <1>3. CASE VolumeExpires
    <2>1. plVolume' = 0 /\ plPlan' = plPlan /\ plPlan = [failure |-> "none"] /\ plBook' = plBook
      BY <1>3 DEF VolumeExpires, NoPlan
    <2>2. BooksTyped'
      BY <2>1 DEF PlanInv, BooksTyped
    <2>3. plPlan'.failure # ""
      BY <2>1
    <2> QED BY <2>2, <2>3 DEF PlanInv
  <1>4. CASE UNCHANGED plVars
    <2>1. UNCHANGED <<plBook, plVolume>> /\ plPlan' = plPlan
      BY <1>4 DEF plVars
    <2>2. BooksTyped'
      BY <2>1 DEF PlanInv, BooksTyped
    <2>3. Plans' = Plans
      BY <2>1, PlansStay
    <2> QED BY <2>1, <2>2, <2>3 DEF PlanInv
  <1> QED BY <1>1, <1>2, <1>3, <1>4 DEF PlNext

LEMMA PlanInvImplies == PlanInv => ProjectionIsALowerBound
  <1> SUFFICES ASSUME PlanInv, plPlan.failure = ""
               PROVE  Executed(plPlan.legs).covered /\ Executed(plPlan.legs).held >= plPlan.end
    BY DEF ProjectionIsALowerBound
  <1>1. BooksTyped /\ plPlan \in Plans /\ Chained(plPlan)
    BY DEF PlanInv, Plans
  <1> QED BY <1>1, ExecutedFacts

\* A plan whose orders fill on the books it was made from never asks for more than the
\* legs before returned and ends with what it promised, or more: for all books, lot grids,
\* fee tiers and discounts, fractions, opportunities of any length and both liquidities.
\* Code: the rounding of _size_leg, the fee of FeeEngine and the two book walks.
THEOREM PlansPromiseNoMore == PlanSpec => []ProjectionIsALowerBound
  <1>1. PlInit => PlanInv
    BY PlanIndInit
  <1>2. PlanInv /\ [PlNext]_plVars => PlanInv'
    BY PlanIndNext
  <1> QED BY <1>1, <1>2, PlanInvImplies, PTL DEF PlanSpec

-----------------------------------------------------------------------------
(* CycleSearch: the edges. *)

MoodsTyped == csMood \in [DOMAIN Pairs -> [buy : Int, sell : Int, usable : SUBSET {"buy", "sell"}]]

LEMMA PairsCounted == Len(Pairs) \in Nat /\ DOMAIN Pairs = 1 .. Len(Pairs) /\ EdgeIds \subseteq Nat
  <1>1. Len(Pairs) \in Nat /\ DOMAIN Pairs = 1 .. Len(Pairs)
    BY SearchAssumption, LenProperties
  <1> QED BY <1>1 DEF EdgeIds

LEMMA EdgeFacts ==
    ASSUME NEW e \in EdgeIds
    PROVE  /\ (e + 1) \div 2 \in DOMAIN Pairs
           /\ From(e) \in TradedAssets /\ To(e) \in TradedAssets /\ From(e) \in STRING
           /\ Venue(e) \in STRING
           /\ MoodsTyped => Gain(e) \in Int
  <1>1. (e + 1) \div 2 \in 1 .. Len(Pairs)
    <2>1. e \in Nat /\ 1 <= e /\ e <= 2 * Len(Pairs) /\ Len(Pairs) \in Nat
      BY PairsCounted DEF EdgeIds
    <2> QED BY <2>1
  <1> DEFINE i == (e + 1) \div 2
  <1>2. i \in DOMAIN Pairs
    BY <1>1, PairsCounted
  <1> HIDE DEF i
  <1>3. Pairs[i] \in [base : STRING, quote : STRING, venue : STRING]
    BY <1>2, SearchAssumption, ElementOfSeq, PairsCounted
  <1>4. From(e) \in TradedAssets /\ To(e) \in TradedAssets
    BY DEF TradedAssets
  <1>5. From(e) \in STRING /\ Venue(e) \in STRING
    BY <1>3 DEF From, Venue, PairOf, i
  <1>6. ASSUME MoodsTyped PROVE Gain(e) \in Int
    <2>1. csMood[i] \in [buy : Int, sell : Int, usable : SUBSET {"buy", "sell"}]
      BY <1>2, <1>6 DEF MoodsTyped
    <2> QED BY <2>1 DEF Gain, Mood, i
  <1> QED BY <1>2, <1>4, <1>5, <1>6 DEF i

\* An edge is known by the assets it goes from and to, and its venue.
LEMMA EdgesDiffer ==
    ASSUME NEW d \in EdgeIds, NEW e \in EdgeIds,
           From(d) = From(e), To(d) = To(e), Venue(d) = Venue(e)
    PROVE  d = e
  <1> DEFINE i == (d + 1) \div 2  j == (e + 1) \div 2
  <1>1. i \in DOMAIN Pairs /\ j \in DOMAIN Pairs
    BY EdgeFacts
  <1>2. {Pairs[i].base, Pairs[i].quote} = {From(d), To(d)}
    BY DEF From, To, PairOf
  <1>3. {Pairs[j].base, Pairs[j].quote} = {From(e), To(e)}
    BY DEF From, To, PairOf
  <1>4. Pairs[i].venue = Pairs[j].venue
    BY DEF Venue, PairOf
  <1>5. i = j
    <2> HIDE DEF i, j
    <2> QED BY <1>1, <1>2, <1>3, <1>4, SearchAssumption
  <1>6. Buys(d) <=> Buys(e)
    <2>1. Pairs[i].base # Pairs[i].quote
      <3> HIDE DEF i
      <3> QED BY <1>1, SearchAssumption
    <2> QED BY <1>5, <2>1 DEF From, PairOf
  <1>7. d \in Nat /\ e \in Nat
    BY PairsCounted
  <1> HIDE DEF i, j
  <1>8. (d + 1) \div 2 = (e + 1) \div 2 /\ (d % 2 = 1 <=> e % 2 = 1)
    BY <1>5, <1>6 DEF Buys, i, j
  <1> QED BY <1>7, <1>8

-----------------------------------------------------------------------------
(* The enumerator's paths. *)

\* A path stays on one venue, unless it may change.
OnItsVenue(p, n) == CrossVenue \/ \A i \in 1 .. n : Venue(p[i]) = Venue(p[1])

\* A path without a repeated asset, at its start again or at an asset it has not been at.
OnPath(p, start, usable, n) ==
    /\ p \in Seq(usable) /\ Len(p) = n
    /\ \A i \in 1 .. n - 1 : To(p[i]) = From(p[i + 1])
    /\ n > 0 => From(p[1]) = start
    /\ \A i, j \in 1 .. n : From(p[i]) = From(p[j]) => i = j
    /\ n > 0 => \A i \in 1 .. n : To(p[n]) = From(p[i]) => To(p[n]) = start
    /\ OnItsVenue(p, n)

Longer(paths, start, usable) == UNION {{Append(p, e) : e \in Onward(p, start, usable)} : p \in paths}

LEMMA WalksRun ==
    ASSUME NEW usable \in SUBSET EdgeIds, NEW start
    PROVE  /\ Walks(start, usable)[0] = {<< >>}
           /\ \A n \in 1 .. MaxLength : Walks(start, usable)[n] = Longer(Walks(start, usable)[n - 1], start, usable)
  <1> DEFINE N == MaxLength  T == SUBSET Seq(EdgeIds)  base == {<< >>}
             Loop(f) == f = [n \in 0 .. N |-> IF n = 0 THEN {<< >>}
                             ELSE UNION {{Append(p, e) : e \in Onward(p, start, usable)} : p \in f[n - 1]}]
             step == [p \in (1 .. N) \X T |-> Longer(p[2], start, usable)]
  <1>1. N \in Nat /\ base \in T
    BY SearchAssumption, EmptySeq
  <1>2. step \in [(1 .. N) \X T -> T]
    <2>1. ASSUME NEW q \in T PROVE Longer(q, start, usable) \in T
      <3>1. ASSUME NEW p \in q, NEW e \in Onward(p, start, usable) PROVE Append(p, e) \in Seq(EdgeIds)
        <4>1. p \in Seq(EdgeIds) /\ e \in EdgeIds
          BY <2>1, <3>1 DEF Onward
        <4> QED BY <4>1
      <3> QED BY <3>1 DEF Longer
    <2> HIDE DEF N, T
    <2> QED BY <2>1
  <1>3. PICK f : f \in [0 .. N -> T] /\ f[0] = base /\ \A n \in 1 .. N : f[n] = step[<<n, f[n - 1]>>]
    <2> HIDE DEF N, T, base, step
    <2>1. \E f : Runs(f, N, T, base, step)
      BY <1>1, <1>2, LoopRuns
    <2> QED BY <2>1 DEF Runs
  <1>4. Loop(f)
    <2>1. ASSUME NEW n \in 0 .. N PROVE f[n] = IF n = 0 THEN {<< >>} ELSE Longer(f[n - 1], start, usable)
      <3>1. CASE n # 0
        <4> HIDE DEF T, N
        <4>1. n \in 1 .. N /\ n - 1 \in 0 .. N
          BY <1>1, <3>1
        <4> DEFINE last == f[n - 1]
        <4>2. last \in T
          BY <1>3, <4>1
        <4>3. f[n] = step[<<n, last>>]
          <5> HIDE DEF step
          <5> QED BY <1>3, <4>1
        <4> HIDE DEF last
        <4>4. <<n, last>> \in (1 .. N) \X T
          BY <4>1, <4>2
        <4>5. step[<<n, last>>] = Longer(last, start, usable)
          BY <4>4
        <4> HIDE DEF step
        <4> QED BY <3>1, <4>3, <4>5 DEF last
      <3>2. CASE n = 0
        <4> HIDE DEF step, T, N
        <4> QED BY <1>3, <3>2
      <3> QED BY <3>1, <3>2
    <2> HIDE DEF step, T, N
    <2>2. f = [n \in 0 .. N |-> f[n]]
      BY <1>3
    <2> QED BY <2>1, <2>2 DEF Longer
  <1> DEFINE W == CHOOSE g : Loop(g)
  <1>5. Loop(W)
    <2> HIDE DEF Loop
    <2> QED BY <1>4
  <1>6. Walks(start, usable) = W
    BY DEF Walks
  <1> HIDE DEF W
  <1>7. \A n \in 0 .. N : W[n] = IF n = 0 THEN {<< >>} ELSE Longer(W[n - 1], start, usable)
    BY <1>5 DEF Longer
  <1> HIDE DEF Loop
  <1>8. 0 \in 0 .. N /\ \A n \in 1 .. N : n \in 0 .. N /\ n # 0
    BY <1>1
  <1> QED BY <1>6, <1>7, <1>8

LEMMA LongerPath ==
    ASSUME NEW usable \in SUBSET EdgeIds, NEW start, NEW n \in Nat,
           NEW p, OnPath(p, start, usable, n), NEW e \in Onward(p, start, usable)
    PROVE  OnPath(Append(p, e), start, usable, n + 1)
  <1> DEFINE q == Append(p, e)  here == IF p = << >> THEN start ELSE To(p[Len(p)])
             met == {From(p[i]) : i \in 1 .. Len(p)} \cup {here}
  <1>1. p \in Seq(usable) /\ Len(p) = n /\ e \in usable
    BY DEF OnPath, Onward
  <1>2. q \in Seq(usable) /\ Len(q) = n + 1 /\ q[n + 1] = e /\ \A i \in 1 .. n : q[i] = p[i]
    BY <1>1
  <1>3. From(e) = here /\ To(e) \notin met \ {start} /\ (p # << >> => here # start)
    BY DEF Onward
  <1>4. p = << >> <=> n = 0
    BY <1>1, EmptySeq
  <1> HIDE DEF q
  <1>5. ASSUME NEW i \in 1 .. n + 1 - 1 PROVE To(q[i]) = From(q[i + 1])
    <2>1. CASE i = n
      <3>1. n > 0 /\ To(p[n]) = From(e)
        BY <1>1, <1>3, <1>4, <2>1
      <3> QED BY <1>2, <2>1, <3>1
    <2>2. CASE i # n
      <3>1. i \in 1 .. n - 1 /\ i + 1 \in 1 .. n /\ i \in 1 .. n
        BY <2>2
      <3>2. To(p[i]) = From(p[i + 1]) /\ q[i] = p[i] /\ q[i + 1] = p[i + 1]
        BY <1>2, <3>1 DEF OnPath
      <3> QED BY <3>2
    <2> QED BY <2>1, <2>2
  <1>6. From(q[1]) = start
    <2>1. CASE n = 0
      BY <1>2, <1>3, <1>4, <2>1
    <2>2. CASE n # 0
      <3>1. 1 \in 1 .. n
        BY <2>2
      <3> QED BY <1>2, <3>1 DEF OnPath
    <2> QED BY <2>1, <2>2
  \* Where the path is, it has not been before, or it is back at its start.
  <1>7. ASSUME NEW i \in 1 .. n PROVE From(p[i]) # From(e)
    <2>1. n > 0 /\ n \in 1 .. n /\ From(e) = To(p[n]) /\ From(e) # start
      BY <1>1, <1>3, <1>4
    <2> QED BY <2>1 DEF OnPath
  <1>8. ASSUME NEW i \in 1 .. n + 1, NEW j \in 1 .. n + 1, From(q[i]) = From(q[j]) PROVE i = j
    <2>1. CASE i \in 1 .. n /\ j \in 1 .. n
      BY <1>2, <1>8, <2>1 DEF OnPath
    <2>2. CASE i = n + 1 /\ j \in 1 .. n
      <3>1. q[i] = e /\ q[j] = p[j]
        BY <1>2, <2>2
      <3> QED BY <1>7, <1>8, <2>2, <3>1
    <2>3. CASE j = n + 1 /\ i \in 1 .. n
      <3>1. q[j] = e /\ q[i] = p[i]
        BY <1>2, <2>3
      <3> QED BY <1>7, <1>8, <2>3, <3>1
    <2> QED BY <2>1, <2>2, <2>3
  <1>9. ASSUME NEW i \in 1 .. n + 1, To(q[n + 1]) = From(q[i]) PROVE To(q[n + 1]) = start
    <2>1. From(q[i]) \in met
      <3>1. CASE i = n + 1
        BY <1>2, <1>3, <3>1
      <3>2. CASE i \in 1 .. n
        BY <1>1, <1>2, <3>2
      <3> QED BY <3>1, <3>2
    <2>2. To(q[n + 1]) = To(e)
      BY <1>2
    <2> HIDE DEF met, here
    <2> QED BY <1>3, <1>9, <2>1, <2>2
  <1>10. OnItsVenue(q, n + 1)
    <2> SUFFICES ASSUME ~CrossVenue, NEW i \in 1 .. n + 1 PROVE Venue(q[i]) = Venue(q[1])
      BY DEF OnItsVenue
    <2>1. CASE i \in 1 .. n
      <3>1. 1 \in 1 .. n
        BY <2>1
      <3>2. q[1] = p[1] /\ q[i] = p[i] /\ Venue(p[i]) = Venue(p[1])
        BY <1>2, <2>1, <3>1 DEF OnPath, OnItsVenue
      <3> QED BY <3>2
    <2>2. CASE i = n + 1 /\ n # 0
      <3>1. 1 \in 1 .. n /\ p # << >>
        BY <1>4, <2>2
      <3>2. Venue(e) = Venue(p[1])
        BY <3>1 DEF Onward
      <3> QED BY <1>2, <2>2, <3>1, <3>2
    <2>3. CASE i = n + 1 /\ n = 0
      BY <2>3
    <2> QED BY <2>1, <2>2, <2>3
  <1> QED BY <1>2, <1>5, <1>6, <1>8, <1>9, <1>10 DEF OnPath, q

LEMMA WalksArePaths ==
    ASSUME NEW usable \in SUBSET EdgeIds, NEW start, NEW n \in 0 .. MaxLength,
           NEW p \in Walks(start, usable)[n]
    PROVE  OnPath(p, start, usable, n)
  <1> DEFINE W == Walks(start, usable)
             Good == {k \in Nat : \A q \in W[k] : OnPath(q, start, usable, k)}
  <1>1. MaxLength \in Nat
    BY SearchAssumption
  <1>2. 0 \in Good
    <2>1. << >> \in Seq(usable) /\ Len(<< >>) = 0
      BY EmptySeq
    <2>2. OnPath(<< >>, start, usable, 0)
      BY <2>1 DEF OnPath, OnItsVenue
    <2> QED BY <2>2, WalksRun
  <1>3. ASSUME NEW k \in 0 .. MaxLength, k < MaxLength, k \in Good PROVE k + 1 \in Good
    <2>1. k + 1 \in 1 .. MaxLength /\ k + 1 - 1 = k /\ k \in Nat /\ k + 1 \in Nat
      BY <1>1, <1>3
    <2>2. W[k + 1] = Longer(W[k], start, usable)
      <3> DEFINE m == k + 1
      <3>1. m \in 1 .. MaxLength
        BY <2>1
      <3> HIDE DEF m, W
      <3>2. W[m] = Longer(W[m - 1], start, usable)
        BY <3>1, WalksRun DEF W
      <3> QED BY <2>1, <3>2 DEF m
    <2>3. ASSUME NEW q \in W[k + 1] PROVE OnPath(q, start, usable, k + 1)
      <3> HIDE DEF W
      <3>1. PICK r \in W[k] : \E e \in Onward(r, start, usable) : q = Append(r, e)
        BY <2>2 DEF Longer
      <3>2. OnPath(r, start, usable, k)
        BY <1>3
      <3> QED BY <2>1, <3>1, <3>2, LongerPath
    <2> HIDE DEF W
    <2> QED BY <2>1, <2>3
  <1>4. \A k \in 0 .. MaxLength : k \in Good
    <2> HIDE DEF Good
    <2>1. 0 \in Nat
      OBVIOUS
    <2> QED BY <1>1, <1>2, <1>3, <2>1, IntervalInduction
  <1>5. n \in Good
    <2> HIDE DEF Good
    <2> QED BY <1>4
  <1> QED BY <1>5

\* A cycle that can be written down: as long as asked, simple, and from a start asset.
Tradable(c) ==
    /\ c \in Seq(EdgeIds) /\ Len(c) \in MinLength .. MaxLength /\ Closes(c)
    /\ From(c[1]) \in ToSet(StartAssets) /\ IsInjective(PathOf(c))

\* Simple and closed.
Ring(c) ==
    /\ c \in Seq(EdgeIds) /\ c # << >> /\ Closes(c)
    /\ \A i, j \in 1 .. Len(c) : From(c[i]) = From(c[j]) => i = j

LEMMA TradableIsRing ==
    ASSUME NEW c
    PROVE  Tradable(c) <=> /\ Ring(c) /\ Len(c) \in MinLength .. MaxLength
                           /\ From(c[1]) \in ToSet(StartAssets)
  <1>1. MinLength \in Nat /\ MaxLength \in Nat /\ MinLength >= 3
    BY SearchAssumption
  <1>2. ASSUME c \in Seq(EdgeIds)
        PROVE  IsInjective(PathOf(c)) <=> \A i, j \in 1 .. Len(c) : From(c[i]) = From(c[j]) => i = j
    <2>1. DOMAIN PathOf(c) = 1 .. Len(c) /\ \A i \in 1 .. Len(c) : PathOf(c)[i] = From(c[i])
      BY DEF PathOf
    <2> QED BY <2>1 DEF IsInjective
  <1>3. ASSUME c \in Seq(EdgeIds), Len(c) \in MinLength .. MaxLength PROVE c # << >>
    <2>1. Len(<< >>) = 0
      OBVIOUS
    <2> QED BY <1>1, <1>3, <2>1
  <1> QED BY <1>2, <1>3 DEF Tradable, Ring

LEMMA ClosedIsRing ==
    ASSUME NEW usable \in SUBSET EdgeIds, NEW start, NEW c \in ClosedFrom(start, usable)
    PROVE  /\ Ring(c) /\ Len(c) \in MinLength .. MaxLength /\ From(c[1]) = start
           /\ c \in Seq(usable) /\ Legs(c) \subseteq usable /\ OnItsVenue(c, Len(c))
  <1>1. PICK n \in MinLength .. MaxLength : c \in Walks(start, usable)[n]
    BY DEF ClosedFrom
  <1>2. n \in 0 .. MaxLength /\ n \in Nat /\ n >= 3
    BY SearchAssumption
  <1>3. OnPath(c, start, usable, n)
    BY <1>1, <1>2, WalksArePaths
  <1>4. c \in Seq(usable) /\ Len(c) = n /\ To(c[n]) = start
    BY <1>3 DEF OnPath, ClosedFrom
  <1>5. Closes(c)
    <2>1. ASSUME NEW i \in 1 .. n PROVE To(c[i]) = From(c[IF i = n THEN 1 ELSE i + 1])
      <3>1. CASE i = n
        BY <1>2, <1>3, <1>4, <3>1 DEF OnPath
      <3>2. CASE i # n
        <4>1. i \in 1 .. n - 1
          BY <1>2, <3>2
        <4> QED BY <1>3, <3>2, <4>1 DEF OnPath
      <3> QED BY <3>1, <3>2
    <2> QED BY <1>4, <2>1 DEF Closes
  <1>6. c \in Seq(EdgeIds) /\ c # << >>
    <2>1. Len(<< >>) = 0
      OBVIOUS
    <2> QED BY <1>2, <1>4, <2>1
  <1>7. Legs(c) \subseteq usable
    <2>1. DOMAIN c = 1 .. Len(c) /\ \A i \in 1 .. Len(c) : c[i] \in usable
      BY <1>4, LenProperties, ElementOfSeq
    <2> QED BY <2>1 DEF Legs, ToSet
  <1> QED BY <1>2, <1>3, <1>4, <1>5, <1>6, <1>7 DEF OnPath, Ring

\* Fewer edges, fewer paths.
LEMMA WalksGrow ==
    ASSUME NEW few \in SUBSET EdgeIds, NEW many \in SUBSET EdgeIds, few \subseteq many, NEW start
    PROVE  ClosedFrom(start, few) \subseteq ClosedFrom(start, many)
  <1> DEFINE V == Walks(start, few)  W == Walks(start, many)
             Good == {k \in Nat : V[k] \subseteq W[k]}
  <1>1. MaxLength \in Nat /\ MinLength \in Nat
    BY SearchAssumption
  <1>2. 0 \in Good
    BY WalksRun
  <1>3. ASSUME NEW k \in 0 .. MaxLength, k < MaxLength, k \in Good PROVE k + 1 \in Good
    <2>1. k + 1 \in 1 .. MaxLength /\ k + 1 - 1 = k /\ k + 1 \in Nat
      BY <1>1, <1>3
    <2>2. V[k + 1] = Longer(V[k], start, few) /\ W[k + 1] = Longer(W[k], start, many)
      <3> DEFINE m == k + 1
      <3>1. m \in 1 .. MaxLength
        BY <2>1
      <3> HIDE DEF m, V, W
      <3>2. V[m] = Longer(V[m - 1], start, few) /\ W[m] = Longer(W[m - 1], start, many)
        BY <3>1, WalksRun DEF V, W
      <3> QED BY <2>1, <3>2 DEF m
    <2>3. ASSUME NEW p \in V[k] PROVE p \in W[k] /\ Onward(p, start, few) \subseteq Onward(p, start, many)
      <3>1. p \in W[k]
        <4> HIDE DEF V, W
        <4> QED BY <1>3, <2>3
      <3>2. Onward(p, start, few) \subseteq Onward(p, start, many)
        BY DEF Onward
      <3> QED BY <3>1, <3>2
    <2>4. V[k + 1] \subseteq W[k + 1]
      <3> HIDE DEF V, W
      <3> QED BY <2>2, <2>3 DEF Longer
    <2> HIDE DEF V, W
    <2> QED BY <2>1, <2>4
  <1>4. \A k \in 0 .. MaxLength : k \in Good
    <2> HIDE DEF Good
    <2>1. 0 \in Nat
      OBVIOUS
    <2> QED BY <1>1, <1>2, <1>3, <2>1, IntervalInduction
  <1>5. \A k \in MinLength .. MaxLength : V[k] \subseteq W[k]
    <2>1. \A k \in MinLength .. MaxLength : k \in 0 .. MaxLength
      BY <1>1
    <2> HIDE DEF V, W
    <2> QED BY <1>4, <2>1
  <1> QED BY <1>5 DEF ClosedFrom

\* Every ring on its venue is one of the enumerator's paths.
LEMMA RingIsClosed ==
    ASSUME NEW usable \in SUBSET EdgeIds, NEW c, Ring(c), Len(c) \in MinLength .. MaxLength,
           Legs(c) \subseteq usable, OnItsVenue(c, Len(c))
    PROVE  c \in ClosedFrom(From(c[1]), usable)
  <1> DEFINE L == Len(c)  start == From(c[1])  W == Walks(start, usable)
             Part(n) == SubSeq(c, 1, n)
             Good == {n \in Nat : Part(n) \in W[n]}
  <1>1. /\ c \in Seq(EdgeIds) /\ L \in Nat /\ L >= 3 /\ L <= MaxLength /\ MaxLength \in Nat
        /\ L \in MinLength .. MaxLength
        /\ \A i \in 1 .. L : To(c[i]) = From(c[IF i = L THEN 1 ELSE i + 1])
        /\ \A i, j \in 1 .. L : From(c[i]) = From(c[j]) => i = j
    BY SearchAssumption, LenProperties DEF Ring, Closes
  <1>2. \A i \in 1 .. L : c[i] \in usable
    <2>1. DOMAIN c = 1 .. L
      BY <1>1, LenProperties
    <2> QED BY <2>1 DEF Legs, ToSet
  <1>3. 0 \in Good
    <2>1. Part(0) = << >>
      BY <1>1
    <2>2. W[0] = {<< >>}
      BY WalksRun
    <2> HIDE DEF Part, W
    <2> QED BY <2>1, <2>2
  <1>4. ASSUME NEW n \in 0 .. L, n < L, n \in Good PROVE n + 1 \in Good
    <2> DEFINE p == Part(n)  m == n + 1  e == c[m]
    <2>1. n \in Nat /\ m \in 1 .. L /\ m \in 1 .. MaxLength /\ m - 1 = n /\ m \in Nat
      BY <1>1, <1>4
    <2>2. /\ p \in Seq(EdgeIds) /\ Len(p) = n /\ \A i \in 1 .. n : p[i] = c[i]
      BY <1>1, <2>1
    <2>3. Part(m) = Append(p, e)
      BY <1>1, <2>1
    <2>4. e \in Onward(p, start, usable)
      <3> HIDE DEF p
      <3> DEFINE here == IF p = << >> THEN start ELSE To(p[Len(p)])
                 met == {From(p[i]) : i \in 1 .. Len(p)} \cup {here}
      <3>1. p = << >> <=> n = 0
        BY <2>2, EmptySeq
      <3>2. From(e) = here
        <4>1. CASE n = 0
          BY <3>1, <4>1
        <4>2. CASE n # 0
          <5>1. n \in 1 .. n /\ n \in 1 .. L /\ n # L
            BY <1>4, <2>1, <4>2
          <5>2. To(c[n]) = From(c[n + 1])
            BY <1>1, <5>1
          <5> QED BY <2>2, <3>1, <4>2, <5>1, <5>2
        <4> QED BY <4>1, <4>2
      <3>3. ASSUME To(e) # start PROVE To(e) \notin met
        <4>1. m # L /\ m + 1 \in 1 .. L
          BY <1>1, <2>1, <3>3
        <4> DEFINE k == m + 1
        <4>2. To(e) = From(c[k])
          BY <1>1, <2>1, <4>1
        <4>3. k \in 1 .. L /\ k > m /\ k > n
          BY <2>1, <4>1
        <4> HIDE DEF k
        <4>4. ASSUME NEW i \in 1 .. n PROVE From(p[i]) # From(c[k])
          <5>1. i \in 1 .. L /\ i # k /\ p[i] = c[i]
            BY <1>4, <2>1, <2>2, <4>3
          <5> QED BY <1>1, <4>3, <5>1
        <4>5. From(e) # From(c[k])
          <5>1. m # k
            BY <2>1, <4>3
          <5> QED BY <1>1, <2>1, <4>3, <5>1
        <4> HIDE DEF here, e
        <4> QED BY <2>2, <3>2, <4>2, <4>4, <4>5
      <3>4. ASSUME p # << >> PROVE here # start /\ (CrossVenue \/ Venue(e) = Venue(p[1]))
        <4>1. n # 0 /\ 1 \in 1 .. n /\ 1 \in 1 .. L /\ m # 1
          BY <1>1, <2>1, <3>1, <3>4
        <4>2. From(c[m]) # From(c[1])
          BY <1>1, <2>1, <4>1
        <4>3. CrossVenue \/ Venue(c[m]) = Venue(c[1])
          BY <2>1 DEF OnItsVenue
        <4>4. p[1] = c[1]
          BY <2>2, <4>1
        <4> HIDE DEF here, m
        <4> QED BY <3>2, <4>2, <4>3, <4>4
      <3>5. e \in usable
        BY <1>2, <2>1
      <3> HIDE DEF e
      <3> QED BY <3>2, <3>3, <3>4, <3>5 DEF Onward
    <2> HIDE DEF W, e, p, m
    <2>5. W[m] = Longer(W[n], start, usable)
      <3> HIDE DEF start
      <3>1. W[m] = Longer(W[m - 1], start, usable)
        BY <2>1, WalksRun DEF W
      <3> QED BY <2>1, <3>1
    <2>6. p \in W[n]
      BY <1>4 DEF p
    <2>7. Part(m) \in W[m]
      <3> HIDE DEF Part
      <3> QED BY <2>3, <2>4, <2>5, <2>6 DEF Longer
    <2>8. m \in Good
      <3> HIDE DEF Part
      <3> QED BY <2>1, <2>7
    <2> QED BY <2>8 DEF m
  <1>5. L \in Good
    <2> HIDE DEF Good, L
    <2>1. 0 \in Nat /\ L \in 0 .. L
      BY <1>1
    <2>2. \A n \in 0 .. L : n \in Good
      BY <1>1, <1>3, <1>4, <2>1, IntervalInduction
    <2> QED BY <2>1, <2>2
  <1>6. Part(L) = c
    BY <1>1
  <1>7. c \in W[L] /\ To(c[L]) = start
    <2>1. Part(L) \in W[L]
      <3> HIDE DEF Part, W, L
      <3> QED BY <1>5
    <2>2. L \in 1 .. L
      BY <1>1
    <2> HIDE DEF W
    <2> QED BY <1>1, <1>6, <2>1, <2>2
  <1> HIDE DEF W
  <1> QED BY <1>1, <1>7 DEF ClosedFrom, W

-----------------------------------------------------------------------------
(* Rotations. *)

LEMMA SumOfBoth ==
    ASSUME NEW a \in Seq(Int), NEW b \in Seq(Int)
    PROVE  /\ SumSeq(a \o b) = SumSeq(a) + SumSeq(b)
           /\ SumSeq(a) \in Int /\ SumSeq(b) \in Int
  <1> DEFINE s == a \o b  m == Len(a)  n == Len(s)
  <1>1. s \in Seq(Int) /\ m \in 0 .. n /\ n \in 0 .. n /\ 0 \in 0 .. n /\ n = m + Len(b) /\ m \in Nat /\ Len(b) \in Nat
    BY LenProperties
  <1>2. a = SubSeq(s, 0 + 1, m) /\ b = SubSeq(s, m + 1, n)
    BY <1>1
  <1>3. PICK f \in [0 .. n -> Int] : SumsUp(f, s) /\ SumSeq(s) = f[n]
    <2> HIDE DEF s
    <2> QED BY <1>1, SumExists
  <1> HIDE DEF s
  <1>4. f[0] = 0 /\ f[m] \in Int /\ f[n] \in Int
    BY <1>1, <1>3 DEF SumsUp
  <1>5. SumSeq(SubSeq(s, 0 + 1, m)) = f[m] - f[0] /\ SumSeq(SubSeq(s, m + 1, n)) = f[n] - f[m]
    <2> DEFINE z == 0
    <2>1. z \in 0 .. n /\ z <= m /\ m <= n
      BY <1>1
    <2> HIDE DEF z, n, m
    <2>2. SumSeq(SubSeq(s, z + 1, m)) = f[m] - f[z]
      BY <1>1, <1>3, <2>1, SumOfStretch DEF n
    <2>3. SumSeq(SubSeq(s, m + 1, n)) = f[n] - f[m]
      BY <1>1, <1>3, <2>1, SumOfStretch DEF n
    <2> QED BY <2>2, <2>3 DEF z
  <1> DEFINE x == SumSeq(a)  y == SumSeq(b)  fm == f[m]  fn == f[n]
  <1>6. x = fm - 0 /\ y = fn - fm /\ SumSeq(s) = fn /\ fm \in Int /\ fn \in Int
    BY <1>2, <1>3, <1>4, <1>5
  <1> HIDE DEF x, y, fm, fn
  <1>7. SumSeq(s) = x + y /\ x \in Int /\ y \in Int
    BY <1>6
  <1> QED BY <1>7 DEF s, x, y

Rotated(c, i) == SubSeq(c, i, Len(c)) \o SubSeq(c, 1, i - 1)

GainsOf(c) == [i \in 1 .. Len(c) |-> Gain(c[i])]

LEMMA RotatedIs ==
    ASSUME NEW S, NEW c \in Seq(S), NEW i \in 1 .. Len(c)
    PROVE  /\ Rotated(c, i) \in Seq(S) /\ Len(Rotated(c, i)) = Len(c)
           /\ \A j \in 1 .. Len(c) :
                 Rotated(c, i)[j] = c[IF j <= Len(c) - i + 1 THEN i + j - 1 ELSE j - (Len(c) - i + 1)]
  <1> DEFINE L == Len(c)  a == SubSeq(c, i, L)  b == SubSeq(c, 1, i - 1)
  <1>1. L \in Nat /\ i \in Nat /\ 1 <= i /\ i <= L
    BY LenProperties
  <1>2. a \in Seq(S) /\ Len(a) = L - i + 1 /\ \A j \in 1 .. L - i + 1 : a[j] = c[i + j - 1]
    BY <1>1
  <1>3. b \in Seq(S) /\ Len(b) = i - 1 /\ \A j \in 1 .. i - 1 : b[j] = c[j]
    BY <1>1
  <1> HIDE DEF a, b
  <1>4. /\ a \o b \in Seq(S) /\ Len(a \o b) = Len(a) + Len(b)
        /\ \A j \in 1 .. Len(a) + Len(b) : (a \o b)[j] = IF j <= Len(a) THEN a[j] ELSE b[j - Len(a)]
    BY <1>2, <1>3
  <1> DEFINE r == a \o b
  <1> HIDE DEF r
  <1>5. r \in Seq(S) /\ Len(r) = L
    BY <1>1, <1>2, <1>3, <1>4 DEF r
  <1>6. ASSUME NEW j \in 1 .. L PROVE r[j] = c[IF j <= L - i + 1 THEN i + j - 1 ELSE j - (L - i + 1)]
    <2>1. r[j] = IF j <= L - i + 1 THEN a[j] ELSE b[j - (L - i + 1)]
      BY <1>1, <1>2, <1>3, <1>4 DEF r
    <2>2. CASE j <= L - i + 1
      <3>1. j \in 1 .. L - i + 1
        BY <2>2
      <3> QED BY <1>2, <2>1, <2>2, <3>1
    <2>3. CASE ~(j <= L - i + 1)
      <3> DEFINE k == j - (L - i + 1)
      <3>1. k \in 1 .. i - 1
        BY <1>1, <2>3
      <3> HIDE DEF k, L
      <3>2. b[k] = c[k]
        BY <1>3, <3>1
      <3> QED BY <2>1, <2>3, <3>2 DEF k
    <2> QED BY <2>2, <2>3
  <1>7. Rotated(c, i) = r
    BY DEF Rotated, r, a, b
  <1> QED BY <1>5, <1>6, <1>7

LEMMA RotationIsRing ==
    ASSUME NEW c, Ring(c), NEW i \in 1 .. Len(c)
    PROVE  /\ Ring(Rotated(c, i)) /\ Len(Rotated(c, i)) = Len(c) /\ Rotated(c, i)[1] = c[i]
           /\ Legs(Rotated(c, i)) = Legs(c)
  <1> DEFINE L == Len(c)  r == Rotated(c, i)
             at(j) == IF j <= L - i + 1 THEN i + j - 1 ELSE j - (L - i + 1)
             next(j) == IF j = L THEN 1 ELSE j + 1
  <1>1. c \in Seq(EdgeIds) /\ L \in Nat /\ i \in Nat /\ 1 <= i /\ i <= L
    BY LenProperties DEF Ring
  <1>2. r \in Seq(EdgeIds) /\ Len(r) = L /\ \A j \in 1 .. L : r[j] = c[at(j)]
    BY <1>1, RotatedIs
  <1> HIDE DEF r
  <1>3. ASSUME NEW j \in 1 .. L PROVE at(j) \in 1 .. L /\ next(j) \in 1 .. L /\ at(next(j)) = next(at(j))
    BY <1>1
  <1>4. ASSUME NEW j \in 1 .. L, NEW k \in 1 .. L, at(j) = at(k) PROVE j = k
    BY <1>1, <1>4
  <1>5. ASSUME NEW k \in 1 .. L PROVE \E j \in 1 .. L : at(j) = k
    <2>1. CASE k >= i
      <3>1. k - i + 1 \in 1 .. L /\ at(k - i + 1) = k
        BY <1>1, <2>1
      <3> QED BY <3>1
    <2>2. CASE k < i
      <3>1. k + (L - i + 1) \in 1 .. L /\ at(k + (L - i + 1)) = k
        BY <1>1, <2>2
      <3> QED BY <3>1
    <2> QED BY <1>1, <2>1, <2>2
  <1>6. at(1) = i /\ 1 \in 1 .. L
    BY <1>1
  <1>7. r # << >>
    <2>1. Len(<< >>) = 0
      OBVIOUS
    <2> QED BY <1>1, <1>2, <2>1
  <1> HIDE DEF at
  <1>8. Closes(r)
    <2>1. ASSUME NEW j \in 1 .. L PROVE To(r[j]) = From(r[next(j)])
      <3>1. To(c[at(j)]) = From(c[next(at(j))])
        BY <1>3 DEF Ring, Closes
      <3> HIDE DEF next
      <3> QED BY <1>2, <1>3, <3>1
    <2> QED BY <1>2, <2>1 DEF Closes
  <1>9. ASSUME NEW j \in 1 .. L, NEW k \in 1 .. L, From(r[j]) = From(r[k]) PROVE j = k
    BY <1>2, <1>3, <1>4, <1>9 DEF Ring
  <1>10. Legs(r) = Legs(c)
    <2>1. Legs(r) = {r[j] : j \in 1 .. L} /\ Legs(c) = {c[j] : j \in 1 .. L}
      BY <1>1, <1>2, LenProperties DEF Legs, ToSet
    <2>2. ASSUME NEW j \in 1 .. L PROVE r[j] \in Legs(c)
      <3> HIDE DEF L
      <3> QED BY <1>2, <1>3, <2>1
    <2>3. ASSUME NEW k \in 1 .. L PROVE c[k] \in Legs(r)
      <3>1. PICK j \in 1 .. L : at(j) = k
        BY <1>5
      <3>2. r[j] = c[k]
        BY <1>2, <3>1
      <3> HIDE DEF L
      <3> QED BY <2>1, <3>2
    <2> HIDE DEF L
    <2> QED BY <2>1, <2>2, <2>3
  <1>11. r[1] = c[i]
    BY <1>2, <1>6
  <1> QED BY <1>2, <1>7, <1>8, <1>9, <1>10, <1>11 DEF Ring, r

LEMMA RotationGains ==
    ASSUME MoodsTyped, NEW c \in Seq(EdgeIds), NEW i \in 1 .. Len(c)
    PROVE  GainOf(Rotated(c, i)) = GainOf(c) /\ GainOf(c) \in Int
  <1> DEFINE L == Len(c)  g == GainsOf(c)  r == Rotated(c, i)
             a == SubSeq(g, i, L)  b == SubSeq(g, 1, i - 1)
  <1>1. L \in Nat /\ i \in Nat /\ 1 <= i /\ i <= L /\ \A j \in 1 .. L : c[j] \in EdgeIds
    BY LenProperties, ElementOfSeq
  <1>2. g \in Seq(Int) /\ Len(g) = L /\ \A j \in 1 .. L : g[j] = Gain(c[j])
    <2>1. \A j \in 1 .. L : Gain(c[j]) \in Int
      BY <1>1, EdgeFacts
    <2> QED BY <1>1, <2>1 DEF GainsOf
  <1> HIDE DEF g
  <1>3. a \in Seq(Int) /\ b \in Seq(Int) /\ g = b \o a
    <2>1. /\ b \in Seq(Int) /\ Len(b) = i - 1 /\ \A j \in 1 .. i - 1 : b[j] = g[j]
      BY <1>1, <1>2
    <2>2. /\ a \in Seq(Int) /\ Len(a) = L - i + 1 /\ \A j \in 1 .. L - i + 1 : a[j] = g[i + j - 1]
      BY <1>1, <1>2
    <2> HIDE DEF a, b, L
    <2>3. /\ b \o a \in Seq(Int) /\ Len(b \o a) = L
          /\ \A j \in 1 .. L : (b \o a)[j] = IF j <= i - 1 THEN b[j] ELSE a[j - (i - 1)]
      <3>1. /\ b \o a \in Seq(Int) /\ Len(b \o a) = Len(b) + Len(a)
            /\ \A j \in 1 .. Len(b) + Len(a) : (b \o a)[j] = IF j <= Len(b) THEN b[j] ELSE a[j - Len(b)]
        BY <2>1, <2>2, ConcatProperties
      <3>2. Len(b) + Len(a) = L
        BY <1>1, <2>1, <2>2
      <3> QED BY <2>1, <3>1, <3>2, Zenon
    <2>4. ASSUME NEW j \in 1 .. L PROVE (b \o a)[j] = g[j]
      <3>1. CASE j <= i - 1
        BY <1>1, <2>1, <2>3, <3>1
      <3>2. CASE ~(j <= i - 1)
        <4>1. j - (i - 1) \in 1 .. L - i + 1 /\ i + (j - (i - 1)) - 1 = j
          BY <1>1, <3>2
        <4> QED BY <2>2, <2>3, <3>2, <4>1
      <3> QED BY <3>1, <3>2
    <2>5. b \o a = g
      BY <1>2, <2>3, <2>4, SeqEqual
    <2> QED BY <2>1, <2>2, <2>5
  <1>4. a \o b = Rotated(g, i)
    BY <1>2 DEF Rotated
  <1>5. /\ r \in Seq(EdgeIds) /\ Len(r) = L
        /\ \A j \in 1 .. L : r[j] = c[IF j <= L - i + 1 THEN i + j - 1 ELSE j - (L - i + 1)]
    BY RotatedIs
  <1>6. /\ Rotated(g, i) \in Seq(Int) /\ Len(Rotated(g, i)) = L
        /\ \A j \in 1 .. L : Rotated(g, i)[j] = g[IF j <= L - i + 1 THEN i + j - 1 ELSE j - (L - i + 1)]
    <2>1. g \in Seq(Int) /\ Len(g) = L /\ i \in 1 .. Len(g)
      BY <1>1, <1>2
    <2>2. /\ Rotated(g, i) \in Seq(Int) /\ Len(Rotated(g, i)) = Len(g)
          /\ \A j \in 1 .. Len(g) :
                Rotated(g, i)[j] = g[IF j <= Len(g) - i + 1 THEN i + j - 1 ELSE j - (Len(g) - i + 1)]
      <3> HIDE DEF L
      <3> QED BY <2>1, RotatedIs
    <2> QED BY <2>1, <2>2
  <1> HIDE DEF a, b, r
  <1>7. GainsOf(r) = Rotated(g, i)
    <2>1. ASSUME NEW j \in 1 .. L PROVE Gain(r[j]) = Rotated(g, i)[j]
      <3> DEFINE k == IF j <= L - i + 1 THEN i + j - 1 ELSE j - (L - i + 1)
      <3>1. k \in 1 .. L
        BY <1>1
      <3>2. r[j] = c[k] /\ Rotated(g, i)[j] = g[k]
        BY <1>5, <1>6
      <3> HIDE DEF k
      <3> QED BY <1>2, <3>1, <3>2
    <2>2. Rotated(g, i) = [j \in 1 .. L |-> Rotated(g, i)[j]]
      BY <1>6
    <2> QED BY <1>5, <2>1, <2>2 DEF GainsOf
  <1>8. GainOf(r) = SumSeq(a \o b) /\ GainOf(c) = SumSeq(b \o a)
    BY <1>3, <1>4, <1>7 DEF GainOf, GainsOf, g
  <1>9. /\ SumSeq(a \o b) = SumSeq(a) + SumSeq(b) /\ SumSeq(b \o a) = SumSeq(b) + SumSeq(a)
        /\ SumSeq(a) \in Int /\ SumSeq(b) \in Int
    BY <1>3, SumOfBoth
  <1>10. GainOf(r) = GainOf(c) /\ GainOf(c) \in Int
    BY <1>8, <1>9
  <1> QED BY <1>10 DEF r

\* A ring with the same legs is a rotation.
LEMMA SameLegsRotate ==
    ASSUME NEW c, Ring(c), NEW d, Ring(d), Legs(c) = Legs(d)
    PROVE  \E i \in 1 .. Len(c) : d = Rotated(c, i)
  <1> DEFINE L == Len(c)  M == Len(d)
  <1>1. /\ c \in Seq(EdgeIds) /\ d \in Seq(EdgeIds) /\ L \in Nat \ {0} /\ M \in Nat \ {0}
        /\ Legs(c) = {c[j] : j \in 1 .. L} /\ Legs(d) = {d[j] : j \in 1 .. M}
    <2>1. c \in Seq(EdgeIds) /\ d \in Seq(EdgeIds) /\ c # << >> /\ d # << >>
      BY DEF Ring
    <2>2. DOMAIN c = 1 .. L /\ DOMAIN d = 1 .. M
      BY <2>1, LenProperties
    <2> QED BY <2>1, <2>2, LenProperties, EmptySeq DEF Legs, ToSet
  <1>2. PICK i \in 1 .. L : c[i] = d[1]
    <2>1. d[1] \in Legs(c)
      <3>1. 1 \in 1 .. M
        BY <1>1
      <3> HIDE DEF M
      <3> QED BY <1>1, <3>1
    <2> QED BY <1>1, <2>1
  <1> DEFINE r == Rotated(c, i)
             Same == {j \in Nat : j > M \/ (j <= L /\ d[j] = r[j])}
  <1>3. /\ Ring(r) /\ Len(r) = L /\ r[1] = d[1] /\ {r[j] : j \in 1 .. L} = {d[j] : j \in 1 .. M}
    <2>1. Ring(r) /\ Len(r) = L /\ r[1] = d[1] /\ Legs(r) = Legs(d)
      BY <1>2, RotationIsRing
    <2> HIDE DEF r
    <2>2. r \in Seq(EdgeIds)
      BY <2>1 DEF Ring
    <2> QED BY <1>1, <2>1, <2>2, LenProperties DEF Legs, ToSet
  <1> HIDE DEF r
  <1>4. /\ \A j \in 1 .. L : To(r[j]) = From(r[IF j = L THEN 1 ELSE j + 1])
        /\ \A j \in 1 .. M : To(d[j]) = From(d[IF j = M THEN 1 ELSE j + 1])
        /\ \A j, k \in 1 .. L : From(r[j]) = From(r[k]) => j = k
        /\ \A j, k \in 1 .. M : From(d[j]) = From(d[k]) => j = k
    BY <1>3 DEF Ring, Closes
  <1>5. ASSUME NEW j \in 1 .. M, j < M, j <= L, d[j] = r[j] PROVE j < L /\ d[j + 1] = r[j + 1]
    <2>1. j + 1 \in 1 .. M /\ To(d[j]) = From(d[j + 1]) /\ j \in 1 .. L
      BY <1>1, <1>4, <1>5
    <2>2. j # L
      <3> SUFFICES ASSUME j = L PROVE FALSE
        OBVIOUS
      <3>1. To(r[j]) = From(r[1])
        BY <1>4, <2>1
      <3>2. From(d[j + 1]) = From(d[1]) /\ 1 \in 1 .. M
        BY <1>1, <1>3, <1>5, <2>1, <3>1
      <3>3. j + 1 = 1
        <4> DEFINE k == j + 1
        <4> HIDE DEF k
        <4>1. k \in 1 .. M /\ From(d[k]) = From(d[1])
          BY <2>1, <3>2 DEF k
        <4>2. k = 1
          BY <1>4, <3>2, <4>1
        <4> QED BY <4>2 DEF k
      <3> QED BY <2>1, <3>3
    <2>3. j + 1 \in 1 .. L /\ To(r[j]) = From(r[j + 1])
      BY <1>1, <1>4, <2>1, <2>2
    <2> DEFINE k == j + 1
    <2>4. k \in 1 .. M /\ k \in 1 .. L /\ From(d[k]) = From(r[k])
      BY <1>5, <2>1, <2>3
    <2> HIDE DEF k
    <2>5. PICK m \in 1 .. L : d[k] = r[m]
      BY <1>3, <2>4
    <2>6. m = k
      BY <1>4, <2>4, <2>5
    <2> QED BY <2>1, <2>2, <2>5, <2>6 DEF k
  <1>6. 1 \in Same
    BY <1>1, <1>3
  <1>7. ASSUME NEW j \in 1 .. M, j < M, j \in Same PROVE j + 1 \in Same
    <2>1. j <= L /\ d[j] = r[j] /\ j + 1 \in Nat
      BY <1>1, <1>7
    <2>2. j < L /\ d[j + 1] = r[j + 1]
      BY <1>5, <1>7, <2>1
    <2>3. j + 1 <= L
      BY <1>1, <2>2
    <2> QED BY <2>1, <2>2, <2>3
  <1>8. \A j \in 1 .. M : j \in Same
    <2> HIDE DEF Same, M
    <2>1. 1 \in Nat /\ M \in Nat
      BY <1>1
    <2> QED BY <1>6, <1>7, <2>1, IntervalInduction
  <1>9. M <= L /\ \A j \in 1 .. M : d[j] = r[j]
    BY <1>1, <1>8
  \* The last edge of d goes back to its first, as only the last of r does.
  <1>10. M = L
    <2>1. M \in 1 .. M /\ M \in 1 .. L /\ 1 \in 1 .. L /\ To(r[M]) = From(r[1])
      BY <1>1, <1>3, <1>4, <1>9
    <2> SUFFICES ASSUME M # L PROVE FALSE
      OBVIOUS
    <2> DEFINE k == M + 1
    <2>2. k \in 1 .. L /\ To(r[M]) = From(r[k])
      BY <1>1, <1>4, <1>9, <2>1
    <2> HIDE DEF k
    <2>3. k = 1
      BY <1>4, <2>1, <2>2
    <2> QED BY <1>1, <2>3 DEF k
  <1>11. d = r
    <2>1. r \in Seq(EdgeIds)
      BY <1>3 DEF Ring
    <2>2. d = [j \in 1 .. M |-> d[j]] /\ r = [j \in 1 .. L |-> r[j]]
      BY <1>1, <1>3, <2>1, LenProperties
    <2> QED BY <1>9, <1>10, <2>2
  <1> QED BY <1>11 DEF r

\* It starts from the first start asset it passes.
StartsFirst(c) ==
    \E m \in 1 .. Len(StartAssets) :
        /\ From(c[1]) = StartAssets[m]
        /\ \A k \in 1 .. m - 1 : \A i \in 1 .. Len(c) : From(c[i]) # StartAssets[k]

\* A trade is written down in one way.
LEMMA TradeIsOneCycle ==
    ASSUME NEW c, Ring(c), StartsFirst(c), NEW d, Ring(d), StartsFirst(d), Legs(c) = Legs(d)
    PROVE  c = d
  <1> DEFINE L == Len(c)
  <1>1. PICK i \in 1 .. L : d = Rotated(c, i)
    BY SameLegsRotate
  <1>2. c \in Seq(EdgeIds) /\ c # << >>
    BY DEF Ring
  <1>3. L \in Nat /\ L > 0 /\ 1 \in 1 .. L
    BY <1>2, EmptySeq, LenProperties
  <1>4. Len(d) = L /\ d[1] = c[i]
    BY <1>1, RotationIsRing
  <1>5. PICK m \in 1 .. Len(StartAssets) :
          /\ From(c[1]) = StartAssets[m]
          /\ \A k \in 1 .. m - 1 : \A j \in 1 .. Len(c) : From(c[j]) # StartAssets[k]
    BY DEF StartsFirst
  <1>6. PICK n \in 1 .. Len(StartAssets) :
          /\ From(d[1]) = StartAssets[n]
          /\ \A k \in 1 .. n - 1 : \A j \in 1 .. Len(d) : From(d[j]) # StartAssets[k]
    BY DEF StartsFirst
  <1>7. ~(n < m)
    <2> SUFFICES ASSUME n < m PROVE FALSE
      OBVIOUS
    <2>1. n \in 1 .. m - 1
      BY <1>5, <1>6
    <2> QED BY <1>4, <1>5, <1>6, <2>1
  <1>8. ~(m < n)
    <2> SUFFICES ASSUME m < n PROVE FALSE
      OBVIOUS
    <2>1. m \in 1 .. n - 1
      BY <1>5, <1>6
    <2>2. PICK j \in 1 .. Len(d) : d[j] = c[1]
      <3>1. DOMAIN c = 1 .. L /\ c[1] \in Legs(c)
        <4>1. DOMAIN c = 1 .. L
          BY <1>2, LenProperties
        <4> QED BY <1>3, <4>1 DEF Legs, ToSet
      <3>2. DOMAIN d = 1 .. Len(d)
        <4>1. d \in Seq(EdgeIds)
          BY DEF Ring
        <4> QED BY <4>1, LenProperties
      <3>3. c[1] \in ToSet(d)
        BY <3>1 DEF Legs
      <3> QED BY <3>2, <3>3 DEF ToSet
    <2> QED BY <1>5, <1>6, <2>1, <2>2
  <1>9. m = n
    BY <1>7, <1>8
  <1>10. i = 1
    <2>1. From(c[i]) = From(c[1])
      BY <1>4, <1>5, <1>6, <1>9
    <2> QED BY <1>3, <2>1 DEF Ring
  <1>11. /\ d \in Seq(EdgeIds)
         /\ \A j \in 1 .. L : d[j] = c[IF j <= L - i + 1 THEN i + j - 1 ELSE j - (L - i + 1)]
    <2> HIDE DEF L
    <2> QED BY <1>1, <1>2, RotatedIs DEF L
  <1>12. \A j \in 1 .. L : d[j] = c[j]
    BY <1>3, <1>10, <1>11
  <1>13. d = [j \in 1 .. L |-> d[j]] /\ c = [j \in 1 .. L |-> c[j]]
    BY <1>2, <1>4, <1>11, LenProperties
  <1> HIDE DEF L
  <1> QED BY <1>12, <1>13

\* The first way a trade is written down is from its first start asset.
LEMMA DistinctAre ==
    ASSUME NEW usable \in SUBSET EdgeIds, NEW c \in Distinct(usable)
    PROVE  Tradable(c) /\ StartsFirst(c)
  <1>1. PICK k \in 1 .. Len(StartAssets) :
          /\ c \in ClosedFrom(StartAssets[k], usable)
          /\ ~\E j \in 1 .. k - 1 : \E d \in ClosedFrom(StartAssets[j], usable) : SameTrade(c, d)
    BY DEF Distinct
  <1>2. StartAssets[k] \in ToSet(StartAssets)
    <2>1. DOMAIN StartAssets = 1 .. Len(StartAssets)
      BY SearchAssumption, LenProperties
    <2> QED BY <2>1 DEF ToSet
  <1> DEFINE start == StartAssets[k]
  <1> HIDE DEF start
  <1>3. c \in ClosedFrom(start, usable)
    BY <1>1 DEF start
  <1>4. /\ Ring(c) /\ Len(c) \in MinLength .. MaxLength /\ From(c[1]) = start
        /\ Legs(c) \subseteq usable /\ OnItsVenue(c, Len(c))
    BY <1>3, ClosedIsRing
  <1>5. ASSUME NEW j \in 1 .. k - 1, NEW i \in 1 .. Len(c) PROVE From(c[i]) # StartAssets[j]
    <2> SUFFICES ASSUME From(c[i]) = StartAssets[j] PROVE FALSE
      OBVIOUS
    <2> DEFINE r == Rotated(c, i)
    <2>1. Ring(r) /\ Len(r) = Len(c) /\ r[1] = c[i] /\ Legs(r) = Legs(c)
      BY <1>4, RotationIsRing
    <2> HIDE DEF r
    <2>2. OnItsVenue(r, Len(r))
      <3> SUFFICES ASSUME ~CrossVenue, NEW h \in 1 .. Len(r) PROVE Venue(r[h]) = Venue(r[1])
        BY DEF OnItsVenue
      <3>1. DOMAIN r = 1 .. Len(r) /\ DOMAIN c = 1 .. Len(c) /\ Len(c) \in Nat
        BY <1>4, <2>1, LenProperties DEF Ring
      <3>2. r[h] \in ToSet(c) /\ r[1] \in ToSet(c)
        <4>1. r[h] \in ToSet(r)
          BY <3>1 DEF ToSet
        <4>2. r[1] \in ToSet(c)
          BY <2>1, <3>1 DEF ToSet
        <4> QED BY <2>1, <4>1, <4>2 DEF Legs
      <3>3. \A x \in ToSet(c) : Venue(x) = Venue(c[1])
        BY <1>4, <3>1 DEF OnItsVenue, ToSet
      <3> QED BY <3>2, <3>3
    <2>3. r \in ClosedFrom(From(r[1]), usable)
      BY <1>4, <2>1, <2>2, RingIsClosed
    <2>4. r \in ClosedFrom(StartAssets[j], usable)
      BY <2>1, <2>3
    <2> QED BY <1>1, <2>1, <2>4 DEF SameTrade
  <1>6. StartsFirst(c)
    BY <1>4, <1>5 DEF StartsFirst, start
  <1> QED BY <1>2, <1>4, <1>6, TradableIsRing DEF start

-----------------------------------------------------------------------------
(* What is looked at first. *)

LEMMA GainTyped ==
    ASSUME MoodsTyped, NEW c \in Seq(EdgeIds)
    PROVE  GainOf(c) \in Int
  <1> DEFINE g == GainsOf(c)
  <1>1. Len(c) \in Nat /\ \A j \in 1 .. Len(c) : c[j] \in EdgeIds /\ Gain(c[j]) \in Int
    BY LenProperties, ElementOfSeq, EdgeFacts
  <1>2. g \in Seq(Int)
    BY <1>1 DEF GainsOf
  <1> HIDE DEF g
  <1>3. SumSeq(g) \in Int
    <2>1. PICK f \in [0 .. Len(g) -> Int] : SumsUp(f, g) /\ SumSeq(g) = f[Len(g)]
      BY <1>2, SumExists
    <2>2. Len(g) \in 0 .. Len(g)
      BY <1>2, LenProperties
    <2> QED BY <2>1, <2>2
  <1> QED BY <1>3 DEF GainOf, GainsOf, g

LEMMA CyclesAreFinite ==
    ASSUME NEW S \in SUBSET Seq(EdgeIds), \A c \in S : Len(c) <= MaxLength
    PROVE  IsFiniteSet(S)
  <1> DEFINE P == (1 .. MaxLength) \X EdgeIds
             Graph(c) == {<<i, c[i]>> : i \in 1 .. Len(c)}
             f == [c \in S |-> Graph(c)]
  <1>1. MaxLength \in Nat /\ Len(Pairs) \in Nat
    BY SearchAssumption, PairsCounted
  <1>2. IsFiniteSet(SUBSET P)
    <2>1. IsFiniteSet(1 .. MaxLength)
      <3>1. 1 \in Int /\ MaxLength \in Int
        BY <1>1
      <3> QED BY <3>1, FS_Interval
    <2>2. IsFiniteSet(EdgeIds)
      <3>1. 1 \in Int /\ 2 * Len(Pairs) \in Int
        BY <1>1
      <3> QED BY <3>1, FS_Interval DEF EdgeIds
    <2>3. IsFiniteSet(P)
      BY <2>1, <2>2, FS_Product
    <2> HIDE DEF P
    <2> QED BY <2>3, FS_SUBSET
  <1>3. ASSUME NEW c \in S
        PROVE  /\ Len(c) \in Nat /\ c = [i \in 1 .. Len(c) |-> c[i]]
               /\ \A i \in 1 .. Len(c) : i \in 1 .. MaxLength /\ c[i] \in EdgeIds
    <2>1. c \in Seq(EdgeIds) /\ Len(c) <= MaxLength
      OBVIOUS
    <2>2. Len(c) \in Nat /\ DOMAIN c = 1 .. Len(c) /\ c = [i \in 1 .. Len(c) |-> c[i]]
      BY <2>1, LenProperties
    <2>3. \A i \in 1 .. Len(c) : c[i] \in EdgeIds
      BY <2>1, ElementOfSeq
    <2> QED BY <1>1, <2>1, <2>2, <2>3
  <1>4. ASSUME NEW c \in S PROVE Graph(c) \in SUBSET P
    BY <1>3
  <1>5. ASSUME NEW c \in S, NEW d \in S, Graph(c) = Graph(d) PROVE c = d
    <2>1. ASSUME NEW i \in 1 .. Len(c) PROVE i \in 1 .. Len(d) /\ d[i] = c[i]
      <3>1. <<i, c[i]>> \in Graph(d)
        BY <1>5
      <3> QED BY <3>1
    <2>2. ASSUME NEW i \in 1 .. Len(d) PROVE i \in 1 .. Len(c)
      <3>1. <<i, d[i]>> \in Graph(c)
        BY <1>5
      <3> QED BY <3>1
    <2>3. Len(c) = Len(d)
      <3>1. Len(c) \in Nat /\ Len(d) \in Nat
        BY <1>3
      <3>2. Len(c) <= Len(d)
        <4>1. CASE Len(c) = 0
          BY <3>1, <4>1
        <4>2. CASE Len(c) # 0
          <5>1. Len(c) \in 1 .. Len(c)
            BY <3>1, <4>2
          <5>2. Len(c) \in 1 .. Len(d)
            BY <2>1, <5>1
          <5> QED BY <3>1, <5>2
        <4> QED BY <4>1, <4>2
      <3>3. Len(d) <= Len(c)
        <4>1. CASE Len(d) = 0
          BY <3>1, <4>1
        <4>2. CASE Len(d) # 0
          <5>1. Len(d) \in 1 .. Len(d)
            BY <3>1, <4>2
          <5>2. Len(d) \in 1 .. Len(c)
            BY <2>2, <5>1
          <5> QED BY <3>1, <5>2
        <4> QED BY <4>1, <4>2
      <3> QED BY <3>1, <3>2, <3>3
    <2>4. c = [i \in 1 .. Len(c) |-> c[i]] /\ d = [i \in 1 .. Len(d) |-> d[i]]
      BY <1>3
    <2> QED BY <2>1, <2>3, <2>4
  <1>6. f \in Injection(S, SUBSET P)
    <2> HIDE DEF P, Graph
    <2> QED BY <1>4, <1>5 DEF Injection, IsInjective
  <1> HIDE DEF f, P
  <1> QED BY <1>2, <1>6, FS_Injection

LEMMA EnumeratedAre ==
    ASSUME NEW usable \in SUBSET EdgeIds, NEW c \in Enumerated(usable)
    PROVE  Tradable(c) /\ StartsFirst(c)
  <1>1. c \in Distinct(usable)
    BY DEF Enumerated
  <1> QED BY <1>1, DistinctAre

\* Short of the cap, every trade is kept.
LEMMA UnlessTruncated ==
    ASSUME NEW usable \in SUBSET EdgeIds, ~Truncates(usable)
    PROVE  Enumerated(usable) = Distinct(usable)
  <1> DEFINE all == Distinct(usable)  Earlier(c) == {d \in all : FoundBefore(d, c)}
  <1>1. all \in SUBSET Seq(EdgeIds) /\ \A c \in all : Len(c) <= MaxLength
    <2> SUFFICES ASSUME NEW c \in all PROVE c \in Seq(EdgeIds) /\ Len(c) <= MaxLength
      OBVIOUS
    <2>1. Tradable(c)
      BY DistinctAre
    <2> HIDE DEF all
    <2>2. c \in Seq(EdgeIds) /\ Len(c) \in MinLength .. MaxLength
      BY <2>1, Zenon DEF Tradable
    <2>3. MinLength \in Nat /\ MaxLength \in Nat
      BY SearchAssumption
    <2> QED BY <2>2, <2>3
  <1>2. IsFiniteSet(all)
    <2> HIDE DEF all
    <2> QED BY <1>1, CyclesAreFinite
  <1>3. Cardinality(all) \in Nat /\ MaxTemplates \in Nat /\ Cardinality(all) < MaxTemplates
    <2>1. Cardinality(all) \in Nat
      BY <1>2, FS_CardinalityType
    <2>2. MaxTemplates \in Nat /\ ~(MaxTemplates <= Cardinality(all))
      BY SearchAssumption DEF Truncates
    <2> HIDE DEF all
    <2> QED BY <2>1, <2>2
  <1>4. ASSUME NEW c \in all PROVE Cardinality(Earlier(c)) < MaxTemplates
    <2>1. Earlier(c) \in SUBSET all
      OBVIOUS
    <2> HIDE DEF all, Earlier
    <2>2. IsFiniteSet(Earlier(c)) /\ Cardinality(Earlier(c)) <= Cardinality(all)
      BY <1>2, <2>1, FS_Subset
    <2>3. Cardinality(Earlier(c)) \in Nat
      BY <2>2, FS_CardinalityType
    <2> QED BY <1>3, <2>2, <2>3
  <1> QED BY <1>4 DEF Enumerated

LEMMA FiniteHasBest ==
    ASSUME NEW S, IsFiniteSet(S), S # {}, NEW g \in [S -> Int]
    PROVE  \E c \in S : \A d \in S : g[c] >= g[d]
  <1>1. PICK N \in Nat : ExistsSurjection(1 .. N, S)
    BY FS_NatSurjection
  <1>2. PICK f \in [1 .. N -> S] : \A c \in S : \E i \in 1 .. N : f[i] = c
    BY <1>1 DEF ExistsSurjection, Surjection
  <1>3. N >= 1
    BY <1>2
  <1> DEFINE Good == {n \in Nat : \E c \in S : \A i \in 1 .. n : g[c] >= g[f[i]]}
  <1>4. 1 \in Good
    <2>1. f[1] \in S /\ g[f[1]] \in Int
      BY <1>2, <1>3
    <2>2. \A i \in 1 .. 1 : g[f[1]] >= g[f[i]]
      BY <2>1
    <2> QED BY <2>1, <2>2
  <1>5. ASSUME NEW n \in 1 .. N, n < N, n \in Good PROVE n + 1 \in Good
    <2>1. PICK c \in S : \A i \in 1 .. n : g[c] >= g[f[i]]
      BY <1>5
    <2> DEFINE d == f[n + 1]
    <2>2. n + 1 \in 1 .. N /\ n + 1 \in Nat
      BY <1>5
    <2>3. d \in S
      BY <1>2, <2>2
    <2>4. \A i \in 1 .. n : f[i] \in S
      BY <1>2
    <2>5. g[c] \in Int /\ g[d] \in Int /\ \A i \in 1 .. n : g[f[i]] \in Int
      <3> HIDE DEF d
      <3> QED BY <2>3, <2>4
    <2>6. CASE g[c] >= g[d]
      <3>1. \A i \in 1 .. n + 1 : g[c] >= g[f[i]]
        BY <2>1, <2>2, <2>6
      <3> QED BY <2>2, <3>1
    <2>7. CASE ~(g[c] >= g[d])
      <3>1. ASSUME NEW i \in 1 .. n + 1 PROVE g[d] >= g[f[i]]
        <4>1. CASE i = n + 1
          BY <2>5, <4>1
        <4>2. CASE i \in 1 .. n
          <5>1. g[c] >= g[f[i]] /\ g[f[i]] \in Int
            BY <2>1, <2>5, <4>2
          <5> DEFINE x == g[f[i]]  y == g[d]  z == g[c]
          <5>2. z >= x /\ ~(z >= y) /\ x \in Int /\ y \in Int /\ z \in Int
            BY <2>5, <2>7, <5>1
          <5> HIDE DEF x, y, z
          <5>3. y >= x
            BY <5>2
          <5> QED BY <5>3 DEF x, y
        <4> QED BY <4>1, <4>2
      <3> HIDE DEF d
      <3> QED BY <2>2, <2>3, <3>1
    <2> QED BY <2>6, <2>7
  <1>6. N \in Good
    <2> HIDE DEF Good
    <2>1. 1 \in Nat /\ N \in 1 .. N
      BY <1>3
    <2>2. \A n \in 1 .. N : n \in Good
      BY <1>4, <1>5, <2>1, IntervalInduction
    <2> QED BY <2>1, <2>2
  <1>7. PICK c \in S : \A i \in 1 .. N : g[c] >= g[f[i]]
    BY <1>6
  <1> QED BY <1>2, <1>7

GainIn(S) == [c \in S |-> GainOf(c)]
BestOf(S, rest) == CHOOSE c \in rest : \A d \in rest : GainIn(S)[c] >= GainIn(S)[d]

LEMMA BestIsIn ==
    ASSUME MoodsTyped, NEW S \in SUBSET Seq(EdgeIds), IsFiniteSet(S), NEW rest \in SUBSET S, rest # {}
    PROVE  BestOf(S, rest) \in rest
  <1> DEFINE g == GainIn(S)  h == [c \in rest |-> g[c]]
  <1>1. g \in [S -> Int]
    BY GainTyped DEF GainIn
  <1> HIDE DEF g
  <1>2. h \in [rest -> Int] /\ \A c \in rest : h[c] = g[c]
    BY <1>1
  <1> HIDE DEF h
  <1>3. IsFiniteSet(rest)
    BY FS_Subset
  <1>4. \E c \in rest : \A d \in rest : h[c] >= h[d]
    BY <1>2, <1>3, FiniteHasBest
  <1>5. \E c \in rest : \A d \in rest : g[c] >= g[d]
    BY <1>2, <1>4
  <1> QED BY <1>5 DEF BestOf, g

BestUpTo(f, S) ==
    f[0] = << >> /\ \A n \in 1 .. Cardinality(S) : f[n] = Append(f[n - 1], BestOf(S, S \ ToSet(f[n - 1])))

LEMMA BestFirstRuns ==
    ASSUME MoodsTyped, NEW S \in SUBSET Seq(EdgeIds), IsFiniteSet(S)
    PROVE  \E f : BestUpTo(f, S) /\ BestFirst(S) = f[Cardinality(S)]
  <1> DEFINE N == Cardinality(S)  T == Seq(S \cup {BestOf(S, {})})  base == << >>
             After(before) == Append(before, BestOf(S, S \ ToSet(before)))
             Loop(f) == f = [n \in 0 .. N |-> IF n = 0 THEN << >> ELSE After(f[n - 1])]
             step == [p \in (1 .. N) \X T |-> After(p[2])]
  <1>1. N \in Nat /\ base \in T
    BY FS_CardinalityType, EmptySeq
  <1>2. step \in [(1 .. N) \X T -> T]
    <2>1. ASSUME NEW q \in T PROVE After(q) \in T
      <3>1. BestOf(S, S \ ToSet(q)) \in S \cup {BestOf(S, {})}
        <4> DEFINE rest == S \ ToSet(q)
        <4>1. rest \in SUBSET S
          OBVIOUS
        <4> HIDE DEF rest
        <4>2. BestOf(S, rest) \in S \cup {BestOf(S, {})}
          <5>1. CASE rest = {}
            BY <5>1
          <5>2. CASE rest # {}
            <6>1. BestOf(S, rest) \in rest
              BY <4>1, <5>2, BestIsIn
            <6> QED BY <4>1, <6>1
          <5> QED BY <5>1, <5>2
        <4> QED BY <4>2 DEF rest
      <3> QED BY <3>1
    <2> HIDE DEF N, T, After
    <2> QED BY <2>1
  <1>3. PICK f : f \in [0 .. N -> T] /\ f[0] = base /\ \A n \in 1 .. N : f[n] = step[<<n, f[n - 1]>>]
    <2> HIDE DEF N, T, base, step
    <2>1. \E f : Runs(f, N, T, base, step)
      BY <1>1, <1>2, LoopRuns
    <2> QED BY <2>1 DEF Runs
  <1>4. Loop(f)
    <2>1. ASSUME NEW n \in 0 .. N PROVE f[n] = IF n = 0 THEN << >> ELSE After(f[n - 1])
      <3>1. CASE n # 0
        <4> HIDE DEF T, N, After
        <4>1. n \in 1 .. N /\ n - 1 \in 0 .. N
          BY <1>1, <3>1
        <4> DEFINE last == f[n - 1]
        <4>2. last \in T
          BY <1>3, <4>1
        <4>3. f[n] = step[<<n, last>>]
          <5> HIDE DEF step
          <5> QED BY <1>3, <4>1
        <4> HIDE DEF last
        <4>4. <<n, last>> \in (1 .. N) \X T
          BY <4>1, <4>2
        <4>5. step[<<n, last>>] = After(last)
          BY <4>4
        <4> HIDE DEF step
        <4> QED BY <3>1, <4>3, <4>5 DEF last
      <3>2. CASE n = 0
        <4> HIDE DEF step, T, N, After
        <4> QED BY <1>3, <3>2
      <3> QED BY <3>1, <3>2
    <2> HIDE DEF step, T, N, After
    <2>2. f = [n \in 0 .. N |-> f[n]]
      BY <1>3
    <2> QED BY <2>1, <2>2
  <1> DEFINE sorted == CHOOSE g : Loop(g)
  <1>5. Loop(sorted)
    <2> HIDE DEF Loop
    <2> QED BY <1>4
  <1>6. BestFirst(S) = sorted[N]
    BY DEF BestFirst, BestOf, GainIn
  <1> HIDE DEF sorted
  <1>7. \A n \in 0 .. N : sorted[n] = IF n = 0 THEN << >> ELSE After(sorted[n - 1])
    <2> HIDE DEF After
    <2> QED BY <1>5
  <1> HIDE DEF Loop
  <1>8. BestUpTo(sorted, S)
    <2>1. 0 \in 0 .. N /\ \A n \in 1 .. N : n \in 0 .. N /\ n # 0
      BY <1>1
    <2> QED BY <1>7, <2>1 DEF BestUpTo
  <1> QED BY <1>6, <1>8

\* Each cycle once, whatever the order.
LEMMA BestFirstIs ==
    ASSUME MoodsTyped, NEW S \in SUBSET Seq(EdgeIds), IsFiniteSet(S)
    PROVE  /\ BestFirst(S) \in Seq(S) /\ Len(BestFirst(S)) = Cardinality(S)
           /\ \A c \in S : \E i \in 1 .. Cardinality(S) : BestFirst(S)[i] = c
  <1> DEFINE N == Cardinality(S)
  <1>1. N \in Nat
    BY FS_CardinalityType
  <1>2. PICK f : BestUpTo(f, S) /\ BestFirst(S) = f[N]
    BY BestFirstRuns
  <1> DEFINE Once(s, n) == s \in Seq(S) /\ Len(s) = n /\ \A i, j \in 1 .. n : s[i] = s[j] => i = j
             Good == {n \in Nat : Once(f[n], n)}
  <1>3. 0 \in Good
    <2>1. << >> \in Seq(S) /\ Len(<< >>) = 0
      BY EmptySeq
    <2>2. f[0] = << >>
      BY <1>2 DEF BestUpTo
    <2>3. Once(<< >>, 0)
      BY <2>1
    <2> HIDE DEF Once
    <2> QED BY <2>2, <2>3
  <1>4. ASSUME NEW n \in 0 .. N, n < N, n \in Good PROVE n + 1 \in Good
    <2> DEFINE s == f[n]  rest == S \ ToSet(s)  c == BestOf(S, rest)
    <2>1. s \in Seq(S) /\ Len(s) = n /\ (\A i, j \in 1 .. n : s[i] = s[j] => i = j) /\ n \in Nat
      BY <1>4
    <2>2. f[n + 1] = Append(s, c)
      <3> DEFINE k == n + 1
      <3>1. k \in 1 .. N
        BY <1>1, <1>4
      <3> HIDE DEF k
      <3>2. f[k] = Append(f[k - 1], BestOf(S, S \ ToSet(f[k - 1])))
        BY <1>2, <3>1 DEF BestUpTo
      <3>3. k - 1 = n
        BY <2>1 DEF k
      <3> QED BY <3>2, <3>3 DEF k
    <2> HIDE DEF s
    <2>3. ToSet(s) = {s[i] : i \in 1 .. n} /\ \A i \in 1 .. n : s[i] \in S
      BY <2>1, LenProperties, ElementOfSeq DEF ToSet
    <2>4. rest # {}
      <3> SUFFICES ASSUME rest = {} PROVE FALSE
        OBVIOUS
      <3>1. S = ToSet(s)
        BY <2>3
      <3> DEFINE g == [i \in 1 .. n |-> s[i]]
      <3>2. g \in Surjection(1 .. n, S)
        BY <2>3, <3>1 DEF Surjection
      <3>3. Cardinality(S) <= n
        BY <2>1, <3>2, FS_SurjCardinalityBound DEF ExistsSurjection
      <3> QED BY <1>1, <1>4, <2>1, <3>3
    <2>5. c \in rest /\ rest \in SUBSET S
      <3>1. rest \in SUBSET S
        OBVIOUS
      <3> HIDE DEF rest
      <3> QED BY <2>4, <3>1, BestIsIn
    <2>6. c \in S /\ \A i \in 1 .. n : c # s[i]
      <3> HIDE DEF c
      <3> QED BY <2>3, <2>5
    <2> HIDE DEF c, rest
    <2> DEFINE t == Append(s, c)
    <2>7. t \in Seq(S) /\ Len(t) = n + 1 /\ t[n + 1] = c /\ \A i \in 1 .. n : t[i] = s[i]
      BY <2>1, <2>6
    <2> HIDE DEF t
    <2>8. ASSUME NEW i \in 1 .. n + 1, NEW j \in 1 .. n + 1, t[i] = t[j] PROVE i = j
      <3>1. CASE i \in 1 .. n /\ j \in 1 .. n
        BY <2>1, <2>7, <2>8, <3>1
      <3>2. CASE i = n + 1 /\ j \in 1 .. n
        BY <2>6, <2>7, <2>8, <3>2
      <3>3. CASE j = n + 1 /\ i \in 1 .. n
        BY <2>6, <2>7, <2>8, <3>3
      <3> QED BY <3>1, <3>2, <3>3
    <2>9. Once(f[n + 1], n + 1)
      BY <2>2, <2>7, <2>8 DEF t
    <2> HIDE DEF Once
    <2> QED BY <2>1, <2>9
  <1>5. \A n \in 0 .. N : n \in Good
    <2> HIDE DEF Good, N
    <2>1. 0 \in Nat
      OBVIOUS
    <2> QED BY <1>1, <1>3, <1>4, <2>1, IntervalInduction
  <1> DEFINE s == BestFirst(S)
  <1>6. Once(s, N)
    <2>1. N \in 0 .. N
      BY <1>1
    <2>2. N \in Good
      <3> HIDE DEF Good, N
      <3> QED BY <1>5, <2>1
    <2> HIDE DEF Once, N
    <2> QED BY <1>2, <2>2
  <1> HIDE DEF s
  <1>7. ASSUME NEW c \in S PROVE \E i \in 1 .. N : s[i] = c
    <2> DEFINE R == {s[i] : i \in 1 .. N}  g == [i \in 1 .. N |-> s[i]]
    <2>1. \A i \in 1 .. N : s[i] \in S
      BY <1>6, ElementOfSeq
    <2>2. R \in SUBSET S
      BY <2>1
    <2>3. g \in Bijection(1 .. N, R)
      <3>1. g \in [1 .. N -> R] /\ \A i, j \in 1 .. N : g[i] = g[j] => i = j
        BY <1>6
      <3>2. \A x \in R : \E i \in 1 .. N : g[i] = x
        OBVIOUS
      <3> HIDE DEF g, R, N
      <3> QED BY <3>1, <3>2 DEF Bijection, Injection, Surjection, IsInjective
    <2> HIDE DEF g
    <2>4. Cardinality(R) = N
      <3> HIDE DEF R, N
      <3> QED BY <1>1, <2>3, FS_CountingElements DEF ExistsBijection
    <2>5. S = R
      <3> HIDE DEF R
      <3> QED BY <2>2, <2>4, FS_Subset
    <2> QED BY <2>5
  <1> QED BY <1>6, <1>7 DEF s

-----------------------------------------------------------------------------
(* What is offered. *)

Offers(out, cycles, k, cooling) ==
    IF Len(out) >= MaxPerScan \/ KeyOf(cycles[k]) \in cooling \cup KeysOf(out) THEN out ELSE Append(out, cycles[k])

EmitsUpTo(f, before, cycles, cooling) ==
    f[0] = before /\ \A k \in 1 .. Len(cycles) : f[k] = Offers(f[k - 1], cycles, k, cooling)

LEMMA EmitRuns ==
    ASSUME NEW S, NEW before \in Seq(S), NEW cycles \in Seq(S), NEW cooling
    PROVE  \E f \in [0 .. Len(cycles) -> Seq(S)] :
              EmitsUpTo(f, before, cycles, cooling) /\ Emit(before, cycles, cooling) = f[Len(cycles)]
  <1> DEFINE N == Len(cycles)  T == Seq(S)
             Loop(f) == f = [k \in 0 .. N |-> IF k = 0 THEN before ELSE Offers(f[k - 1], cycles, k, cooling)]
             step == [p \in (1 .. N) \X T |-> Offers(p[2], cycles, p[1], cooling)]
  <1>1. N \in Nat /\ \A k \in 1 .. N : cycles[k] \in S
    BY LenProperties, ElementOfSeq
  <1>2. step \in [(1 .. N) \X T -> T]
    <2>1. ASSUME NEW q \in T, NEW k \in 1 .. N PROVE Offers(q, cycles, k, cooling) \in T
      <3>1. Append(q, cycles[k]) \in T
        BY <1>1
      <3> QED BY <3>1 DEF Offers
    <2> HIDE DEF N, T
    <2> QED BY <2>1
  <1>3. PICK f : f \in [0 .. N -> T] /\ f[0] = before /\ \A n \in 1 .. N : f[n] = step[<<n, f[n - 1]>>]
    <2> HIDE DEF N, step
    <2>1. \E f : Runs(f, N, T, before, step)
      BY <1>1, <1>2, LoopRuns
    <2> QED BY <2>1 DEF Runs
  <1>4. Loop(f)
    <2>1. ASSUME NEW n \in 0 .. N PROVE f[n] = IF n = 0 THEN before ELSE Offers(f[n - 1], cycles, n, cooling)
      <3>1. CASE n # 0
        <4> HIDE DEF T, N
        <4>1. n \in 1 .. N /\ n - 1 \in 0 .. N
          BY <1>1, <3>1
        <4> DEFINE last == f[n - 1]
        <4>2. last \in T
          BY <1>3, <4>1
        <4>3. f[n] = step[<<n, last>>]
          <5> HIDE DEF step
          <5> QED BY <1>3, <4>1
        <4> HIDE DEF last
        <4>4. <<n, last>> \in (1 .. N) \X T
          BY <4>1, <4>2
        <4>5. step[<<n, last>>] = Offers(last, cycles, n, cooling)
          BY <4>4
        <4> HIDE DEF step
        <4> QED BY <3>1, <4>3, <4>5 DEF last
      <3>2. CASE n = 0
        <4> HIDE DEF step, T, N
        <4> QED BY <1>3, <3>2
      <3> QED BY <3>1, <3>2
    <2> HIDE DEF step, T, N
    <2>2. f = [n \in 0 .. N |-> f[n]]
      BY <1>3
    <2> QED BY <2>1, <2>2
  <1> DEFINE out == CHOOSE g : Loop(g)
  <1>5. Loop(out)
    <2> HIDE DEF Loop
    <2> QED BY <1>4
  <1>6. Emit(before, cycles, cooling) = out[N]
    BY DEF Emit, Offers
  <1> HIDE DEF out
  <1>7. \A n \in 0 .. N : out[n] = IF n = 0 THEN before ELSE Offers(out[n - 1], cycles, n, cooling)
    BY <1>5
  <1>8. DOMAIN out = 0 .. N /\ out = [n \in 0 .. N |-> out[n]]
    BY <1>5
  <1> HIDE DEF Loop
  <1>9. EmitsUpTo(out, before, cycles, cooling)
    <2>1. 0 \in 0 .. N /\ \A n \in 1 .. N : n \in 0 .. N /\ n # 0
      BY <1>1
    <2> QED BY <1>7, <2>1 DEF EmitsUpTo
  <1> DEFINE Typed == {n \in Nat : out[n] \in T}
  <1>10. \A n \in 0 .. N : n \in Typed
    <2>1. 0 \in Typed
      BY <1>9 DEF EmitsUpTo
    <2>2. ASSUME NEW n \in 0 .. N, n < N, n \in Typed PROVE n + 1 \in Typed
      <3> DEFINE k == n + 1
      <3>1. k \in 1 .. N /\ k - 1 = n /\ k \in Nat
        BY <1>1, <2>2
      <3>2. out[n] \in T
        BY <2>2
      <3> HIDE DEF k
      <3>3. out[k] = Offers(out[n], cycles, k, cooling)
        BY <1>9, <3>1 DEF EmitsUpTo
      <3>4. out[k] \in T
        BY <1>1, <3>1, <3>2, <3>3 DEF Offers
      <3> QED BY <3>1, <3>4 DEF k
    <2> HIDE DEF Typed, N
    <2>3. 0 \in Nat
      OBVIOUS
    <2> QED BY <1>1, <2>1, <2>2, <2>3, IntervalInduction
  <1>11. out \in [0 .. N -> T]
    BY <1>8, <1>10
  <1> QED BY <1>6, <1>9, <1>11

-----------------------------------------------------------------------------
(* Bellman and Ford. *)

\* Every predecessor is a usable edge that goes to its asset.
SearchStates ==
    {s \in [dist : [TradedAssets -> Int], pred : [TradedAssets -> {None} \cup EdgeIds],
            last : TradedAssets \cup {Lost}, open : BOOLEAN] :
        \A a \in TradedAssets : s.pred[a] # None => s.pred[a] \in UsableNow /\ To(s.pred[a]) = a}

LEMMA NodesRun ==
    ASSUME NEW usable
    PROVE  \E f \in [0 .. 2 * Len(Pairs) -> Seq(TradedAssets)] :
              /\ f[0] = << >> /\ \A e \in 1 .. 2 * Len(Pairs) : f[e] = IF e \in usable /\ From(e) \notin ToSet(f[e - 1]) THEN Append(f[e - 1], From(e)) ELSE f[e - 1]
              /\ Nodes(usable) = f[2 * Len(Pairs)]
  <1> DEFINE N == 2 * Len(Pairs)  T == Seq(TradedAssets)  base == << >>
             After(s, i) == IF i \in usable /\ From(i) \notin ToSet(s) THEN Append(s, From(i)) ELSE s
             Loop(f) == f = [e \in 0 .. N |-> IF e = 0 THEN base ELSE After(f[e - 1], e)]
             step == [p \in (1 .. N) \X T |-> After(p[2], p[1])]
  <1>1. N \in Nat /\ base \in T
    BY PairsCounted, EmptySeq
  <1>2. ASSUME NEW s \in T, NEW i \in 1 .. N PROVE After(s, i) \in T
    <2>1. i \in EdgeIds
      BY DEF EdgeIds
    <2>2. From(i) \in TradedAssets
      BY <2>1, EdgeFacts
    <2>3. Append(s, From(i)) \in T
      BY <2>2
    <2> QED BY <2>3
  <1> HIDE DEF N, T, base, After
  <1>3. step \in [(1 .. N) \X T -> T]
    BY <1>2
  <1>4. PICK f : f \in [0 .. N -> T] /\ f[0] = base /\ \A n \in 1 .. N : f[n] = step[<<n, f[n - 1]>>]
    <2> HIDE DEF step
    <2>1. \E f : Runs(f, N, T, base, step)
      BY <1>1, <1>3, LoopRuns
    <2> QED BY <2>1 DEF Runs
  <1>5. Loop(f)
    <2>1. ASSUME NEW n \in 0 .. N PROVE f[n] = IF n = 0 THEN base ELSE After(f[n - 1], n)
      <3>1. CASE n # 0
        <4>1. n \in 1 .. N /\ n - 1 \in 0 .. N
          BY <1>1, <3>1
        <4> DEFINE last == f[n - 1]
        <4>2. last \in T /\ f[n] = step[<<n, last>>]
          <5> HIDE DEF step
          <5> QED BY <1>4, <4>1
        <4> HIDE DEF last
        <4>3. <<n, last>> \in (1 .. N) \X T
          BY <4>1, <4>2
        <4>4. step[<<n, last>>] = After(last, n)
          BY <4>3
        <4> HIDE DEF step
        <4> QED BY <3>1, <4>2, <4>4 DEF last
      <3>2. CASE n = 0
        <4> HIDE DEF step
        <4> QED BY <1>4, <3>2
      <3> QED BY <3>1, <3>2
    <2> HIDE DEF step
    <2>2. f = [n \in 0 .. N |-> f[n]]
      BY <1>4
    <2> QED BY <2>1, <2>2
  <1> DEFINE run == CHOOSE g : Loop(g)
  <1>6. Loop(run)
    <2> HIDE DEF Loop
    <2> QED BY <1>5
  <1>7. Nodes(usable) = run[N]
    BY DEF Nodes, N, base, After
  <1> HIDE DEF run
  <1>8. /\ run = [n \in 0 .. N |-> run[n]]
        /\ \A n \in 0 .. N : run[n] = IF n = 0 THEN base ELSE After(run[n - 1], n)
    BY <1>6
  <1> HIDE DEF Loop
  <1>9. run[0] = base /\ \A n \in 1 .. N : run[n] = After(run[n - 1], n)
    <2>1. 0 \in 0 .. N /\ \A n \in 1 .. N : n \in 0 .. N /\ n # 0
      BY <1>1
    <2> QED BY <1>8, <2>1
  <1> DEFINE Typed == {n \in Nat : run[n] \in T}
  <1>10. \A n \in 0 .. N : n \in Typed
    <2>1. 0 \in Typed
      BY <1>1, <1>9
    <2>2. ASSUME NEW n \in 0 .. N, n < N, n \in Typed PROVE n + 1 \in Typed
      <3> DEFINE m == n + 1
      <3>1. m \in 1 .. N /\ m - 1 = n /\ m \in Nat
        BY <1>1, <2>2
      <3> HIDE DEF m
      <3>2. run[m] = After(run[n], m) /\ run[n] \in T
        BY <1>9, <2>2, <3>1
      <3> QED BY <1>2, <3>1, <3>2 DEF m
    <2> HIDE DEF Typed
    <2>3. 0 \in Nat
      OBVIOUS
    <2> QED BY <1>1, <2>1, <2>2, <2>3, IntervalInduction
  <1>11. run \in [0 .. N -> T]
    BY <1>8, <1>10
  <1> QED BY <1>7, <1>9, <1>11 DEF N, T, base, After

LEMMA NodesTyped == \A usable : Nodes(usable) \in Seq(TradedAssets) /\ Len(Nodes(usable)) \in Nat
  <1> SUFFICES ASSUME NEW usable PROVE Nodes(usable) \in Seq(TradedAssets)
    BY LenProperties
  <1>1. PICK f \in [0 .. 2 * Len(Pairs) -> Seq(TradedAssets)] : Nodes(usable) = f[2 * Len(Pairs)]
    BY NodesRun
  <1>2. 2 * Len(Pairs) \in 0 .. 2 * Len(Pairs)
    BY PairsCounted
  <1> QED BY <1>1, <1>2

LEMMA JoinedTyped ==
    ASSUME NEW S, NEW parts \in Seq(Seq(S))
    PROVE  Joined(parts) \in Seq(S)
  <1>1. PICK f \in [0 .. Len(parts) -> Seq(S)] : Joined(parts) = f[Len(parts)]
    BY JoinedRuns
  <1>2. Len(parts) \in 0 .. Len(parts)
    BY LenProperties
  <1> QED BY <1>1, <1>2

LEMMA PassOrderTyped == PassOrder \in Seq(UsableNow)
  <1> DEFINE nodes == Nodes(UsableNow)
             Of(node) == [e \in EdgeIds |-> IF e \in UsableNow /\ From(e) = node THEN <<e>> ELSE << >>]
             From1(node) == Joined(Of(node))
  <1>1. ASSUME NEW node PROVE From1(node) \in Seq(UsableNow)
    <2> DEFINE parts == Of(node)
    <2>1. 2 * Len(Pairs) \in Nat
      BY PairsCounted
    <2>2. \A e \in 1 .. 2 * Len(Pairs) :
             (IF e \in UsableNow /\ From(e) = node THEN <<e>> ELSE << >>) \in Seq(UsableNow)
      BY EmptySeq
    <2>3. parts \in Seq(Seq(UsableNow))
      BY <2>1, <2>2 DEF EdgeIds
    <2> HIDE DEF parts
    <2> QED BY <2>3, JoinedTyped DEF parts
  <1> DEFINE lists == [k \in 1 .. Len(nodes) |-> From1(nodes[k])]
  <1>2. lists \in Seq(Seq(UsableNow))
    <2>1. Len(nodes) \in Nat
      BY NodesTyped
    <2> HIDE DEF From1, nodes
    <2> QED BY <1>1, <2>1
  <1>3. Joined(lists) \in Seq(UsableNow)
    <2> HIDE DEF lists
    <2> QED BY <1>2, JoinedTyped
  <1> QED BY <1>3 DEF PassOrder

LEMMA RelaxKeeps ==
    ASSUME MoodsTyped, NEW s \in SearchStates, NEW e \in UsableNow
    PROVE  Relax(s, e) \in SearchStates
  <1> DEFINE candidate == s.dist[From(e)] - Gain(e)
             t == [dist |-> [s.dist EXCEPT ![To(e)] = candidate],
                   pred |-> [s.pred EXCEPT ![To(e)] = e], last |-> To(e), open |-> s.open]
  <1>1. e \in EdgeIds
    BY DEF UsableNow
  <1>2. From(e) \in TradedAssets /\ To(e) \in TradedAssets /\ Gain(e) \in Int
    BY <1>1, EdgeFacts
  <1>3. /\ s.dist \in [TradedAssets -> Int] /\ s.pred \in [TradedAssets -> {None} \cup EdgeIds]
        /\ s.open \in BOOLEAN
        /\ \A a \in TradedAssets : s.pred[a] # None => s.pred[a] \in UsableNow /\ To(s.pred[a]) = a
    BY DEF SearchStates
  <1>4. candidate \in Int
    BY <1>2, <1>3
  <1> HIDE DEF candidate
  <1>5. /\ t.dist \in [TradedAssets -> Int] /\ t.pred \in [TradedAssets -> {None} \cup EdgeIds]
        /\ t.last \in TradedAssets /\ t.open \in BOOLEAN
    BY <1>1, <1>2, <1>3, <1>4
  <1>6. ASSUME NEW a \in TradedAssets, t.pred[a] # None PROVE t.pred[a] \in UsableNow /\ To(t.pred[a]) = a
    <2>1. CASE a = To(e)
      <3>1. t.pred[a] = e
        BY <1>2, <1>3, <2>1
      <3> QED BY <2>1, <3>1
    <2>2. CASE a # To(e)
      <3>1. t.pred[a] = s.pred[a]
        BY <1>3, <2>2
      <3> QED BY <1>3, <1>6, <3>1
    <2> QED BY <2>1, <2>2
  <1>7. t \in SearchStates
    <2>1. t \in [dist : [TradedAssets -> Int], pred : [TradedAssets -> {None} \cup EdgeIds],
                 last : TradedAssets \cup {Lost}, open : BOOLEAN]
      BY <1>5
    <2> HIDE DEF t
    <2> QED BY <1>6, <2>1 DEF SearchStates
  <1> HIDE DEF t
  <1>8. Relax(s, e) = t \/ Relax(s, e) = s
    BY DEF Relax, t, candidate
  <1> QED BY <1>7, <1>8

LEMMA MarkKeeps ==
    ASSUME NEW s \in SearchStates, NEW flag \in BOOLEAN
    PROVE  [s EXCEPT !.last = Lost] \in SearchStates /\ [s EXCEPT !.open = flag] \in SearchStates
  BY DEF SearchStates

LEMMA PassRun ==
    ASSUME MoodsTyped, NEW search \in SearchStates, NEW order \in Seq(UsableNow)
    PROVE  \E f \in [0 .. Len(order) -> SearchStates] :
              /\ f[0] = [search EXCEPT !.last = Lost] /\ \A k \in 1 .. Len(order) : f[k] = Relax(f[k - 1], order[k])
              /\ Pass(search, order) = [f[Len(order)] EXCEPT !.open = @ /\ f[Len(order)].last # Lost]
  <1> DEFINE N == Len(order)  T == SearchStates  base == [search EXCEPT !.last = Lost]
             After(s, i) == Relax(s, order[i])
             Loop(f) == f = [k \in 0 .. N |-> IF k = 0 THEN base ELSE After(f[k - 1], k)]
             step == [p \in (1 .. N) \X T |-> After(p[2], p[1])]
  <1>1. N \in Nat /\ base \in T
    BY LenProperties, MarkKeeps
  <1>2. ASSUME NEW s \in T, NEW i \in 1 .. N PROVE After(s, i) \in T
    <2>1. order[i] \in UsableNow
      BY ElementOfSeq
    <2> QED BY <2>1, RelaxKeeps
  <1> HIDE DEF N, T, base, After
  <1>3. step \in [(1 .. N) \X T -> T]
    BY <1>2
  <1>4. PICK f : f \in [0 .. N -> T] /\ f[0] = base /\ \A n \in 1 .. N : f[n] = step[<<n, f[n - 1]>>]
    <2> HIDE DEF step
    <2>1. \E f : Runs(f, N, T, base, step)
      BY <1>1, <1>3, LoopRuns
    <2> QED BY <2>1 DEF Runs
  <1>5. Loop(f)
    <2>1. ASSUME NEW n \in 0 .. N PROVE f[n] = IF n = 0 THEN base ELSE After(f[n - 1], n)
      <3>1. CASE n # 0
        <4>1. n \in 1 .. N /\ n - 1 \in 0 .. N
          BY <1>1, <3>1
        <4> DEFINE last == f[n - 1]
        <4>2. last \in T /\ f[n] = step[<<n, last>>]
          <5> HIDE DEF step
          <5> QED BY <1>4, <4>1
        <4> HIDE DEF last
        <4>3. <<n, last>> \in (1 .. N) \X T
          BY <4>1, <4>2
        <4>4. step[<<n, last>>] = After(last, n)
          BY <4>3
        <4> HIDE DEF step
        <4> QED BY <3>1, <4>2, <4>4 DEF last
      <3>2. CASE n = 0
        <4> HIDE DEF step
        <4> QED BY <1>4, <3>2
      <3> QED BY <3>1, <3>2
    <2> HIDE DEF step
    <2>2. f = [n \in 0 .. N |-> f[n]]
      BY <1>4
    <2> QED BY <2>1, <2>2
  <1> DEFINE run == CHOOSE g : Loop(g)
  <1>6. Loop(run)
    <2> HIDE DEF Loop
    <2> QED BY <1>5
  <1>7. Pass(search, order) = [run[N] EXCEPT !.open = @ /\ run[N].last # Lost]
    BY DEF Pass, N, base, After
  <1> HIDE DEF run
  <1>8. /\ run = [n \in 0 .. N |-> run[n]]
        /\ \A n \in 0 .. N : run[n] = IF n = 0 THEN base ELSE After(run[n - 1], n)
    BY <1>6
  <1> HIDE DEF Loop
  <1>9. run[0] = base /\ \A n \in 1 .. N : run[n] = After(run[n - 1], n)
    <2>1. 0 \in 0 .. N /\ \A n \in 1 .. N : n \in 0 .. N /\ n # 0
      BY <1>1
    <2> QED BY <1>8, <2>1
  <1> DEFINE Typed == {n \in Nat : run[n] \in T}
  <1>10. \A n \in 0 .. N : n \in Typed
    <2>1. 0 \in Typed
      BY <1>1, <1>9
    <2>2. ASSUME NEW n \in 0 .. N, n < N, n \in Typed PROVE n + 1 \in Typed
      <3> DEFINE m == n + 1
      <3>1. m \in 1 .. N /\ m - 1 = n /\ m \in Nat
        BY <1>1, <2>2
      <3> HIDE DEF m
      <3>2. run[m] = After(run[n], m) /\ run[n] \in T
        BY <1>9, <2>2, <3>1
      <3> QED BY <1>2, <3>1, <3>2 DEF m
    <2> HIDE DEF Typed
    <2>3. 0 \in Nat
      OBVIOUS
    <2> QED BY <1>1, <2>1, <2>2, <2>3, IntervalInduction
  <1>11. run \in [0 .. N -> T]
    BY <1>8, <1>10
  <1> QED BY <1>7, <1>9, <1>11 DEF N, T, base, After

LEMMA PassKeeps ==
    ASSUME MoodsTyped, NEW search \in SearchStates, NEW order \in Seq(UsableNow)
    PROVE  Pass(search, order) \in SearchStates
  <1>1. PICK f \in [0 .. Len(order) -> SearchStates] :
            Pass(search, order) = [f[Len(order)] EXCEPT !.open = @ /\ f[Len(order)].last # Lost]
    BY PassRun
  <1> DEFINE end == f[Len(order)]  flag == end.open /\ end.last # Lost
  <1>2. end \in SearchStates
    <2>1. Len(order) \in 0 .. Len(order)
      BY LenProperties
    <2> QED BY <2>1
  <1>3. flag \in BOOLEAN
    BY <1>2 DEF SearchStates
  <1>4. Pass(search, order) = [end EXCEPT !.open = flag]
    BY <1>1
  <1> HIDE DEF end, flag
  <1> QED BY <1>2, <1>3, <1>4, MarkKeeps

SearchStart ==
    [dist |-> [a \in TradedAssets |-> IF a \in ToSet(Nodes(UsableNow)) THEN 0 ELSE Far],
     pred |-> [a \in TradedAssets |-> None], last |-> Lost, open |-> TRUE]

LEMMA RelaxedRun ==
    ASSUME MoodsTyped
    PROVE  \E f \in [0 .. Len(Nodes(UsableNow)) -> SearchStates] :
              /\ f[0] = SearchStart /\ \A k \in 1 .. Len(Nodes(UsableNow)) : f[k] = Pass(f[k - 1], PassOrder)
              /\ Relaxed = f[Len(Nodes(UsableNow))]
  <1> DEFINE N == Len(Nodes(UsableNow))  T == SearchStates  base == SearchStart
             After(s, i) == Pass(s, PassOrder)
             Loop(f) == f = [k \in 0 .. N |-> IF k = 0 THEN base ELSE After(f[k - 1], k)]
             step == [p \in (1 .. N) \X T |-> After(p[2], p[1])]
  <1>1. N \in Nat /\ base \in T
    <2>1. SearchStart \in SearchStates
      BY DEF SearchStart, SearchStates, None, Far
    <2> QED BY <2>1, NodesTyped
  <1>2. ASSUME NEW s \in T, NEW i \in 1 .. N PROVE After(s, i) \in T
    BY PassKeeps, PassOrderTyped
  <1> HIDE DEF N, T, base, After
  <1>3. step \in [(1 .. N) \X T -> T]
    BY <1>2
  <1>4. PICK f : f \in [0 .. N -> T] /\ f[0] = base /\ \A n \in 1 .. N : f[n] = step[<<n, f[n - 1]>>]
    <2> HIDE DEF step
    <2>1. \E f : Runs(f, N, T, base, step)
      BY <1>1, <1>3, LoopRuns
    <2> QED BY <2>1 DEF Runs
  <1>5. Loop(f)
    <2>1. ASSUME NEW n \in 0 .. N PROVE f[n] = IF n = 0 THEN base ELSE After(f[n - 1], n)
      <3>1. CASE n # 0
        <4>1. n \in 1 .. N /\ n - 1 \in 0 .. N
          BY <1>1, <3>1
        <4> DEFINE last == f[n - 1]
        <4>2. last \in T /\ f[n] = step[<<n, last>>]
          <5> HIDE DEF step
          <5> QED BY <1>4, <4>1
        <4> HIDE DEF last
        <4>3. <<n, last>> \in (1 .. N) \X T
          BY <4>1, <4>2
        <4>4. step[<<n, last>>] = After(last, n)
          BY <4>3
        <4> HIDE DEF step
        <4> QED BY <3>1, <4>2, <4>4 DEF last
      <3>2. CASE n = 0
        <4> HIDE DEF step
        <4> QED BY <1>4, <3>2
      <3> QED BY <3>1, <3>2
    <2> HIDE DEF step
    <2>2. f = [n \in 0 .. N |-> f[n]]
      BY <1>4
    <2> QED BY <2>1, <2>2
  <1> DEFINE run == CHOOSE g : Loop(g)
  <1>6. Loop(run)
    <2> HIDE DEF Loop
    <2> QED BY <1>5
  <1>7. Relaxed = run[N]
    BY DEF Relaxed, SearchStart, N, base, After
  <1> HIDE DEF run
  <1>8. /\ run = [n \in 0 .. N |-> run[n]]
        /\ \A n \in 0 .. N : run[n] = IF n = 0 THEN base ELSE After(run[n - 1], n)
    BY <1>6
  <1> HIDE DEF Loop
  <1>9. run[0] = base /\ \A n \in 1 .. N : run[n] = After(run[n - 1], n)
    <2>1. 0 \in 0 .. N /\ \A n \in 1 .. N : n \in 0 .. N /\ n # 0
      BY <1>1
    <2> QED BY <1>8, <2>1
  <1> DEFINE Typed == {n \in Nat : run[n] \in T}
  <1>10. \A n \in 0 .. N : n \in Typed
    <2>1. 0 \in Typed
      BY <1>1, <1>9
    <2>2. ASSUME NEW n \in 0 .. N, n < N, n \in Typed PROVE n + 1 \in Typed
      <3> DEFINE m == n + 1
      <3>1. m \in 1 .. N /\ m - 1 = n /\ m \in Nat
        BY <1>1, <2>2
      <3> HIDE DEF m
      <3>2. run[m] = After(run[n], m) /\ run[n] \in T
        BY <1>9, <2>2, <3>1
      <3> QED BY <1>2, <3>1, <3>2 DEF m
    <2> HIDE DEF Typed
    <2>3. 0 \in Nat
      OBVIOUS
    <2> QED BY <1>1, <2>1, <2>2, <2>3, IntervalInduction
  <1>11. run \in [0 .. N -> T]
    BY <1>8, <1>10
  <1> QED BY <1>7, <1>9, <1>11 DEF N, T, base, After

LEMMA RelaxedTyped ==
    ASSUME MoodsTyped
    PROVE  Relaxed \in SearchStates
  <1> DEFINE N == Len(Nodes(UsableNow))
  <1>1. PICK f \in [0 .. N -> SearchStates] : Relaxed = f[N]
    BY RelaxedRun
  <1>2. N \in 0 .. N
    BY NodesTyped
  <1> HIDE DEF N
  <1> QED BY <1>1, <1>2

LEMMA WalkBackRun ==
    ASSUME NEW pred \in [TradedAssets -> {None} \cup EdgeIds], NEW entry \in TradedAssets \cup {Lost}, NEW steps \in Nat
    PROVE  \E f \in [0 .. steps -> TradedAssets \cup {Lost}] :
              /\ f[0] = entry /\ \A k \in 1 .. steps : f[k] = IF f[k - 1] = Lost \/ pred[f[k - 1]] = None THEN Lost ELSE From(pred[f[k - 1]])
              /\ WalkBack(pred, entry, steps) = f
  <1> DEFINE N == steps  T == TradedAssets \cup {Lost}  base == entry
             After(s, i) == IF s = Lost \/ pred[s] = None THEN Lost ELSE From(pred[s])
             Loop(f) == f = [k \in 0 .. N |-> IF k = 0 THEN base ELSE After(f[k - 1], k)]
             step == [p \in (1 .. N) \X T |-> After(p[2], p[1])]
  <1>1. N \in Nat /\ base \in T
    OBVIOUS
  <1>2. ASSUME NEW s \in T, NEW i \in 1 .. N PROVE After(s, i) \in T
    <2> SUFFICES ASSUME s # Lost, pred[s] # None PROVE From(pred[s]) \in TradedAssets
      OBVIOUS
    <2>1. pred[s] \in EdgeIds
      OBVIOUS
    <2> QED BY <2>1, EdgeFacts
  <1> HIDE DEF N, T, base, After
  <1>3. step \in [(1 .. N) \X T -> T]
    BY <1>2
  <1>4. PICK f : f \in [0 .. N -> T] /\ f[0] = base /\ \A n \in 1 .. N : f[n] = step[<<n, f[n - 1]>>]
    <2> HIDE DEF step
    <2>1. \E f : Runs(f, N, T, base, step)
      BY <1>1, <1>3, LoopRuns
    <2> QED BY <2>1 DEF Runs
  <1>5. Loop(f)
    <2>1. ASSUME NEW n \in 0 .. N PROVE f[n] = IF n = 0 THEN base ELSE After(f[n - 1], n)
      <3>1. CASE n # 0
        <4>1. n \in 1 .. N /\ n - 1 \in 0 .. N
          BY <1>1, <3>1
        <4> DEFINE last == f[n - 1]
        <4>2. last \in T /\ f[n] = step[<<n, last>>]
          <5> HIDE DEF step
          <5> QED BY <1>4, <4>1
        <4> HIDE DEF last
        <4>3. <<n, last>> \in (1 .. N) \X T
          BY <4>1, <4>2
        <4>4. step[<<n, last>>] = After(last, n)
          BY <4>3
        <4> HIDE DEF step
        <4> QED BY <3>1, <4>2, <4>4 DEF last
      <3>2. CASE n = 0
        <4> HIDE DEF step
        <4> QED BY <1>4, <3>2
      <3> QED BY <3>1, <3>2
    <2> HIDE DEF step
    <2>2. f = [n \in 0 .. N |-> f[n]]
      BY <1>4
    <2> QED BY <2>1, <2>2
  <1> DEFINE run == CHOOSE g : Loop(g)
  <1>6. Loop(run)
    <2> HIDE DEF Loop
    <2> QED BY <1>5
  <1>7. WalkBack(pred, entry, steps) = run
    BY DEF WalkBack, N, base, After
  <1> HIDE DEF run
  <1>8. /\ run = [n \in 0 .. N |-> run[n]]
        /\ \A n \in 0 .. N : run[n] = IF n = 0 THEN base ELSE After(run[n - 1], n)
    BY <1>6
  <1> HIDE DEF Loop
  <1>9. run[0] = base /\ \A n \in 1 .. N : run[n] = After(run[n - 1], n)
    <2>1. 0 \in 0 .. N /\ \A n \in 1 .. N : n \in 0 .. N /\ n # 0
      BY <1>1
    <2> QED BY <1>8, <2>1
  <1> DEFINE Typed == {n \in Nat : run[n] \in T}
  <1>10. \A n \in 0 .. N : n \in Typed
    <2>1. 0 \in Typed
      BY <1>1, <1>9
    <2>2. ASSUME NEW n \in 0 .. N, n < N, n \in Typed PROVE n + 1 \in Typed
      <3> DEFINE m == n + 1
      <3>1. m \in 1 .. N /\ m - 1 = n /\ m \in Nat
        BY <1>1, <2>2
      <3> HIDE DEF m
      <3>2. run[m] = After(run[n], m) /\ run[n] \in T
        BY <1>9, <2>2, <3>1
      <3> QED BY <1>2, <3>1, <3>2 DEF m
    <2> HIDE DEF Typed
    <2>3. 0 \in Nat
      OBVIOUS
    <2> QED BY <1>1, <2>1, <2>2, <2>3, IntervalInduction
  <1>11. run \in [0 .. N -> T]
    BY <1>8, <1>10
  <1> QED BY <1>7, <1>9, <1>11 DEF N, T, base, After

LEMMA LeastIsIn ==
    ASSUME NEW T \in SUBSET Nat, T # {}
    PROVE  Min(T) \in T /\ \A x \in T : Min(T) <= x
  <1>1. \E x \in T : \A y \in T : x <= y
    BY LeastNatural
  <1> QED BY <1>1 DEF Min

\* What is walked back over until an asset repeats is a ring of usable edges.
LEMMA ExtractIsRing ==
    ASSUME NEW search \in SearchStates, NEW entry \in TradedAssets, ExtractCycle(search, entry) # << >>
    PROVE  Ring(ExtractCycle(search, entry)) /\ ExtractCycle(search, entry) \in Seq(UsableNow)
  <1> DEFINE pred == search.pred
             at == WalkBack(search.pred, entry, MaxLength + 3)
             repeats == {k \in 1 .. MaxLength + 3 : at[k] # Lost /\ \E j \in 0 .. k - 1 : at[j] = at[k]}
             again == Min(repeats)
             first == CHOOSE j \in 0 .. again - 1 : at[j] = at[again]
             c == [i \in 1 .. again - first |-> search.pred[at[again - i]]]
  <1>1. repeats # {} /\ ExtractCycle(search, entry) = c
    BY DEF ExtractCycle
  <1>2. MaxLength \in Nat /\ MaxLength + 3 \in Nat
    BY SearchAssumption
  <1>3. /\ pred \in [TradedAssets -> {None} \cup EdgeIds]
        /\ \A a \in TradedAssets : pred[a] # None => pred[a] \in UsableNow /\ To(pred[a]) = a
    BY DEF SearchStates
  <1>4. /\ at \in [0 .. MaxLength + 3 -> TradedAssets \cup {Lost}]
        /\ \A k \in 1 .. MaxLength + 3 :
              at[k] = IF at[k - 1] = Lost \/ pred[at[k - 1]] = None THEN Lost ELSE From(pred[at[k - 1]])
    <2> DEFINE N == MaxLength + 3
    <2>1. N \in Nat /\ pred \in [TradedAssets -> {None} \cup EdgeIds] /\ entry \in TradedAssets \cup {Lost}
      BY <1>2, <1>3
    <2> HIDE DEF N, pred
    <2>2. PICK f \in [0 .. N -> TradedAssets \cup {Lost}] :
            /\ f[0] = entry
            /\ \A k \in 1 .. N : f[k] = IF f[k - 1] = Lost \/ pred[f[k - 1]] = None THEN Lost ELSE From(pred[f[k - 1]])
            /\ WalkBack(pred, entry, N) = f
      BY <2>1, WalkBackRun
    <2> QED BY <2>2 DEF N, pred
  <1> HIDE DEF at, pred
  <1>5. again \in repeats /\ \A k \in repeats : again <= k
    <2>1. repeats \in SUBSET Nat
      OBVIOUS
    <2> HIDE DEF repeats
    <2> QED BY <1>1, <2>1, LeastIsIn
  <1> HIDE DEF again
  <1>6. again \in 1 .. MaxLength + 3 /\ at[again] # Lost /\ \E j \in 0 .. again - 1 : at[j] = at[again]
    BY <1>5
  <1>7. first \in 0 .. again - 1 /\ at[first] = at[again]
    BY <1>6
  <1> HIDE DEF first
  \* Once lost, lost to the end.
  <1>8. ASSUME NEW k \in 0 .. again PROVE at[k] # Lost
    <2> DEFINE Gone == {m \in Nat : m > again \/ at[m] = Lost}
    <2> SUFFICES ASSUME at[k] = Lost PROVE FALSE
      OBVIOUS
    <2>1. k \in Nat /\ again \in Nat /\ k \in k .. again /\ again \in k .. again
      BY <1>2, <1>6
    <2>2. k \in Gone
      BY <2>1
    <2>3. ASSUME NEW m \in k .. again, m < again, m \in Gone PROVE m + 1 \in Gone
      <3> DEFINE n == m + 1
      <3>1. n \in 1 .. MaxLength + 3 /\ n - 1 = m /\ n \in Nat
        BY <1>2, <1>6, <2>1, <2>3
      <3>2. at[m] = Lost
        BY <2>1, <2>3
      <3> HIDE DEF n
      <3>3. at[n] = Lost
        BY <1>4, <3>1, <3>2
      <3> QED BY <3>1, <3>3 DEF n
    <2>4. again \in Gone
      <3> HIDE DEF Gone
      <3>1. \A m \in k .. again : m \in Gone
        BY <2>1, <2>2, <2>3, IntervalInduction
      <3> QED BY <2>1, <3>1
    <2> QED BY <1>6, <2>1, <2>4
  <1>9. ASSUME NEW k \in 0 .. again - 1
        PROVE  /\ at[k] \in TradedAssets /\ pred[at[k]] \in UsableNow /\ To(pred[at[k]]) = at[k]
               /\ From(pred[at[k]]) = at[k + 1]
    <2> DEFINE n == k + 1
    <2>1. n \in 1 .. MaxLength + 3 /\ n - 1 = k /\ n \in 0 .. again /\ k \in 0 .. again /\ k \in 0 .. MaxLength + 3
      BY <1>2, <1>6
    <2> HIDE DEF n
    <2>2. at[k] # Lost /\ at[n] # Lost
      BY <1>8, <2>1
    <2>3. at[k] \in TradedAssets
      BY <1>4, <2>1, <2>2
    <2>4. pred[at[k]] # None /\ at[n] = From(pred[at[k]])
      BY <1>4, <2>1, <2>2
    <2> QED BY <1>3, <2>3, <2>4 DEF n
  \* Nothing repeats before.
  <1>10. ASSUME NEW j \in 0 .. again - 1, NEW k \in 0 .. again - 1, at[j] = at[k] PROVE j = k
    <2>1. j \in Nat /\ k \in Nat /\ again \in Nat
      BY <1>2, <1>6
    <2>2. ASSUME NEW x \in 0 .. again - 1, NEW y \in 0 .. again - 1, at[x] = at[y], x < y PROVE FALSE
      <3>1. y \in 1 .. MaxLength + 3 /\ x \in 0 .. y - 1 /\ y \in 0 .. again
        BY <1>2, <1>6, <2>1, <2>2
      <3>2. at[y] # Lost
        BY <1>8, <3>1
      <3>3. y \in repeats
        BY <2>2, <3>1, <3>2
      <3> HIDE DEF repeats
      <3>4. again <= y
        BY <1>5, <3>3
      <3> QED BY <2>1, <3>4
    <2>3. ~(j < k) /\ ~(k < j)
      BY <1>10, <2>2
    <2> QED BY <2>1, <2>3
  <1> DEFINE L == again - first
  <1>11. L \in Nat \ {0} /\ again \in Nat /\ first \in Nat
    BY <1>2, <1>6, <1>7
  <1>12. ASSUME NEW i \in 1 .. L
         PROVE  /\ c[i] \in UsableNow /\ To(c[i]) = at[again - i] /\ From(c[i]) = at[again - i + 1]
    <2>1. again - i \in 0 .. again - 1
      BY <1>7, <1>11
    <2>2. c[i] = pred[at[again - i]]
      BY DEF pred
    <2> DEFINE k == again - i
    <2> HIDE DEF k, c
    <2>3. c[i] = pred[at[k]] /\ k \in 0 .. again - 1
      BY <2>1, <2>2 DEF k
    <2>4. c[i] \in UsableNow /\ To(c[i]) = at[k] /\ From(c[i]) = at[k + 1]
      BY <1>9, <2>3
    <2> QED BY <2>4 DEF k
  <1>13. c \in Seq(UsableNow) /\ Len(c) = L
    <2>1. c = [i \in 1 .. L |-> c[i]]
      OBVIOUS
    <2> HIDE DEF c, L
    <2>2. c \in [1 .. L -> UsableNow]
      BY <1>12, <2>1
    <2> QED BY <1>11, <2>2
  <1> HIDE DEF c
  <1>14. Closes(c)
    <2>1. ASSUME NEW i \in 1 .. L PROVE To(c[i]) = From(c[IF i = L THEN 1 ELSE i + 1])
      <3>1. CASE i = L
        <4>1. 1 \in 1 .. L /\ again - 1 + 1 = again /\ again - L = first
          BY <1>11
        <4>2. To(c[i]) = at[first] /\ From(c[1]) = at[again]
          <5> HIDE DEF L
          <5> QED BY <1>12, <3>1, <4>1
        <4> QED BY <1>7, <3>1, <4>2
      <3>2. CASE i # L
        <4> DEFINE n == i + 1
        <4>1. n \in 1 .. L /\ again - n + 1 = again - i
          BY <1>11, <3>2
        <4> HIDE DEF n, L
        <4>2. To(c[i]) = at[again - i] /\ From(c[n]) = at[again - n + 1]
          BY <1>12, <4>1
        <4> QED BY <3>2, <4>1, <4>2 DEF n
      <3> QED BY <3>1, <3>2
    <2> QED BY <1>13, <2>1 DEF Closes
  <1>15. ASSUME NEW i \in 1 .. L, NEW j \in 1 .. L, From(c[i]) = From(c[j]) PROVE i = j
    \* The place an asset has before the repeat.
    <2> DEFINE before(m) == IF m = 1 THEN first ELSE again - m + 1
    <2>1. ASSUME NEW m \in 1 .. L PROVE before(m) \in 0 .. again - 1 /\ From(c[m]) = at[before(m)]
      <3>1. before(m) \in 0 .. again - 1
        BY <1>7, <1>11
      <3>2. From(c[m]) = at[again - m + 1]
        BY <1>12
      <3>3. CASE m = 1
        <4>1. again - m + 1 = again
          BY <1>11, <3>3
        <4> QED BY <1>7, <3>1, <3>2, <3>3, <4>1
      <3>4. CASE m # 1
        BY <3>1, <3>2, <3>4
      <3> QED BY <3>3, <3>4
    <2>2. before(i) = before(j)
      <3> HIDE DEF before, L
      <3> QED BY <1>10, <1>15, <2>1
    <2> QED BY <1>7, <1>11, <2>2
  <1>16. c # << >>
    <2>1. Len(<< >>) = 0
      OBVIOUS
    <2> QED BY <1>11, <1>13, <2>1
  <1>17. c \in Seq(EdgeIds)
    <2>1. UsableNow \subseteq EdgeIds
      BY DEF UsableNow
    <2> QED BY <1>13, <2>1
  <1>18. Ring(c) /\ c \in Seq(UsableNow)
    BY <1>13, <1>14, <1>15, <1>16, <1>17 DEF Ring
  <1> QED BY <1>1, <1>18 DEF c, first, again, at, pred

\* What an offer can be.
Real(c) == Tradable(c) /\ Legs(c) \subseteq UsableNow /\ GainOf(c) >= MinEdge

LEMMA RotatedToStartIsReal ==
    ASSUME MoodsTyped, NEW c, Ring(c), c \in Seq(UsableNow),
           Len(c) \in MinLength .. MaxLength, GainOf(c) >= MinEdge, RotateToStart(c) # << >>
    PROVE  Real(RotateToStart(c)) /\ StartsFirst(RotateToStart(c))
  <1> DEFINE held == {k \in 1 .. Len(StartAssets) : StartAssets[k] \in ToSet(PathOf(c))}
             m == Min(held)
             i == CHOOSE i \in 1 .. Len(c) : From(c[i]) = StartAssets[m]
  <1>1. held # {} /\ RotateToStart(c) = Rotated(c, i)
    BY DEF RotateToStart, Rotated
  <1>2. m \in held /\ \A k \in held : m <= k
    <2>1. held \in SUBSET Nat
      OBVIOUS
    <2> HIDE DEF held
    <2> QED BY <1>1, <2>1, LeastIsIn
  <1> HIDE DEF m
  <1>3. m \in 1 .. Len(StartAssets) /\ StartAssets[m] \in ToSet(PathOf(c))
    BY <1>2
  <1>4. ToSet(PathOf(c)) = {From(c[k]) : k \in 1 .. Len(c)}
    BY DEF ToSet, PathOf
  <1>5. i \in 1 .. Len(c) /\ From(c[i]) = StartAssets[m]
    BY <1>3, <1>4
  <1>11. ASSUME NEW k \in 1 .. m - 1, NEW j \in 1 .. Len(c) PROVE From(c[j]) # StartAssets[k]
    <2> SUFFICES ASSUME From(c[j]) = StartAssets[k] PROVE FALSE
      OBVIOUS
    <2>1. k \in 1 .. Len(StartAssets) /\ k < m
      <3>1. Len(StartAssets) \in Nat
        BY SearchAssumption, LenProperties
      <3> QED BY <1>3, <3>1
    <2>2. k \in held
      BY <1>4, <2>1
    <2>3. m <= k
      <3> HIDE DEF held
      <3> QED BY <1>2, <2>2
    <2> QED BY <1>3, <2>1, <2>3
  <1> HIDE DEF i, held
  <1> DEFINE r == Rotated(c, i)
  <1>6. Ring(r) /\ Len(r) = Len(c) /\ r[1] = c[i] /\ Legs(r) = Legs(c)
    BY <1>5, RotationIsRing
  <1>7. GainOf(r) = GainOf(c)
    BY <1>5, RotationGains DEF Ring
  <1>8. StartAssets[m] \in ToSet(StartAssets)
    <2>1. DOMAIN StartAssets = 1 .. Len(StartAssets)
      BY SearchAssumption, LenProperties
    <2> QED BY <1>3, <2>1 DEF ToSet
  <1>9. Legs(c) \subseteq UsableNow
    <2>1. DOMAIN c = 1 .. Len(c) /\ \A k \in 1 .. Len(c) : c[k] \in UsableNow
      BY LenProperties, ElementOfSeq
    <2> QED BY <2>1 DEF Legs, ToSet
  <1> HIDE DEF r
  <1>10. Tradable(r)
    BY <1>5, <1>6, <1>8, TradableIsRing
  <1>12. StartsFirst(r)
    <2>1. ASSUME NEW k \in 1 .. m - 1, NEW h \in 1 .. Len(r) PROVE From(r[h]) # StartAssets[k]
      <3>1. DOMAIN r = 1 .. Len(r) /\ DOMAIN c = 1 .. Len(c)
        BY <1>6, LenProperties DEF Ring
      <3>2. r[h] \in ToSet(c)
        <4>1. r[h] \in ToSet(r)
          BY <3>1 DEF ToSet
        <4> QED BY <1>6, <4>1 DEF Legs
      <3>3. PICK j \in 1 .. Len(c) : r[h] = c[j]
        BY <3>1, <3>2 DEF ToSet
      <3> QED BY <1>11, <3>3
    <2> QED BY <1>3, <1>5, <1>6, <2>1 DEF StartsFirst
  <1> QED BY <1>1, <1>6, <1>7, <1>9, <1>10, <1>12 DEF Real, r

LEMMA NegativeAreReal ==
    ASSUME MoodsTyped, NEW c \in NegativeCycles
    PROVE  Real(c) /\ StartsFirst(c)
  <1> DEFINE search == Relaxed
             found == {ExtractCycle(search, n) : n \in EntryPoints(search)}
  <1>1. PICK d \in found : /\ Len(d) \in MinLength .. MaxLength /\ GainOf(d) >= MinEdge
                           /\ c = RotateToStart(d) /\ c # << >>
    BY DEF NegativeCycles
  <1>2. search \in SearchStates
    BY RelaxedTyped
  <1> HIDE DEF search
  <1>3. PICK n \in EntryPoints(search) : d = ExtractCycle(search, n)
    OBVIOUS
  <1>4. n \in TradedAssets
    <2> DEFINE N == Len(Nodes(UsableNow))  at == WalkBack(search.pred, search.last, N)
    <2>1. /\ N \in Nat /\ search.pred \in [TradedAssets -> {None} \cup EdgeIds]
          /\ search.last \in TradedAssets \cup {Lost}
      BY <1>2, NodesTyped DEF SearchStates
    <2>2. n \in {at[k] : k \in 1 .. N} \ {Lost}
      BY <1>3 DEF EntryPoints
    <2> HIDE DEF N
    <2>3. at \in [0 .. N -> TradedAssets \cup {Lost}]
      <3> DEFINE pred == search.pred  last == search.last
      <3>1. pred \in [TradedAssets -> {None} \cup EdgeIds] /\ last \in TradedAssets \cup {Lost}
        BY <2>1
      <3> HIDE DEF pred, last
      <3>2. PICK f \in [0 .. N -> TradedAssets \cup {Lost}] :
              /\ f[0] = last
              /\ \A k \in 1 .. N : f[k] = IF f[k - 1] = Lost \/ pred[f[k - 1]] = None THEN Lost ELSE From(pred[f[k - 1]])
              /\ WalkBack(pred, last, N) = f
        <4>1. N \in Nat
          BY <2>1
        <4> QED BY <3>1, <4>1, WalkBackRun, Zenon
      <3> QED BY <3>2 DEF pred, last
    <2> HIDE DEF at
    <2>4. \A k \in 1 .. N : k \in 0 .. N
      BY <2>1
    <2> QED BY <2>2, <2>3, <2>4
  <1>5. d # << >>
    <2>1. MinLength \in Nat /\ MinLength >= 3 /\ Len(<< >>) = 0
      BY SearchAssumption
    <2> QED BY <1>1, <2>1
  <1>6. Ring(d) /\ d \in Seq(UsableNow)
    BY <1>2, <1>3, <1>4, <1>5, ExtractIsRing
  <1> HIDE DEF found
  <1> QED BY <1>1, <1>6, RotatedToStartIsReal

-----------------------------------------------------------------------------
(* The keys of the cooldown. *)

LEMMA VenuesRun ==
    ASSUME NEW cycle \in Seq(EdgeIds)
    PROVE  \E f \in [0 .. Len(cycle) -> Seq(STRING)] :
              /\ f[0] = << >> /\ \A i \in 1 .. Len(cycle) : f[i] = IF Venue(cycle[i]) \in ToSet(f[i - 1]) THEN f[i - 1] ELSE Append(f[i - 1], Venue(cycle[i]))
              /\ VenuesOf(cycle) = f[Len(cycle)]
  <1> DEFINE N == Len(cycle)  T == Seq(STRING)  base == << >>
             After(s, i) == IF Venue(cycle[i]) \in ToSet(s) THEN s ELSE Append(s, Venue(cycle[i]))
             Loop(f) == f = [i \in 0 .. N |-> IF i = 0 THEN base ELSE After(f[i - 1], i)]
             step == [p \in (1 .. N) \X T |-> After(p[2], p[1])]
  <1>1. N \in Nat /\ base \in T
    BY LenProperties, EmptySeq
  <1>2. ASSUME NEW s \in T, NEW i \in 1 .. N PROVE After(s, i) \in T
    <2>1. cycle[i] \in EdgeIds
      BY ElementOfSeq
    <2>2. Venue(cycle[i]) \in STRING
      BY <2>1, EdgeFacts
    <2>3. Append(s, Venue(cycle[i])) \in T
      BY <2>2
    <2> QED BY <2>3
  <1> HIDE DEF N, T, base, After
  <1>3. step \in [(1 .. N) \X T -> T]
    BY <1>2
  <1>4. PICK f : f \in [0 .. N -> T] /\ f[0] = base /\ \A n \in 1 .. N : f[n] = step[<<n, f[n - 1]>>]
    <2> HIDE DEF step
    <2>1. \E f : Runs(f, N, T, base, step)
      BY <1>1, <1>3, LoopRuns
    <2> QED BY <2>1 DEF Runs
  <1>5. Loop(f)
    <2>1. ASSUME NEW n \in 0 .. N PROVE f[n] = IF n = 0 THEN base ELSE After(f[n - 1], n)
      <3>1. CASE n # 0
        <4>1. n \in 1 .. N /\ n - 1 \in 0 .. N
          BY <1>1, <3>1
        <4> DEFINE last == f[n - 1]
        <4>2. last \in T /\ f[n] = step[<<n, last>>]
          <5> HIDE DEF step
          <5> QED BY <1>4, <4>1
        <4> HIDE DEF last
        <4>3. <<n, last>> \in (1 .. N) \X T
          BY <4>1, <4>2
        <4>4. step[<<n, last>>] = After(last, n)
          BY <4>3
        <4> HIDE DEF step
        <4> QED BY <3>1, <4>2, <4>4 DEF last
      <3>2. CASE n = 0
        <4> HIDE DEF step
        <4> QED BY <1>4, <3>2
      <3> QED BY <3>1, <3>2
    <2> HIDE DEF step
    <2>2. f = [n \in 0 .. N |-> f[n]]
      BY <1>4
    <2> QED BY <2>1, <2>2
  <1> DEFINE run == CHOOSE g : Loop(g)
  <1>6. Loop(run)
    <2> HIDE DEF Loop
    <2> QED BY <1>5
  <1>7. VenuesOf(cycle) = run[N]
    BY DEF VenuesOf, N, base, After
  <1> HIDE DEF run
  <1>8. /\ run = [n \in 0 .. N |-> run[n]]
        /\ \A n \in 0 .. N : run[n] = IF n = 0 THEN base ELSE After(run[n - 1], n)
    BY <1>6
  <1> HIDE DEF Loop
  <1>9. run[0] = base /\ \A n \in 1 .. N : run[n] = After(run[n - 1], n)
    <2>1. 0 \in 0 .. N /\ \A n \in 1 .. N : n \in 0 .. N /\ n # 0
      BY <1>1
    <2> QED BY <1>8, <2>1
  <1> DEFINE Typed == {n \in Nat : run[n] \in T}
  <1>10. \A n \in 0 .. N : n \in Typed
    <2>1. 0 \in Typed
      BY <1>1, <1>9
    <2>2. ASSUME NEW n \in 0 .. N, n < N, n \in Typed PROVE n + 1 \in Typed
      <3> DEFINE m == n + 1
      <3>1. m \in 1 .. N /\ m - 1 = n /\ m \in Nat
        BY <1>1, <2>2
      <3> HIDE DEF m
      <3>2. run[m] = After(run[n], m) /\ run[n] \in T
        BY <1>9, <2>2, <3>1
      <3> QED BY <1>2, <3>1, <3>2 DEF m
    <2> HIDE DEF Typed
    <2>3. 0 \in Nat
      OBVIOUS
    <2> QED BY <1>1, <2>1, <2>2, <2>3, IntervalInduction
  <1>11. run \in [0 .. N -> T]
    BY <1>8, <1>10
  <1> QED BY <1>7, <1>9, <1>11 DEF N, T, base, After

LEMMA AppendSet ==
    ASSUME NEW S, NEW s \in Seq(S), NEW v \in S
    PROVE  ToSet(Append(s, v)) = ToSet(s) \cup {v}
  <1> DEFINE t == Append(s, v)  L == Len(s)
  <1>1. t \in Seq(S) /\ L \in Nat /\ Len(t) = L + 1 /\ t[L + 1] = v /\ \A i \in 1 .. L : t[i] = s[i]
    BY LenProperties
  <1> HIDE DEF t
  <1>2. DOMAIN s = 1 .. L /\ DOMAIN t = 1 .. L + 1
    BY <1>1, LenProperties
  <1>3. ToSet(s) = {s[i] : i \in 1 .. L} /\ ToSet(t) = {t[i] : i \in 1 .. L + 1}
    BY <1>2 DEF ToSet
  <1> HIDE DEF L
  <1>4. 1 .. L + 1 = (1 .. L) \cup {L + 1}
    BY <1>1
  <1>5. ToSet(t) = ToSet(s) \cup {v}
    BY <1>1, <1>3, <1>4
  <1> QED BY <1>5 DEF t

LEMMA VenuesAre ==
    ASSUME NEW c \in Seq(EdgeIds)
    PROVE  ToSet(VenuesOf(c)) = {Venue(c[i]) : i \in 1 .. Len(c)} /\ VenuesOf(c) \in Seq(STRING)
  <1> DEFINE N == Len(c)
             Seen(n) == {Venue(c[i]) : i \in 1 .. n}
  <1>1. PICK f \in [0 .. N -> Seq(STRING)] :
          /\ f[0] = << >>
          /\ \A i \in 1 .. N : f[i] = IF Venue(c[i]) \in ToSet(f[i - 1]) THEN f[i - 1]
                                      ELSE Append(f[i - 1], Venue(c[i]))
          /\ VenuesOf(c) = f[N]
    BY VenuesRun
  <1>2. N \in Nat
    BY LenProperties
  <1> DEFINE Good == {n \in Nat : ToSet(f[n]) = Seen(n)}
  <1>3. 0 \in Good
    <2>1. ToSet(f[0]) = {}
      BY <1>1 DEF ToSet
    <2> QED BY <2>1
  <1>4. ASSUME NEW n \in 0 .. N, n < N, n \in Good PROVE n + 1 \in Good
    <2> DEFINE m == n + 1  v == Venue(c[n + 1])  s == f[n]
    <2>1. m \in 1 .. N /\ m - 1 = n /\ m \in Nat
      BY <1>2, <1>4
    <2>2. f[m] = IF v \in ToSet(s) THEN s ELSE Append(s, v)
      <3> DEFINE w == Venue(c[m])
      <3> HIDE DEF m, w
      <3>1. f[m] = IF w \in ToSet(f[m - 1]) THEN f[m - 1] ELSE Append(f[m - 1], w)
        BY <1>1, <2>1 DEF w
      <3>2. w = v
        BY DEF w, m
      <3> QED BY <2>1, <3>1, <3>2
    <2>3. Seen(m) = Seen(n) \cup {v}
      <3>1. 1 .. m = (1 .. n) \cup {m}
        BY <2>1
      <3> QED BY <3>1
    <2>4. s \in Seq(STRING) /\ ToSet(s) = Seen(n)
      BY <1>1, <1>4
    <2>5. v \in STRING
      <3>1. c[m] \in EdgeIds
        BY <2>1, ElementOfSeq
      <3> HIDE DEF m
      <3>2. Venue(c[m]) \in STRING
        BY <3>1, EdgeFacts
      <3> QED BY <3>2 DEF m
    <2> HIDE DEF m, v, s, Seen
    <2>6. ToSet(Append(s, v)) = ToSet(s) \cup {v}
      BY <2>4, <2>5, AppendSet
    <2>7. ToSet(f[m]) = Seen(m)
      BY <2>2, <2>3, <2>4, <2>6
    <2> QED BY <2>1, <2>7 DEF m
  <1>5. N \in Good
    <2> HIDE DEF Good, N
    <2>1. 0 \in Nat /\ N \in 0 .. N
      BY <1>2
    <2>2. \A n \in 0 .. N : n \in Good
      BY <1>2, <1>3, <1>4, <2>1, IntervalInduction
    <2> QED BY <2>1, <2>2
  <1>6. f[N] \in Seq(STRING)
    <2>1. N \in 0 .. N
      BY <1>2
    <2> HIDE DEF N
    <2> QED BY <1>1, <2>1
  <1> QED BY <1>1, <1>5, <1>6

\* On one venue, the key of a ring tells which it is.
LEMMA KeyTells ==
    ASSUME NEW c, Ring(c), NEW d, Ring(d), KeyOf(c) = KeyOf(d),
           NEW v, \A i \in 1 .. Len(d) : Venue(d[i]) = v
    PROVE  c = d
  <1> DEFINE L == Len(c)  M == Len(d)
  <1>1. /\ c \in Seq(EdgeIds) /\ d \in Seq(EdgeIds) /\ L \in Nat \ {0} /\ M \in Nat \ {0}
        /\ (\A i \in 1 .. L : c[i] \in EdgeIds) /\ \A i \in 1 .. M : d[i] \in EdgeIds
    <2>1. c \in Seq(EdgeIds) /\ d \in Seq(EdgeIds) /\ c # << >> /\ d # << >>
      BY DEF Ring
    <2> QED BY <2>1, LenProperties, EmptySeq, ElementOfSeq
  <1>2. PathOf(c) = PathOf(d) /\ VenuesOf(c) = VenuesOf(d)
    BY DEF KeyOf
  <1>3. L = M
    <2>1. DOMAIN PathOf(c) = 1 .. L /\ DOMAIN PathOf(d) = 1 .. M
      BY DEF PathOf
    <2>2. L \in 1 .. M /\ M \in 1 .. L
      <3>1. L \in 1 .. L /\ M \in 1 .. M
        BY <1>1
      <3> HIDE DEF L, M
      <3> QED BY <1>2, <2>1, <3>1
    <2> QED BY <2>2
  <1>4. ASSUME NEW i \in 1 .. L PROVE From(c[i]) = From(d[i]) /\ Venue(c[i]) = Venue(d[i])
    <2>1. PathOf(c)[i] = From(c[i]) /\ PathOf(d)[i] = From(d[i])
      BY <1>3 DEF PathOf
    <2>2. Venue(c[i]) \in ToSet(VenuesOf(d))
      BY <1>1, <1>2, VenuesAre
    <2>3. PICK j \in 1 .. M : Venue(c[i]) = Venue(d[j])
      BY <1>1, <2>2, VenuesAre
    <2> QED BY <1>2, <1>3, <2>1, <2>3
  <1>5. ASSUME NEW i \in 1 .. L PROVE To(c[i]) = To(d[i])
    <2> DEFINE k == IF i = L THEN 1 ELSE i + 1
    <2>1. k \in 1 .. L
      BY <1>1
    <2>2. To(c[i]) = From(c[k]) /\ To(d[i]) = From(d[k])
      BY <1>3 DEF Ring, Closes
    <2> HIDE DEF k
    <2> QED BY <1>4, <2>1, <2>2
  <1>6. ASSUME NEW i \in 1 .. L PROVE c[i] = d[i]
    BY <1>1, <1>3, <1>4, <1>5, EdgesDiffer
  <1>7. c = [i \in 1 .. L |-> c[i]] /\ d = [i \in 1 .. M |-> d[i]]
    BY <1>1, LenProperties
  <1> QED BY <1>3, <1>6, <1>7

-----------------------------------------------------------------------------
(* The scan. *)

KeysHeld(out, cycles, n, cooling) ==
    Len(out) < MaxPerScan => \A j \in 1 .. n : KeyOf(cycles[j]) \in cooling \cup KeysOf(out)

Carries(before, out) == Len(before) <= Len(out) /\ KeysOf(before) \subseteq KeysOf(out)

\* Nothing on cooldown, and no key twice.
Fresh(out, cooling) ==
    /\ \A i \in 1 .. Len(out) : KeyOf(out[i]) \notin cooling
    /\ \A i, j \in 1 .. Len(out) : KeyOf(out[i]) = KeyOf(out[j]) => i = j

LEMMA AppendFresh ==
    ASSUME NEW S, NEW s \in Seq(S), NEW c \in S, NEW cooling, Fresh(s, cooling),
           KeyOf(c) \notin cooling \cup KeysOf(s)
    PROVE  Fresh(Append(s, c), cooling)
  <1> DEFINE t == Append(s, c)  L == Len(s)
  <1>1. t \in Seq(S) /\ L \in Nat /\ Len(t) = L + 1 /\ t[L + 1] = c /\ \A i \in 1 .. L : t[i] = s[i]
    BY LenProperties
  <1> HIDE DEF t
  <1>2. 1 .. Len(t) = (1 .. L) \cup {L + 1} /\ L + 1 \notin 1 .. L
    BY <1>1
  <1>3. \A i \in 1 .. L : KeyOf(t[i]) # KeyOf(c) /\ KeyOf(t[i]) \notin cooling
    BY <1>1 DEF Fresh, KeysOf
  <1>4. \A i, j \in 1 .. L : KeyOf(t[i]) = KeyOf(t[j]) => i = j
    BY <1>1 DEF Fresh
  <1> DEFINE last == L + 1
  <1>5. t[last] = c /\ 1 .. Len(t) = (1 .. L) \cup {last}
    BY <1>1, <1>2
  <1> HIDE DEF L, last
  <1>6. \A i \in 1 .. Len(t) : KeyOf(t[i]) \notin cooling
    BY <1>3, <1>5
  <1>7. \A i, j \in 1 .. Len(t) : KeyOf(t[i]) = KeyOf(t[j]) => i = j
    BY <1>3, <1>4, <1>5
  <1> QED BY <1>6, <1>7 DEF Fresh, t

LEMMA AppendKeys ==
    ASSUME NEW S, NEW s \in Seq(S), NEW c \in S
    PROVE  /\ Append(s, c) \in Seq(S) /\ Len(s) \in Nat /\ Len(Append(s, c)) = Len(s) + 1
           /\ KeysOf(Append(s, c)) = KeysOf(s) \cup {KeyOf(c)}
  <1> DEFINE t == Append(s, c)  L == Len(s)
  <1>1. t \in Seq(S) /\ L \in Nat /\ Len(t) = L + 1 /\ t[L + 1] = c /\ \A i \in 1 .. L : t[i] = s[i]
    BY LenProperties
  <1> HIDE DEF t
  <1>2. 1 .. L + 1 = (1 .. L) \cup {L + 1}
    BY <1>1
  <1>3. KeysOf(t) = KeysOf(s) \cup {KeyOf(c)}
    <2>1. KeysOf(t) = {KeyOf(t[i]) : i \in 1 .. L + 1} /\ KeysOf(s) = {KeyOf(s[i]) : i \in 1 .. L}
      BY <1>1 DEF KeysOf
    <2> HIDE DEF L
    <2> QED BY <1>1, <1>2, <2>1
  <1> QED BY <1>1, <1>3 DEF t

Emitted(before, out, cycles, n, cooling) ==
    /\ Carries(before, out) /\ KeysHeld(out, cycles, n, cooling)
    /\ Fresh(before, cooling) => Fresh(out, cooling)

\* With room left, what is not offered is on cooldown under its key.
LEMMA EmitIs ==
    ASSUME NEW S, NEW before \in Seq(S), NEW cycles \in Seq(S), NEW cooling
    PROVE  /\ Emit(before, cycles, cooling) \in Seq(S)
           /\ Emitted(before, Emit(before, cycles, cooling), cycles, Len(cycles), cooling)
  <1> DEFINE N == Len(cycles)
  <1>1. PICK f \in [0 .. N -> Seq(S)] : EmitsUpTo(f, before, cycles, cooling) /\ Emit(before, cycles, cooling) = f[N]
    BY EmitRuns
  <1>2. N \in Nat /\ \A k \in 1 .. N : cycles[k] \in S
    BY LenProperties, ElementOfSeq
  <1>3. MaxPerScan \in Nat
    BY SearchAssumption
  <1> DEFINE Good == {n \in Nat : Emitted(before, f[n], cycles, n, cooling)}
  <1>4. 0 \in Good
    <2>1. f[0] = before /\ Len(before) \in Nat
      BY <1>1, LenProperties DEF EmitsUpTo
    <2> QED BY <2>1 DEF Emitted, Carries, KeysHeld
  <1>5. ASSUME NEW n \in 0 .. N, n < N, n \in Good PROVE n + 1 \in Good
    <2> DEFINE m == n + 1  s == f[n]
    <2>1. m \in 1 .. N /\ m - 1 = n /\ m \in Nat /\ 1 .. m = (1 .. n) \cup {m}
      BY <1>2, <1>5
    <2>2. /\ s \in Seq(S) /\ Carries(before, s) /\ KeysHeld(s, cycles, n, cooling)
          /\ Len(before) \in Nat /\ Len(s) \in Nat /\ (Fresh(before, cooling) => Fresh(s, cooling))
      <3>1. s \in Seq(S)
        BY <1>1, <1>5
      <3>2. Emitted(before, s, cycles, n, cooling)
        BY <1>5
      <3> HIDE DEF s
      <3> QED BY <3>1, <3>2, LenProperties DEF Emitted
    <2> HIDE DEF m, s
    <2>3. f[m] = Offers(s, cycles, m, cooling)
      BY <1>1, <2>1 DEF EmitsUpTo, s
    <2> DEFINE c == cycles[m]
    <2>4. c \in S
      BY <1>2, <2>1
    <2> HIDE DEF c
    <2>5. CASE Len(s) >= MaxPerScan \/ KeyOf(c) \in cooling \cup KeysOf(s)
      <3>1. f[m] = s
        BY <2>3, <2>5 DEF Offers, c
      <3>2. KeysHeld(s, cycles, m, cooling)
        <4> SUFFICES ASSUME Len(s) < MaxPerScan, NEW j \in 1 .. m PROVE KeyOf(cycles[j]) \in cooling \cup KeysOf(s)
          BY DEF KeysHeld
        <4>1. CASE j = m
          <5>1. ~(Len(s) >= MaxPerScan)
            BY <1>3, <2>2
          <5> QED BY <2>5, <4>1, <5>1 DEF c
        <4>2. CASE j \in 1 .. n
          BY <2>2, <4>2 DEF KeysHeld
        <4> QED BY <2>1, <4>1, <4>2
      <3>3. m \in Good
        BY <2>1, <2>2, <3>1, <3>2 DEF Emitted
      <3> QED BY <3>3 DEF m
    <2>6. CASE ~(Len(s) >= MaxPerScan \/ KeyOf(c) \in cooling \cup KeysOf(s))
      <3>1. f[m] = Append(s, c)
        BY <2>3, <2>6 DEF Offers, c
      <3>2. Len(f[m]) = Len(s) + 1 /\ KeysOf(f[m]) = KeysOf(s) \cup {KeyOf(c)}
        BY <2>2, <2>4, <3>1, AppendKeys
      <3>3. Carries(before, f[m])
        BY <2>2, <3>2 DEF Carries
      <3>4. KeysHeld(f[m], cycles, m, cooling)
        <4> SUFFICES ASSUME Len(f[m]) < MaxPerScan, NEW j \in 1 .. m
                     PROVE  KeyOf(cycles[j]) \in cooling \cup KeysOf(f[m])
          BY DEF KeysHeld
        <4>1. CASE j = m
          BY <3>2, <4>1 DEF c
        <4>2. CASE j \in 1 .. n
          <5>1. Len(s) < MaxPerScan
            BY <1>3, <2>2, <3>2
          <5>2. KeyOf(cycles[j]) \in cooling \cup KeysOf(s)
            BY <2>2, <4>2, <5>1 DEF KeysHeld
          <5> QED BY <3>2, <5>2
        <4> QED BY <2>1, <4>1, <4>2
      <3>5. Fresh(before, cooling) => Fresh(f[m], cooling)
        BY <2>2, <2>4, <2>6, <3>1, AppendFresh
      <3>6. m \in Good
        BY <2>1, <3>3, <3>4, <3>5 DEF Emitted
      <3> QED BY <3>6 DEF m
    <2> QED BY <2>5, <2>6
  <1>6. N \in Good /\ f[N] \in Seq(S)
    <2> HIDE DEF Good, N
    <2>1. 0 \in Nat /\ N \in 0 .. N
      BY <1>2
    <2>2. \A n \in 0 .. N : n \in Good
      BY <1>2, <1>4, <1>5, <2>1, IntervalInduction
    <2> QED BY <1>1, <2>1, <2>2
  <1>7. Emitted(before, f[N], cycles, N, cooling)
    <2> HIDE DEF N
    <2> QED BY <1>6
  <1> HIDE DEF Good
  <1> QED BY <1>1, <1>6, <1>7

RealCycles == {c \in Seq(EdgeIds) : Real(c) /\ StartsFirst(c)}

LEMMA RealsAreFinite ==
    ASSUME NEW S \in SUBSET RealCycles
    PROVE  S \in SUBSET Seq(EdgeIds) /\ IsFiniteSet(S)
  <1>1. S \in SUBSET Seq(EdgeIds) /\ \A c \in S : Len(c) <= MaxLength
    BY SearchAssumption DEF RealCycles, Real, Tradable
  <1> QED BY <1>1, CyclesAreFinite

FewPay == Cardinality(Priced(csTemplates)) <= 4 * MaxPerScan

LEMMA ScannedIs ==
    ASSUME MoodsTyped, \A c \in csTemplates : Tradable(c) /\ StartsFirst(c)
    PROVE  /\ Scanned \in Seq(RealCycles) /\ Fresh(Scanned, Cooling)
           /\ FewPay /\ Len(Scanned) < MaxPerScan =>
                 \A c \in Priced(csTemplates) : KeyOf(c) \in Cooling \cup KeysOf(Scanned)
  <1> DEFINE P == Priced(csTemplates)  priced == BestFirst(P)  most == Min({Len(priced), 4 * MaxPerScan})
             looked == SubSeq(priced, 1, most)
             out == Emit(<< >>, looked, Cooling)
             B == {c \in NegativeCycles : PathOf(c) \notin {PathOf(out[i]) : i \in 1 .. Len(out)}}
             more == BestFirst(B)
  <1>1. MaxPerScan \in Nat
    BY SearchAssumption
  <1>2. P \in SUBSET RealCycles
    BY DEF Priced, RealCycles, Real, Tradable
  <1>3. /\ priced \in Seq(P) /\ Len(priced) = Cardinality(P) /\ Len(priced) \in Nat
        /\ \A c \in P : \E i \in 1 .. Len(priced) : priced[i] = c
    <2> HIDE DEF P
    <2>1. priced \in Seq(P) /\ Len(priced) = Cardinality(P) /\ \A c \in P : \E i \in 1 .. Cardinality(P) : priced[i] = c
      BY <1>2, RealsAreFinite, BestFirstIs
    <2> QED BY <2>1, LenProperties
  <1> HIDE DEF priced
  <1>4. /\ most \in Nat /\ most <= Len(priced) /\ (most = Len(priced) \/ most = 4 * MaxPerScan)
        /\ (Len(priced) <= 4 * MaxPerScan => most = Len(priced))
    <2> DEFINE T == {Len(priced), 4 * MaxPerScan}
    <2>1. T \in SUBSET Nat /\ T # {}
      BY <1>1, <1>3
    <2>2. Min(T) \in T /\ \A x \in T : Min(T) <= x
      <3> HIDE DEF T
      <3> QED BY <2>1, LeastIsIn
    <2> DEFINE l == Len(priced)  q == 4 * MaxPerScan
    <2>3. most \in {l, q} /\ most <= l /\ most <= q /\ l \in Nat /\ q \in Nat
      BY <1>1, <1>3, <2>2
    <2> HIDE DEF l, q, most
    <2> QED BY <2>3 DEF l, q
  <1> HIDE DEF most
  <1>5. /\ looked \in Seq(RealCycles) /\ Len(looked) = most /\ \A i \in 1 .. most : looked[i] = priced[i]
    <2>1. priced \in Seq(RealCycles)
      <3> HIDE DEF P
      <3> QED BY <1>2, <1>3
    <2> QED BY <1>3, <1>4, <2>1
  <1> HIDE DEF looked
  <1>6. out \in Seq(RealCycles) /\ KeysHeld(out, looked, Len(looked), Cooling) /\ Fresh(out, Cooling)
    <2>1. << >> \in Seq(RealCycles) /\ Fresh(<< >>, Cooling)
      BY EmptySeq DEF Fresh
    <2> QED BY <1>5, <2>1, EmitIs DEF Emitted
  <1> HIDE DEF out
  <1>7. more \in Seq(RealCycles)
    <2>1. B \in SUBSET RealCycles
      BY NegativeAreReal DEF RealCycles, Real, Tradable
    <2> HIDE DEF B
    <2>2. more \in Seq(B)
      BY <2>1, RealsAreFinite, BestFirstIs
    <2> QED BY <2>1, <2>2
  <1> DEFINE all == Emit(out, more, Cooling)
  <1>8. Scanned = all
    BY DEF Scanned, SecondOpinion, more, out, looked, most, priced
  <1> HIDE DEF more
  <1>9. all \in Seq(RealCycles) /\ Carries(out, all) /\ Fresh(all, Cooling)
    BY <1>6, <1>7, EmitIs DEF Emitted
  <1> HIDE DEF all
  <1>10. ASSUME FewPay, Len(all) < MaxPerScan, NEW c \in P PROVE KeyOf(c) \in Cooling \cup KeysOf(all)
    <2>1. most = Len(priced)
      BY <1>3, <1>4, <1>10 DEF FewPay
    <2>2. PICK i \in 1 .. Len(priced) : priced[i] = c
      BY <1>3
    <2>3. i \in 1 .. Len(looked) /\ looked[i] = c
      BY <1>5, <2>1, <2>2
    <2>4. Len(out) < MaxPerScan
      <3>1. Len(out) \in Nat /\ Len(all) \in Nat /\ Len(out) <= Len(all)
        BY <1>6, <1>9, LenProperties DEF Carries
      <3> QED BY <1>1, <1>10, <3>1
    <2>5. KeyOf(c) \in Cooling \cup KeysOf(out)
      BY <1>6, <2>3, <2>4 DEF KeysHeld
    <2> QED BY <1>9, <2>5 DEF Carries
  <1> QED BY <1>8, <1>9, <1>10

\* A cycle once offered, under a key and as long ago as the key was fired.
ShownAs(key, ago) ==
    \E d : /\ Tradable(d) /\ KeyOf(d) = key
           /\ \E s \in csShown : s.legs = Legs(d) /\ s.ago = ago

\* A cycle on cooldown keeps its key from firing.
Cools(s) ==
    /\ s.ago \in Nat
    /\ s.ago + 1 < CycleCooldown =>
          \E d : /\ Ring(d) /\ StartsFirst(d) /\ Legs(d) = s.legs
                 /\ KeyOf(d) \in DOMAIN csFired
                 /\ csFired[KeyOf(d)] \in Nat /\ csFired[KeyOf(d)] <= s.ago

CsInv ==
    /\ MoodsTyped /\ csOffered \in Seq(RealCycles)
    /\ csStarted \in BOOLEAN
    /\ csTemplates = IF csStarted THEN Enumerated(csAtStart) ELSE {}
    /\ csTruncated <=> csStarted /\ Truncates(csAtStart)
    /\ csAtStart \in SUBSET EdgeIds
    /\ csScanned => csStarted
    /\ \A key \in DOMAIN csFired : ShownAs(key, csFired[key])
    /\ \A s \in csShown : Cools(s)
    /\ NothingIsMissed

\* Short of the cap, one rotation of every ring there is was enumerated.
LEMMA EveryTradeIsEnumerated ==
    ASSUME NEW usable \in SUBSET EdgeIds, ~Truncates(usable),
           NEW k \in 1 .. Len(StartAssets), NEW c \in ClosedFrom(StartAssets[k], usable)
    PROVE  \E d \in Enumerated(usable) : Ring(d) /\ Legs(d) = Legs(c)
  <1> DEFINE Js == {j \in 1 .. Len(StartAssets) : \E d \in ClosedFrom(StartAssets[j], usable) : Legs(d) = Legs(c)}
             m == Min(Js)
  <1>1. k \in Js /\ Js \in SUBSET Nat
    OBVIOUS
  <1>2. m \in Js /\ \A j \in Js : m <= j
    <2> HIDE DEF Js
    <2> QED BY <1>1, LeastIsIn
  <1> HIDE DEF m
  <1>3. PICK d \in ClosedFrom(StartAssets[m], usable) : Legs(d) = Legs(c)
    BY <1>2
  <1>4. m \in 1 .. Len(StartAssets)
    BY <1>2
  <1>5. ASSUME NEW j \in 1 .. m - 1, NEW e \in ClosedFrom(StartAssets[j], usable), SameTrade(d, e) PROVE FALSE
    <2>1. j \in 1 .. Len(StartAssets) /\ j < m /\ j \in Nat /\ m \in Nat
      <3>1. Len(StartAssets) \in Nat
        BY SearchAssumption, LenProperties
      <3> QED BY <1>4, <3>1
    <2>2. Legs(e) = Legs(c)
      BY <1>3, <1>5 DEF SameTrade
    <2>3. j \in Js
      BY <1>5, <2>1, <2>2
    <2> HIDE DEF Js
    <2>4. m <= j
      BY <1>2, <2>3
    <2> QED BY <2>1, <2>4
  <1>6. d \in Enumerated(usable)
    <2>1. d \in Distinct(usable)
      BY <1>3, <1>4, <1>5 DEF Distinct
    <2> QED BY <2>1, UnlessTruncated
  <1>7. Ring(d)
    <2> DEFINE start == StartAssets[m]
    <2> HIDE DEF start
    <2>1. d \in ClosedFrom(start, usable)
      BY <1>3 DEF start
    <2> QED BY <2>1, ClosedIsRing
  <1> QED BY <1>3, <1>6, <1>7

\* What a scan that offers out and shows shown leaves out.
NothingMissedBy(out, shown) ==
    ~csTruncated /\ Len(out) < MaxPerScan /\ FewPay =>
        \A k \in 1 .. Len(StartAssets) :
            \A c \in ClosedFrom(StartAssets[k], csAtStart \cap UsableNow) :
                GainOf(c) >= MinEdge /\ Len(VenuesOf(c)) = 1 =>
                    \/ \E i \in 1 .. Len(out) : Legs(out[i]) = Legs(c)
                    \/ \E s \in shown : s.legs = Legs(c)

LEMMA OneVenue ==
    ASSUME NEW c, Ring(c), Len(VenuesOf(c)) = 1
    PROVE  \E v : \A i \in 1 .. Len(c) : Venue(c[i]) = v
  <1> DEFINE s == VenuesOf(c)
  <1>1. c \in Seq(EdgeIds)
    BY DEF Ring
  <1>2. s \in Seq(STRING) /\ ToSet(s) = {Venue(c[i]) : i \in 1 .. Len(c)}
    BY <1>1, VenuesAre
  <1>3. Len(s) = 1
    OBVIOUS
  <1> HIDE DEF s
  <1>4. DOMAIN s = 1 .. 1
    BY <1>2, <1>3, LenProperties
  <1>5. ToSet(s) = {s[1]}
    BY <1>4 DEF ToSet
  <1> QED BY <1>2, <1>5

LEMMA ScanMissesNothing ==
    ASSUME CsInv, csStarted, NEW shown,
           \A i \in 1 .. Len(Scanned) : \E s \in shown : s.legs = Legs(Scanned[i]),
           \A s \in OnCooldown : \E z \in shown : z.legs = s.legs
    PROVE  NothingMissedBy(Scanned, shown)
  <1> SUFFICES ASSUME ~csTruncated, Len(Scanned) < MaxPerScan, FewPay,
                      NEW k \in 1 .. Len(StartAssets),
                      NEW c \in ClosedFrom(StartAssets[k], csAtStart \cap UsableNow),
                      GainOf(c) >= MinEdge, Len(VenuesOf(c)) = 1
               PROVE  \E s \in shown : s.legs = Legs(c)
    BY DEF NothingMissedBy
  <1>1. /\ MoodsTyped /\ csTemplates = Enumerated(csAtStart) /\ csAtStart \in SUBSET EdgeIds
        /\ ~Truncates(csAtStart)
        /\ \A key \in DOMAIN csFired : ShownAs(key, csFired[key])
    BY DEF CsInv
  <1> DEFINE start == StartAssets[k]  both == csAtStart \cap UsableNow
  <1>2. both \in SUBSET EdgeIds /\ both \subseteq csAtStart /\ c \in ClosedFrom(start, both)
    BY <1>1
  <1>3. Ring(c) /\ Legs(c) \subseteq UsableNow
    <2> HIDE DEF start, both
    <2>1. Ring(c) /\ Legs(c) \subseteq both
      BY <1>2, ClosedIsRing
    <2> QED BY <2>1 DEF both
  <1>4. c \in ClosedFrom(StartAssets[k], csAtStart)
    <2> HIDE DEF start, both
    <2>1. c \in ClosedFrom(start, csAtStart)
      BY <1>1, <1>2, WalksGrow
    <2> QED BY <2>1 DEF start
  <1> HIDE DEF start, both
  <1>5. PICK d \in Enumerated(csAtStart) : Ring(d) /\ Legs(d) = Legs(c)
    BY <1>1, <1>4, EveryTradeIsEnumerated
  <1>6. GainOf(d) = GainOf(c)
    <2>1. PICK i \in 1 .. Len(c) : d = Rotated(c, i)
      BY <1>3, <1>5, SameLegsRotate
    <2> QED BY <1>1, <1>3, <2>1, RotationGains DEF Ring
  <1>7. d \in Priced(csTemplates)
    BY <1>1, <1>3, <1>5, <1>6 DEF Priced
  <1>8. \A e \in csTemplates : Tradable(e) /\ StartsFirst(e)
    BY <1>1, EnumeratedAre
  <1>9. KeyOf(d) \in Cooling \cup KeysOf(Scanned) /\ Scanned \in Seq(RealCycles)
    BY <1>1, <1>7, <1>8, ScannedIs
  <1>10. PICK v : \A i \in 1 .. Len(d) : Venue(d[i]) = v
    <2>1. PICK v : \A i \in 1 .. Len(c) : Venue(c[i]) = v
      BY <1>3, OneVenue
    <2>2. Legs(d) = {d[i] : i \in 1 .. Len(d)} /\ Legs(c) = {c[i] : i \in 1 .. Len(c)}
      BY <1>3, <1>5, LenProperties DEF Ring, Legs, ToSet
    <2>3. ASSUME NEW i \in 1 .. Len(d) PROVE Venue(d[i]) = v
      <3>1. PICK j \in 1 .. Len(c) : d[i] = c[j]
        <4>1. d[i] \in Legs(c)
          BY <1>5, <2>2
        <4> QED BY <2>2, <4>1
      <3>2. Venue(c[j]) = v
        BY <2>1
      <3> QED BY <3>1, <3>2
    <2> QED BY <2>3
  <1>11. ASSUME NEW e, Ring(e), KeyOf(e) = KeyOf(d) PROVE Legs(e) = Legs(c)
    <2>1. Ring(d)
      BY <1>5
    <2>2. e = d
      BY <1>10, <1>11, <2>1, KeyTells
    <2> QED BY <1>5, <2>2
  <1>12. CASE KeyOf(d) \in KeysOf(Scanned)
    <2> DEFINE out == Scanned
    <2>1. out \in Seq(RealCycles) /\ KeyOf(d) \in KeysOf(out)
      BY <1>9, <1>12
    <2>2. \A i \in 1 .. Len(out) : \E s \in shown : s.legs = Legs(out[i])
      OBVIOUS
    <2> HIDE DEF out
    <2>3. PICK i \in 1 .. Len(out) : KeyOf(out[i]) = KeyOf(d)
      BY <2>1 DEF KeysOf
    <2>4. out[i] \in RealCycles
      BY <2>1, ElementOfSeq
    <2>5. Ring(out[i])
      BY <2>4, TradableIsRing DEF RealCycles, Real
    <2>6. Legs(out[i]) = Legs(c)
      BY <1>11, <2>3, <2>5
    <2> QED BY <2>2, <2>6
  <1>13. CASE KeyOf(d) \in Cooling
    <2> DEFINE key == KeyOf(d)
    <2>1. key \in DOMAIN csFired /\ csFired[key] + 1 < CycleCooldown
      BY <1>13 DEF Cooling
    <2>2. ShownAs(key, csFired[key])
      BY <1>1, <2>1
    <2>3. PICK e : /\ Tradable(e) /\ KeyOf(e) = key
                   /\ \E s \in csShown : s.legs = Legs(e) /\ s.ago = csFired[key]
      BY <2>2 DEF ShownAs
    <2>4. PICK s \in csShown : s.legs = Legs(e) /\ s.ago = csFired[key]
      BY <2>3
    <2>5. Legs(e) = Legs(c)
      BY <1>11, <2>3, TradableIsRing
    <2>6. s \in OnCooldown
      BY <2>1, <2>4 DEF OnCooldown
    <2> QED BY <2>4, <2>5, <2>6
  <1> QED BY <1>9, <1>12, <1>13

LEMMA CsInvInit == CsInit => CsInv
  <1> SUFFICES ASSUME CsInit PROVE CsInv
    OBVIOUS
  <1>1. MoodsTyped
    <2>1. ASSUME NEW i \in DOMAIN Pairs PROVE csMood[i] \in [buy : Int, sell : Int, usable : SUBSET {"buy", "sell"}]
      <3>1. csMood[i] \in Moods[i] /\ Moods[i] \subseteq [buy : Int, sell : Int, usable : SUBSET {"buy", "sell"}]
        BY SearchAssumption DEF CsInit
      <3> QED BY <3>1
    <2>2. csMood \in [DOMAIN Pairs -> UNION {Moods[i] : i \in DOMAIN Pairs}]
      BY DEF CsInit
    <2> QED BY <2>1, <2>2 DEF MoodsTyped
  <1>2. csOffered \in Seq(RealCycles)
    BY EmptySeq DEF CsInit
  <1>3. /\ csStarted = FALSE /\ csScanned = FALSE /\ csTemplates = {} /\ csTruncated = FALSE
        /\ csAtStart = {} /\ csFired = << >>
    BY DEF CsInit
  <1>4. DOMAIN csFired = {}
    BY <1>3
  <1>5. NothingIsMissed
    BY <1>3 DEF NothingIsMissed
  <1>6. csShown = {}
    BY DEF CsInit
  <1> QED BY <1>1, <1>2, <1>3, <1>4, <1>5, <1>6 DEF CsInv

LEMMA CsInvStep == CsInv /\ [CsNext]_csVars => CsInv'
  <1> SUFFICES ASSUME CsInv, [CsNext]_csVars PROVE CsInv'
    OBVIOUS
  <1>1. /\ MoodsTyped /\ csOffered \in Seq(RealCycles) /\ csStarted \in BOOLEAN
        /\ csTemplates = IF csStarted THEN Enumerated(csAtStart) ELSE {}
        /\ (csTruncated <=> csStarted /\ Truncates(csAtStart))
        /\ csAtStart \in SUBSET EdgeIds /\ (csScanned => csStarted)
        /\ \A key \in DOMAIN csFired : ShownAs(key, csFired[key])
        /\ \A s \in csShown : Cools(s)
    BY DEF CsInv
  <1>2. ASSUME csMood' = csMood PROVE MoodsTyped' /\ RealCycles' = RealCycles
    BY <1>1, <1>2 DEF MoodsTyped, RealCycles, Real, UsableNow, GainOf, Gain, Mood
  <1>3. ASSUME csFired' = csFired, csShown' = csShown
        PROVE  /\ \A key \in DOMAIN csFired' : ShownAs(key, csFired[key])'
               /\ \A s \in csShown' : Cools(s)'
    BY <1>1, <1>3 DEF ShownAs, Cools
  <1>4. CASE UNCHANGED csVars
    <2>1. /\ csMood' = csMood /\ csOffered' = csOffered /\ csStarted' = csStarted /\ csTemplates' = csTemplates
          /\ csAtStart' = csAtStart /\ csScanned' = csScanned /\ csFired' = csFired /\ csShown' = csShown
          /\ csTruncated' = csTruncated
      BY <1>4 DEF csVars
    <2>2. NothingIsMissed'
      BY <2>1 DEF CsInv, NothingIsMissed, Priced, UsableNow, GainOf, Gain, Mood
    <2> QED BY <1>1, <1>2, <1>3, <2>1, <2>2 DEF CsInv
  <1>5. CASE EngineStarts
    <2>1. /\ csMood' = csMood /\ csOffered' = csOffered /\ csStarted' = TRUE /\ csTemplates' = Enumerated(UsableNow)
          /\ csAtStart' = UsableNow /\ csScanned' = csScanned /\ csFired' = csFired /\ csShown' = csShown
          /\ ~csStarted /\ (csTruncated' <=> Truncates(UsableNow))
      BY <1>5 DEF EngineStarts
    <2>2. ~csScanned'
      BY <1>1, <2>1
    <2>3. NothingIsMissed'
      BY <2>2 DEF NothingIsMissed
    <2>4. csAtStart' \in SUBSET EdgeIds
      BY <2>1 DEF UsableNow
    <2> QED BY <1>1, <1>2, <1>3, <2>1, <2>2, <2>3, <2>4 DEF CsInv
  <1>6. ASSUME NEW i \in DOMAIN Pairs, Moves(i) PROVE CsInv'
    <2>1. /\ csOffered' = << >> /\ csScanned' = FALSE /\ csStarted' = csStarted /\ csTemplates' = csTemplates
          /\ csAtStart' = csAtStart /\ csFired' = csFired /\ csShown' = csShown
          /\ csTruncated' = csTruncated
      BY <1>6 DEF Moves
    <2>2. MoodsTyped'
      <3>1. PICK m \in Moods[i] : csMood' = [csMood EXCEPT ![i] = m]
        BY <1>6 DEF Moves
      <3>2. m \in [buy : Int, sell : Int, usable : SUBSET {"buy", "sell"}]
        BY SearchAssumption
      <3> QED BY <1>1, <3>1, <3>2 DEF MoodsTyped
    <2>3. csOffered' \in Seq(RealCycles')
      BY <2>1, EmptySeq
    <2>4. NothingIsMissed'
      BY <2>1 DEF NothingIsMissed
    <2> QED BY <1>1, <1>3, <2>1, <2>2, <2>3, <2>4 DEF CsInv
  <1>7. CASE Scan
    <2> DEFINE out == Scanned
               fired == [k \in Cooling \cup KeysOf(out) |-> IF k \in KeysOf(out) THEN 0 ELSE csFired[k] + 1]
               shown == {[legs |-> Legs(out[i]), ago |-> 0] : i \in 1 .. Len(out)}
                        \cup {[legs |-> s.legs, ago |-> s.ago + 1] : s \in OnCooldown}
    <2>1. /\ csStarted /\ csOffered' = out /\ csFired' = fired /\ csShown' = shown
          /\ csMood' = csMood /\ csStarted' = csStarted /\ csTemplates' = csTemplates /\ csAtStart' = csAtStart
          /\ csTruncated' = csTruncated
      BY <1>7 DEF Scan
    <2>2. \A c \in csTemplates : Tradable(c) /\ StartsFirst(c)
      BY <1>1, <2>1, EnumeratedAre
    <2>3. out \in Seq(RealCycles) /\ Fresh(out, Cooling)
      BY <1>1, <2>2, ScannedIs
    <2>4. ASSUME NEW i \in 1 .. Len(out) PROVE \E s \in shown : s.legs = Legs(out[i]) /\ s.ago = 0
      <3> DEFINE z == [legs |-> Legs(out[i]), ago |-> 0]
      <3>1. z \in shown /\ z.legs = Legs(out[i]) /\ z.ago = 0
        OBVIOUS
      <3> HIDE DEF shown, z, out
      <3> QED BY <3>1
    <2>5. ASSUME NEW s \in OnCooldown PROVE \E z \in shown : z.legs = s.legs /\ z.ago = s.ago + 1
      <3> DEFINE z == [legs |-> s.legs, ago |-> s.ago + 1]
      <3>1. z \in shown /\ z.legs = s.legs /\ z.ago = s.ago + 1
        OBVIOUS
      <3> HIDE DEF shown, z
      <3> QED BY <3>1
    <2>6. NothingMissedBy(out, shown)
      <3> HIDE DEF shown
      <3> QED BY <2>1, <2>4, <2>5, ScanMissesNothing
    <2> HIDE DEF out
    <2>7. NothingIsMissed'
      <3> HIDE DEF shown, fired
      <3>1. UsableNow' = UsableNow /\ FewPay' = FewPay /\ \A c : GainOf(c)' = GainOf(c)
        BY <2>1 DEF FewPay, Priced, UsableNow, GainOf, Gain, Mood
      <3> QED BY <2>1, <2>6, <3>1 DEF NothingIsMissed, NothingMissedBy, FewPay
    <2>8. ASSUME NEW key \in DOMAIN csFired' PROVE ShownAs(key, csFired[key])'
      <3>1. key \in Cooling \cup KeysOf(out) /\ csFired'[key] = IF key \in KeysOf(out) THEN 0 ELSE csFired[key] + 1
        BY <2>1
      <3> SUFFICES \E d : /\ Tradable(d) /\ KeyOf(d) = key
                          /\ \E s \in shown : s.legs = Legs(d) /\ s.ago = csFired'[key]
        <4> HIDE DEF shown
        <4> QED BY <2>1 DEF ShownAs
      <3>2. CASE key \in KeysOf(out)
        <4>1. PICK i \in 1 .. Len(out) : KeyOf(out[i]) = key
          BY <3>2 DEF KeysOf
        <4>2. out[i] \in RealCycles
          BY <2>3, ElementOfSeq
        <4>3. Tradable(out[i])
          BY <4>2 DEF RealCycles, Real
        <4> HIDE DEF shown, fired
        <4> QED BY <2>4, <3>1, <3>2, <4>1, <4>3
      <3>3. CASE key \notin KeysOf(out)
        <4> HIDE DEF shown, fired
        <4>1. key \in DOMAIN csFired /\ csFired[key] + 1 < CycleCooldown
          BY <3>1, <3>3 DEF Cooling
        <4>2. ShownAs(key, csFired[key])
          BY <1>1, <4>1
        <4>3. PICK d : /\ Tradable(d) /\ KeyOf(d) = key
                       /\ \E s \in csShown : s.legs = Legs(d) /\ s.ago = csFired[key]
          BY <4>2 DEF ShownAs
        <4>4. PICK s \in csShown : s.legs = Legs(d) /\ s.ago = csFired[key]
          BY <4>3
        <4>5. s \in OnCooldown
          BY <4>1, <4>4 DEF OnCooldown
        <4>6. PICK z \in shown : z.legs = s.legs /\ z.ago = s.ago + 1
          BY <2>5, <4>5
        <4>7. z.legs = Legs(d) /\ z.ago = csFired'[key]
          BY <3>1, <3>3, <4>4, <4>6
        <4> QED BY <4>3, <4>6, <4>7
      <3> QED BY <3>2, <3>3
    <2>9. MoodsTyped' /\ csOffered' \in Seq(RealCycles')
      <3>1. MoodsTyped' /\ RealCycles' = RealCycles
        BY <1>2, <2>1
      <3> QED BY <2>1, <2>3, <3>1
    <2>10. ASSUME NEW s \in csShown' PROVE Cools(s)'
      <3>1. s \in shown
        BY <2>1
      <3>2. CASE \E i \in 1 .. Len(out) : s = [legs |-> Legs(out[i]), ago |-> 0]
        <4>1. PICK i \in 1 .. Len(out) : s = [legs |-> Legs(out[i]), ago |-> 0]
          BY <3>2
        <4>2. out[i] \in RealCycles
          BY <2>3, ElementOfSeq
        <4>3. Ring(out[i]) /\ StartsFirst(out[i])
          BY <4>2, TradableIsRing DEF RealCycles, Real
        <4> DEFINE key == KeyOf(out[i])
        <4>4. key \in KeysOf(out)
          BY DEF KeysOf
        <4> HIDE DEF key
        <4>5. key \in DOMAIN fired /\ fired[key] = 0
          BY <4>4
        <4>6. s.ago = 0 /\ s.legs = Legs(out[i])
          BY <4>1
        <4> HIDE DEF fired
        <4> QED BY <2>1, <4>3, <4>5, <4>6 DEF Cools, key
      <3>3. CASE \E z \in OnCooldown : s = [legs |-> z.legs, ago |-> z.ago + 1]
        <4>1. PICK z \in OnCooldown : s = [legs |-> z.legs, ago |-> z.ago + 1]
          BY <3>3
        <4>2. s.legs = z.legs /\ s.ago = z.ago + 1 /\ Cools(z) /\ z.ago + 1 < CycleCooldown
          BY <1>1, <4>1 DEF OnCooldown
        <4>3. PICK d : /\ Ring(d) /\ StartsFirst(d) /\ Legs(d) = z.legs
                       /\ KeyOf(d) \in DOMAIN csFired
                       /\ csFired[KeyOf(d)] \in Nat /\ csFired[KeyOf(d)] <= z.ago
          BY <4>2 DEF Cools
        <4> DEFINE key == KeyOf(d)  was == csFired[key]
        <4>4. z.ago \in Nat /\ s.ago \in Nat
          BY <4>2 DEF Cools
        <4>5. was \in Nat /\ was <= z.ago /\ key \in DOMAIN csFired
          BY <4>3
        <4>6. was + 1 < CycleCooldown
          <5>1. CycleCooldown \in Nat
            BY SearchAssumption
          <5> HIDE DEF was
          <5> QED BY <4>2, <4>4, <4>5, <5>1
        <4>7. key \in Cooling
          BY <4>5, <4>6 DEF Cooling
        <4>8. key \in DOMAIN fired /\ fired[key] = IF key \in KeysOf(out) THEN 0 ELSE was + 1
          BY <4>7
        <4> HIDE DEF fired, was
        <4>9. fired[key] \in Nat /\ fired[key] <= s.ago
          <5> HIDE DEF key
          <5>1. fired[key] = 0 \/ fired[key] = was + 1
            BY <4>8
          <5> QED BY <4>2, <4>4, <4>5, <5>1
        <4> QED BY <2>1, <4>2, <4>3, <4>4, <4>8, <4>9 DEF Cools, key
      <3> QED BY <3>1, <3>2, <3>3
    <2> HIDE DEF shown, fired
    <2> QED BY <1>1, <2>1, <2>7, <2>8, <2>9, <2>10 DEF CsInv
  <1> QED BY <1>4, <1>5, <1>6, <1>7 DEF CsNext

\* What the strategy offers the engine can be traded as it stands, in the prices of that
\* scan: two searches, templates older than the prices, and a rotation, and yet a chain of
\* usable edges that starts from an asset to be held.
THEOREM OffersCanBeTraded == SearchSpec => []OffersAreReal
  <1>1. CsInv => OffersAreReal
    <2> SUFFICES ASSUME CsInv, NEW k \in 1 .. Len(csOffered) PROVE Real(csOffered[k])
      BY DEF OffersAreReal, Real, Tradable
    <2>1. csOffered[k] \in RealCycles
      BY ElementOfSeq DEF CsInv
    <2> QED BY <2>1 DEF RealCycles
  <1> QED BY <1>1, CsInvInit, CsInvStep, PTL DEF SearchSpec

\* Short of the cap on templates, the dedupe of the enumerator and the keys of the cooldown
\* lose no trade: with room left, what pays on one venue is offered, or was less than a
\* cooldown ago.
THEOREM NoTradeIsMissed == SearchSpec => []NothingIsMissed
  <1>1. CsInv => NothingIsMissed
    BY DEF CsInv
  <1> QED BY <1>1, CsInvInit, CsInvStep, PTL DEF SearchSpec

LEMMA ScanIsSpaced ==
    ASSUME CsInv, csStarted
    PROVE  /\ \A i \in DOMAIN Scanned : \A s \in OnCooldown : s.legs # Legs(Scanned[i])
           /\ \A i, j \in DOMAIN Scanned : Legs(Scanned[i]) = Legs(Scanned[j]) => i = j
  <1> DEFINE out == Scanned
  <1>1. \A c \in csTemplates : Tradable(c) /\ StartsFirst(c)
    BY EnumeratedAre DEF CsInv
  <1>2. out \in Seq(RealCycles) /\ Fresh(out, Cooling)
    BY <1>1, ScannedIs DEF CsInv
  <1> HIDE DEF out
  <1>3. DOMAIN out = 1 .. Len(out)
    BY <1>2, LenProperties
  <1>4. ASSUME NEW i \in 1 .. Len(out) PROVE Ring(out[i]) /\ StartsFirst(out[i])
    <2>1. out[i] \in RealCycles
      BY <1>2, ElementOfSeq
    <2> QED BY <2>1, TradableIsRing DEF RealCycles, Real
  <1>5. ASSUME NEW i \in 1 .. Len(out), NEW s \in OnCooldown, s.legs = Legs(out[i]) PROVE FALSE
    <2>1. Cools(s) /\ s.ago + 1 < CycleCooldown
      BY DEF CsInv, OnCooldown
    <2>2. PICK d : /\ Ring(d) /\ StartsFirst(d) /\ Legs(d) = s.legs
                   /\ KeyOf(d) \in DOMAIN csFired
                   /\ csFired[KeyOf(d)] \in Nat /\ csFired[KeyOf(d)] <= s.ago
      BY <2>1 DEF Cools
    <2> DEFINE key == KeyOf(d)  was == csFired[key]  ago == s.ago
    <2>3. key \in Cooling
      <3>1. ago \in Nat /\ was \in Nat /\ was <= ago /\ ago + 1 < CycleCooldown /\ CycleCooldown \in Nat
        BY <2>1, <2>2, SearchAssumption DEF Cools
      <3>2. was + 1 < CycleCooldown
        <4> HIDE DEF was, ago
        <4> QED BY <3>1
      <3> QED BY <2>2, <3>2 DEF Cooling
    <2>4. d = out[i]
      BY <1>4, <1>5, <2>2, TradeIsOneCycle
    <2> QED BY <1>2, <2>3, <2>4 DEF Fresh
  <1>6. ASSUME NEW i \in 1 .. Len(out), NEW j \in 1 .. Len(out), Legs(out[i]) = Legs(out[j]) PROVE i = j
    <2>1. out[i] = out[j]
      BY <1>4, <1>6, TradeIsOneCycle
    <2>2. KeyOf(out[i]) = KeyOf(out[j])
      BY <2>1
    <2> QED BY <1>2, <2>2 DEF Fresh
  <1> QED BY <1>3, <1>5, <1>6 DEF out

\* Both searches write a trade down from its first start asset, so one key stands for it
\* whoever found it, and a cooldown holds for the trade.
THEOREM OffersKeepTheirDistance == SearchSpec => OffersAreSpaced
  <1>1. ASSUME CsInv, [CsNext]_csVars, csVars' # csVars, csScanned'
        PROVE  /\ \A i \in DOMAIN csOffered' : \A s \in OnCooldown : s.legs # Legs(csOffered'[i])
               /\ \A i, j \in DOMAIN csOffered' : Legs(csOffered'[i]) = Legs(csOffered'[j]) => i = j
    <2>1. CASE EngineStarts
      <3>1. ~csScanned'
        BY <1>1, <2>1 DEF EngineStarts, CsInv
      <3> QED BY <1>1, <3>1
    <2>2. CASE \E i \in DOMAIN Pairs : Moves(i)
      <3>1. ~csScanned'
        BY <2>2 DEF Moves
      <3> QED BY <1>1, <3>1
    <2>3. CASE Scan
      <3>1. csStarted /\ csOffered' = Scanned
        BY <2>3 DEF Scan
      <3> QED BY <1>1, <3>1, ScanIsSpaced
    <2> QED BY <1>1, <2>1, <2>2, <2>3 DEF CsNext
  <1>2. CsInv /\ [CsNext]_csVars =>
          [csScanned' =>
             /\ \A i \in DOMAIN csOffered' : \A s \in OnCooldown : s.legs # Legs(csOffered'[i])
             /\ \A i, j \in DOMAIN csOffered' : Legs(csOffered'[i]) = Legs(csOffered'[j]) => i = j]_csVars
    BY <1>1
  <1> QED BY <1>2, CsInvInit, CsInvStep, PTL DEF SearchSpec, OffersAreSpaced
=============================================================================
