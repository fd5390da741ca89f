---------------------------- MODULE CycleSearch -----------------------------
(***************************************************************************)
(* The triangular strategy: cycle templates enumerated when the engine     *)
(* starts and priced on every scan, Bellman-Ford beside them, a cooldown   *)
(* per cycle, and the engine, which considers the first few of what a scan *)
(* offers.                                                                 *)
(*                                                                         *)
(* An edge's rate is its logarithm here, a whole number of gain, so that a *)
(* product of rates is a sum of gains; a weight is a gain with its sign    *)
(* turned.  Whether an edge is usable, a fresh book among the reasons, is  *)
(* decided when the graph is built, at the start of the scan.              *)
(***************************************************************************)
EXTENDS Sums, FiniteSets, FiniteSetsExt, SequencesExt

CONSTANTS
    Pairs,        \* the symbols in the order they are built: [base, quote, venue]
    Moods,        \* Moods[i]: the prices pair i may have: [buy, sell, usable sides]
    StartAssets,  \* start_assets, in order of preference
    MinLength, MaxLength,
    MaxTemplates, \* max_templates
    CrossVenue,   \* allow_cross_venue
    MinEdge,      \* min_edge_bps
    MaxPerScan,
    CycleCooldown,     \* cooldown_ns, in scans
    MaxConcurrent \* strategy.max_concurrent_cycles

ASSUME SearchAssumption ==
    /\ MinLength \in Nat /\ MaxLength \in Nat /\ 3 <= MinLength /\ MinLength <= MaxLength
    /\ {MaxTemplates, MinEdge, MaxPerScan, CycleCooldown, MaxConcurrent} \subseteq Nat \ {0}
    /\ CrossVenue \in BOOLEAN /\ StartAssets \in Seq(STRING) \ {<< >>}
    /\ Pairs \in Seq([base : STRING, quote : STRING, venue : STRING])
    /\ \A i \in DOMAIN Pairs : Pairs[i].base # Pairs[i].quote
    /\ \A i, j \in DOMAIN Pairs :   \* the graph keeps one edge per (from, to, venue)
          i # j /\ Pairs[i].venue = Pairs[j].venue =>
              {Pairs[i].base, Pairs[i].quote} # {Pairs[j].base, Pairs[j].quote}
    /\ \A i \in DOMAIN Pairs : Moods[i] \subseteq [buy : Int, sell : Int, usable : SUBSET {"buy", "sell"}]
    /\ \A i \in DOMAIN Pairs : \A m \in Moods[i] : m.buy + m.sell <= 0

VARIABLES
    csMood,       \* the prices of each pair
    csStarted,    \* the engine enumerated the templates
    csTemplates,  \* the enumerator's templates
    csTruncated,  \* truncated: the enumerator stopped at max_templates
    csFired,      \* _last_fired: the keys on cooldown and how long ago each fired
    csOffered,    \* what the last scan returned, << >> once anything else happens
    csScanned,    \* the last step was a scan
    csAtStart,    \* the edges that were usable when the templates were made
    csShown       \* [legs, ago]: the cycles offered, whatever their key

csVars == <<csMood, csStarted, csTemplates, csTruncated, csFired, csOffered, csScanned, csAtStart,
            csShown>>

-----------------------------------------------------------------------------
(* The graph of a scan. *)

\* Edge 2i-1 buys the base of pair i, edge 2i sells it.
EdgeIds == 1 .. 2 * Len(Pairs)
PairOf(e) == Pairs[(e + 1) \div 2]
Buys(e) == e % 2 = 1
From(e) == IF Buys(e) THEN PairOf(e).quote ELSE PairOf(e).base
To(e) == IF Buys(e) THEN PairOf(e).base ELSE PairOf(e).quote
Venue(e) == PairOf(e).venue

Side(e) == IF Buys(e) THEN "buy" ELSE "sell"
Mood(e) == csMood[(e + 1) \div 2]

Gain(e) == IF Buys(e) THEN Mood(e).buy ELSE Mood(e).sell
UsableNow == {e \in EdgeIds : Side(e) \in Mood(e).usable}

GainOf(cycle) == SumSeq([i \in 1 .. Len(cycle) |-> Gain(cycle[i])])
PathOf(cycle) == [i \in 1 .. Len(cycle) |-> From(cycle[i])]
VenuesOf(cycle) ==
    LET seen[i \in 0 .. Len(cycle)] ==
            IF i = 0 THEN << >>
            ELSE LET before == seen[i - 1]
                 IN  IF Venue(cycle[i]) \in ToSet(before) THEN before ELSE Append(before, Venue(cycle[i]))
    IN  seen[Len(cycle)]

\* Mutant of KeyOf: a cycle and its reverse share a cooldown.
KeyOfAssets(cycle) == <<ToSet(PathOf(cycle)), VenuesOf(cycle)>>

KeyOf(cycle) == <<PathOf(cycle), VenuesOf(cycle)>>

\* nodes: the assets an edge leaves, in the order of the edges.
Nodes(usable) ==
    LET seen[e \in 0 .. 2 * Len(Pairs)] ==
            IF e = 0 THEN << >>
            ELSE LET before == seen[e - 1]
                 IN  IF e \in usable /\ From(e) \notin ToSet(before) THEN Append(before, From(e)) ELSE before
    IN  seen[2 * Len(Pairs)]

-----------------------------------------------------------------------------
(* CycleEnumerator. *)

\* The edges on which a path goes on: from where it is, unless it is back at its start, to
\* an asset it has not been at, or to its start, and on one venue.
Onward(p, start, usable) ==
    LET here == IF p = << >> THEN start ELSE To(p[Len(p)])
        met == {From(p[i]) : i \in 1 .. Len(p)} \cup {here}
    IN  {e \in usable :
            /\ From(e) = here /\ To(e) \notin met \ {start}
            /\ p # << >> => here # start /\ (CrossVenue \/ Venue(e) = Venue(p[1]))}

\* The paths of n edges from an asset.
Walks(start, usable) ==
    LET W[n \in 0 .. MaxLength] ==
            IF n = 0 THEN {<< >>}
            ELSE UNION {{Append(p, e) : e \in Onward(p, start, usable)} : p \in W[n - 1]}
    IN  W

ClosedFrom(start, usable) ==
    {p \in UNION {Walks(start, usable)[n] : n \in MinLength .. MaxLength} : To(p[Len(p)]) = start}

Legs(cycle) == ToSet(cycle)

\* Rotations are one trade, reversals are not.
SameTrade(c, d) == Legs(c) = Legs(d)

\* Of each trade the rotation from the first start asset on it is kept.  (Nothing closes
\* from a start asset that is no node.)
Distinct(usable) ==
    LET From1(k) == ClosedFrom(StartAssets[k], usable)
    IN  UNION {{c \in From1(k) : ~\E j \in 1 .. k - 1 : \E d \in From1(j) : SameTrade(c, d)}
               : k \in 1 .. Len(StartAssets)}

\* The order the walk finds cycles in: by start asset, and depth first over the edges.
FoundBefore(c, d) ==
    LET StartOf(x) == Min({k \in DOMAIN StartAssets : StartAssets[k] = From(x[1])})
    IN  \/ StartOf(c) < StartOf(d)
        \/ /\ StartOf(c) = StartOf(d)
           /\ \E i \in DOMAIN c \cap DOMAIN d : c[i] < d[i] /\ \A j \in 1 .. i - 1 : c[j] = d[j]

\* enumerate stops at the cap: the first MaxTemplates it finds are all there are.
Enumerated(usable) ==
    LET all == Distinct(usable)
    IN  {c \in all : Cardinality({d \in all : FoundBefore(d, c)}) < MaxTemplates}

Truncates(usable) == MaxTemplates <= Cardinality(Distinct(usable))

\* Mutant of Priced: legs that are not usable any more are priced all the same.
PricedAll(templates) == {c \in templates : GainOf(c) >= MinEdge}

\* price_all: the templates whose every edge is usable and whose gain clears the screen.
Priced(templates) == {c \in templates : Legs(c) \subseteq UsableNow /\ GainOf(c) >= MinEdge}

BestFirst(cycles) ==
    LET gain == [c \in cycles |-> GainOf(c)]
        Best(rest) == CHOOSE c \in rest : \A d \in rest : gain[c] >= gain[d]
        sorted[n \in 0 .. Cardinality(cycles)] ==
            IF n = 0 THEN << >>
            ELSE LET before == sorted[n - 1] IN Append(before, Best(cycles \ ToSet(before)))
    IN  sorted[Cardinality(cycles)]

-----------------------------------------------------------------------------
(* find_negative_cycles. *)

Far == 1000   \* more than any distance
None == 0
Lost == "none"

TradedAssets == {From(e) : e \in EdgeIds} \cup {To(e) : e \in EdgeIds}

\* One look at an edge; last is the node relaxed last.
Relax(search, e) ==
    LET candidate == search.dist[From(e)] - Gain(e)
    IN  IF search.dist[From(e)] # Far /\ candidate < search.dist[To(e)]
        THEN [dist |-> [search.dist EXCEPT ![To(e)] = candidate],
              pred |-> [search.pred EXCEPT ![To(e)] = e], last |-> To(e), open |-> search.open]
        ELSE search

\* The usable edges, node by node.
PassOrder ==
    LET usable == UsableNow
        nodes == Nodes(usable)
        EdgesFrom(node) ==
            Joined([e \in EdgeIds |-> IF e \in usable /\ From(e) = node THEN <<e>> ELSE << >>])
    IN  Joined([k \in 1 .. Len(nodes) |-> EdgesFrom(nodes[k])])

\* One pass over them; a pass that relaxes nothing proves there is no cycle.
Pass(search, order) ==
    LET after[k \in 0 .. Len(order)] ==
            IF k = 0 THEN [search EXCEPT !.last = Lost] ELSE Relax(after[k - 1], order[k])
        end == after[Len(order)]
    IN  [end EXCEPT !.open = @ /\ end.last # Lost]

\* As many passes as nodes.
Relaxed ==
    LET nodes == Nodes(UsableNow)
        order == PassOrder
        start == [dist |-> [a \in TradedAssets |-> IF a \in ToSet(nodes) THEN 0 ELSE Far],
                  pred |-> [a \in TradedAssets |-> None], last |-> Lost, open |-> TRUE]
        search[k \in 0 .. Len(nodes)] == IF k = 0 THEN start ELSE Pass(search[k - 1], order)
    IN  search[Len(nodes)]

\* The nodes met walking back over the predecessors.
WalkBack(pred, entry, steps) ==
    LET at[k \in 0 .. steps] ==
            IF k = 0 THEN entry
            ELSE LET here == at[k - 1]
                 IN  IF here = Lost \/ pred[here] = None THEN Lost ELSE From(pred[here])
    IN  at

\* As many steps back from the last relaxed node as there are nodes.
EntryPoints(search) ==
    LET n == Len(Nodes(UsableNow))
        at == WalkBack(search.pred, search.last, n)
    IN  {at[k] : k \in 1 .. n} \ {Lost}

\* Follow the predecessors until a node repeats; << >> if that takes too long.
ExtractCycle(search, entry) ==
    LET at == WalkBack(search.pred, entry, MaxLength + 3)
        repeats == {k \in 1 .. MaxLength + 3 : at[k] # Lost /\ \E j \in 0 .. k - 1 : at[j] = at[k]}
        again == Min(repeats)
        first == CHOOSE j \in 0 .. again - 1 : at[j] = at[again]
    IN  IF repeats = {} THEN << >> ELSE [i \in 1 .. again - first |-> search.pred[at[again - i]]]

\* The rotation that starts at the first start asset on the cycle, << >> if there is none.
RotateToStart(cycle) ==
    LET held == {k \in 1 .. Len(StartAssets) : StartAssets[k] \in ToSet(PathOf(cycle))}
        i == CHOOSE i \in 1 .. Len(cycle) : From(cycle[i]) = StartAssets[Min(held)]
    IN  IF held = {} THEN << >> ELSE SubSeq(cycle, i, Len(cycle)) \o SubSeq(cycle, 1, i - 1)

NegativeCycles ==
    LET search == Relaxed
        found == {ExtractCycle(search, n) : n \in EntryPoints(search)}
    IN  IF Len(Nodes(UsableNow)) < MinLength \/ ~search.open THEN {}
        ELSE {RotateToStart(c) : c \in {c \in found : /\ Len(c) \in MinLength .. MaxLength
                                                      /\ GainOf(c) > 0 /\ GainOf(c) >= MinEdge}}
             \ {<< >>}

-----------------------------------------------------------------------------
(* TriangularStrategy.scan. *)

KeysOf(cycles) == {KeyOf(cycles[i]) : i \in 1 .. Len(cycles)}

\* Offer the cycles in turn, unless one is on cooldown or the scan is full; to be offered
\* starts the cooldown.
Emit(before, cycles, cooling) ==
    LET out[k \in 0 .. Len(cycles)] ==
            IF k = 0 THEN before
            ELSE LET sofar == out[k - 1]
                 IN  IF Len(sofar) >= MaxPerScan \/ KeyOf(cycles[k]) \in cooling \cup KeysOf(sofar)
                     THEN sofar ELSE Append(sofar, cycles[k])
    IN  out[Len(cycles)]

\* The keys that are still on cooldown when the scan comes.
Cooling == {k \in DOMAIN csFired : csFired[k] + 1 < CycleCooldown}

\* Mutant of SecondOpinion: what Bellman-Ford finds is offered whatever is on cooldown.
SecondOpinionUncooled(out) ==
    LET paths == {PathOf(out[i]) : i \in 1 .. Len(out)}
    IN  Emit(out, BestFirst({c \in NegativeCycles : PathOf(c) \notin paths}), {})

\* Bellman-Ford's cycles, unless one with the same assets was offered.
SecondOpinion(out) ==
    LET paths == {PathOf(out[i]) : i \in 1 .. Len(out)}
    IN  Emit(out, BestFirst({c \in NegativeCycles : PathOf(c) \notin paths}), Cooling)

Scanned ==
    LET priced == BestFirst(Priced(csTemplates))
        first == SubSeq(priced, 1, Min({Len(priced), 4 * MaxPerScan}))
    IN  SecondOpinion(Emit(<< >>, first, Cooling))

\* What was offered less than a cooldown before the scan that comes.
OnCooldown == {s \in csShown : s.ago + 1 < CycleCooldown}

\* The engine considers the first of them.
Considered == {csOffered[i] : i \in 1 .. Min({Len(csOffered), MaxConcurrent})}

-----------------------------------------------------------------------------

CsInit ==
    /\ csMood \in [DOMAIN Pairs -> UNION {Moods[i] : i \in DOMAIN Pairs}]
    /\ \A i \in DOMAIN Pairs : csMood[i] \in Moods[i]
    /\ csStarted = FALSE /\ csTemplates = {} /\ csTruncated = FALSE
    /\ csFired = << >> /\ csOffered = << >>
    /\ csScanned = FALSE /\ csAtStart = {} /\ csShown = {}

Moves(i) ==
    /\ \E m \in Moods[i] \ {csMood[i]} : csMood' = [csMood EXCEPT ![i] = m]
    /\ csOffered' = << >> /\ csScanned' = FALSE
    /\ UNCHANGED <<csStarted, csTemplates, csTruncated, csFired, csAtStart, csShown>>

\* The engine builds the graph and has the strategy enumerate, once.
EngineStarts ==
    /\ ~csStarted /\ csStarted' = TRUE
    /\ csTemplates' = Enumerated(UsableNow)
    /\ csTruncated' = Truncates(UsableNow)
    /\ csAtStart' = UsableNow
    /\ UNCHANGED <<csMood, csFired, csOffered, csScanned, csShown>>

\* A scan, one unit of the cooldown after the one before it.
Scan ==
    /\ csStarted
    /\ \E out \in {Scanned} :
          /\ csOffered' = out
          /\ csFired' = [k \in Cooling \cup KeysOf(out) |-> IF k \in KeysOf(out) THEN 0 ELSE csFired[k] + 1]
          /\ csShown' = {[legs |-> Legs(out[i]), ago |-> 0] : i \in 1 .. Len(out)}
                        \cup {[legs |-> s.legs, ago |-> s.ago + 1] : s \in OnCooldown}
    /\ csScanned' = TRUE
    /\ UNCHANGED <<csMood, csStarted, csTemplates, csTruncated, csAtStart>>

CsNext == EngineStarts \/ Scan \/ \E i \in DOMAIN Pairs : Moves(i)

SearchSpec == CsInit /\ [][CsNext]_csVars

-----------------------------------------------------------------------------

Closes(cycle) ==
    \A i \in 1 .. Len(cycle) : To(cycle[i]) = From(cycle[IF i = Len(cycle) THEN 1 ELSE i + 1])

\* What a scan offers can be traded as it stands: it starts from an asset to be held,
\* every leg spends what the one before it received, on an edge that is usable in this
\* very scan, no asset is passed twice, and the whole gains what the screen asks.
\* Code: the templates' age against the prices', and the extraction of Bellman-Ford.
OffersAreReal ==
    \A k \in 1 .. Len(csOffered) :
        LET c == csOffered[k] IN
        /\ Len(c) \in MinLength .. MaxLength /\ Closes(c)
        /\ From(c[1]) \in ToSet(StartAssets) /\ IsInjective(PathOf(c))
        /\ Legs(c) \subseteq UsableNow /\ GainOf(c) >= MinEdge

\* Unless the enumerator stopped at its cap, a scan with room left leaves no cycle out
\* that pays on one venue, over edges that were usable when the engine started, as long
\* as no more cycles pay than it looks at: it was offered now or less than a cooldown ago.
\* Code: enumerate's dedupe and cap, price_all's screen and the keys of the cooldown.
NothingIsMissed ==
    csScanned /\ ~csTruncated /\ Len(csOffered) < MaxPerScan /\ Cardinality(Priced(csTemplates)) <= 4 * MaxPerScan =>
        \A k \in 1 .. Len(StartAssets) :
            \A c \in ClosedFrom(StartAssets[k], csAtStart \cap UsableNow) :
                GainOf(c) >= MinEdge /\ Len(VenuesOf(c)) = 1 =>
                    \/ \E i \in 1 .. Len(csOffered) : Legs(csOffered[i]) = Legs(c)
                    \/ \E s \in csShown : s.legs = Legs(c)

\* The same trade, whichever search found it and from whichever asset it is written
\* down, is not offered twice within the cooldown.  Code: _on_cooldown and _mark_fired.
OffersAreSpaced ==
    [][csScanned' =>
         /\ \A i \in DOMAIN csOffered' : \A s \in OnCooldown : s.legs # Legs(csOffered'[i])
         /\ \A i, j \in DOMAIN csOffered' : Legs(csOffered'[i]) = Legs(csOffered'[j]) => i = j
      ]_csVars

\* Bellman-Ford: "We want every disjoint one".
DisjointCyclesAreFound ==
    csScanned => \A c, d \in NegativeCycles \cup Priced(csTemplates) :
        Legs(c) \cap Legs(d) = {} => {c, d} \subseteq NegativeCycles

\* "Cross-venue cycles are only meaningful when the strategy explicitly allows them".
CrossVenueIsAllowed ==
    CrossVenue \/ \A i \in DOMAIN csOffered : Len(VenuesOf(csOffered[i])) = 1

\* Enumerating once and re-pricing on every scan is "complete".
TemplatesAreComplete ==
    csScanned /\ Len(csOffered) < MaxPerScan =>
        \A c \in ClosedFrom(StartAssets[1], UsableNow) :
            GainOf(c) >= MinEdge =>
                \/ \E i \in DOMAIN csOffered : Legs(csOffered[i]) = Legs(c)
                \/ \E s \in csShown : s.legs = Legs(c)
=============================================================================
