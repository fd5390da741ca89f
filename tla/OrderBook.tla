------------------------------ MODULE OrderBook ------------------------------
(***************************************************************************)
(* One symbol's order book and the book manager's record of its health:    *)
(* what a snapshot and a delta do to them, and when the strategy layer may *)
(* look.                                                                   *)
(*                                                                         *)
(* A level is a side and a price; what a book holds at a level is the      *)
(* number of the venue's update that set its size there, 0 for nothing.    *)
(* Two books agree on a level when they have the same update there, which  *)
(* is what equal prices and sizes, and so equal checksums, stand for.      *)
(***************************************************************************)
EXTENDS Integers, Sequences, FiniteSets

CONSTANTS
    Ticks,          \* prices are 1 .. Ticks
    MaxDepth,       \* OrderBook.max_depth
    TruncateEvery,  \* deltas between two truncations (64 in the code)
    MaxPeel,        \* crossed levels peeled before the book is given up (5 in the code)
    CheckDepth,     \* levels of a side the venue's checksum covers
    WalkDepth       \* max_levels_to_walk: what the strategy reads of a side

ASSUME BookAssumption ==
    /\ Ticks \in Nat \ {0, 1}
    /\ MaxDepth \in Nat \ {0} /\ TruncateEvery \in Nat \ {0} /\ MaxPeel \in Nat
    /\ CheckDepth \in Nat \ {0} /\ WalkDepth \in Nat \ {0}

VARIABLES
    book,         \* the OrderBook: levels, sequence, _initialized, updates since truncated
    quarantined,  \* BookHealth.is_quarantined
    fresh,        \* the last update is within max_book_age_ms
    connected     \* the venue is in _connected_venues

view == <<book, quarantined, fresh, connected>>

Bids  == {"bid"} \X (1 .. Ticks)
Asks  == {"ask"} \X (1 .. Ticks)
Level == Bids \cup Asks

NoLevels == [l \in Level |-> 0]

-----------------------------------------------------------------------------
(* Levels: BookSide. *)

SameSide(l) == IF l \in Bids THEN Bids ELSE Asks
Better(l, m) == IF l \in Bids THEN l[2] > m[2] ELSE l[2] < m[2]

\* How many levels of its side are ahead of l.
Rank(levels, l) == Cardinality({m \in SameSide(l) : levels[m] # 0 /\ Better(m, l)})

\* truncate, and top: the best d levels of each side.
Top(levels, d) ==
    [l \in Level |-> IF levels[l] # 0 /\ Rank(levels, l) < d THEN levels[l] ELSE 0]

Crossed(levels) ==
    \E l \in Bids, m \in Asks : levels[l] # 0 /\ levels[m] # 0 /\ l[2] >= m[2]

TwoSided(levels) == (\E l \in Bids : levels[l] # 0) /\ (\E m \in Asks : levels[m] # 0)

\* _resolve_cross takes the best bid or the best ask off, whichever has less size, until
\* the book is not crossed or MaxPeel levels are gone.
Without(levels, bids, asks) ==
    [l \in Level |-> IF Rank(levels, l) < (IF l \in Bids THEN bids ELSE asks)
                     THEN 0 ELSE levels[l]]

Uncrossed(levels) ==
    IF ~Crossed(levels) THEN {levels}
    ELSE LET Cut(c) == Without(levels, c[1], c[2])
             Ends(c) ==
                /\ c[1] + c[2] = MaxPeel \/ ~Crossed(Cut(c))
                /\ \/ c[1] > 0 /\ Crossed(Cut(<<c[1] - 1, c[2]>>))
                   \/ c[2] > 0 /\ Crossed(Cut(<<c[1], c[2] - 1>>))
             Peels == {c \in (0 .. MaxPeel) \X (0 .. MaxPeel) :
                          c[1] + c[2] \in 1 .. MaxPeel /\ Ends(c)}
         IN IF MaxPeel = 0 THEN {levels} ELSE {Cut(c) : c \in Peels}

-----------------------------------------------------------------------------
(* OrderBook. *)

\* apply_snapshot.
Snapshot(levels, sequence) ==
    [levels |-> Top(levels, MaxDepth), sequence |-> sequence, init |-> TRUE,
     count |-> book.count]

\* The body of apply_delta: the levels it names, a truncation now and then, and what the
\* peeling of a crossed book may make of it.  A delta initializes the book.
Written(b, levels, sequence) ==
    LET count == (b.count + 1) % TruncateEvery
        kept  == IF count = 0 THEN Top(levels, MaxDepth) ELSE levels
    IN {[levels |-> ls, sequence |-> IF sequence = 0 THEN b.sequence ELSE sequence,
         init |-> ~Crossed(ls), count |-> count] : ls \in Uncrossed(kept)}

\* reset.
Reset == [book EXCEPT !.levels = NoLevels, !.sequence = 0, !.init = FALSE]

-----------------------------------------------------------------------------
(* BookManager. *)

\* An accepted update, from a snapshot or a delta.
Accept(b) ==
    /\ book' = b
    /\ fresh' = TRUE
    /\ UNCHANGED <<quarantined, connected>>

\* A gap or a checksum failure.  The quarantine is longer than the freshness budget: what
\* arrived before it is stale when it ends.
Refuse(b) ==
    /\ book' = [b EXCEPT !.init = FALSE]
    /\ quarantined' = TRUE
    /\ fresh' = FALSE
    /\ UNCHANGED connected

MarkDisconnected ==
    /\ connected' = FALSE
    /\ book' = Reset
    /\ UNCHANGED <<quarantined, fresh>>

QuarantineEnds ==
    /\ quarantined
    /\ quarantined' = FALSE
    /\ UNCHANGED <<book, fresh, connected>>

BookAges ==
    /\ fresh
    /\ fresh' = FALSE
    /\ UNCHANGED <<book, quarantined, connected>>

\* is_tradeable: "the single authority on whether a book may inform a trading decision".
Tradeable ==
    /\ book.init
    /\ TwoSided(book.levels)
    /\ ~Crossed(book.levels)
    /\ connected
    /\ ~quarantined
    /\ fresh
=============================================================================
