------------------------------- MODULE BookFeed -------------------------------
(***************************************************************************)
(* A live venue's book on its way into the order book: the stream of depth *)
(* events, which may lose some, the REST snapshots, which arrive in their  *)
(* own time, and the stream handler of each adapter, which must bring the  *)
(* two together.                                                           *)
(*                                                                         *)
(* A handler runs between two awaits, so it is one step; the snapshot      *)
(* tasks it starts, the socket and the venue interleave with it.           *)
(***************************************************************************)
EXTENDS OrderBook, SequencesExt

CONSTANTS
    Adapters,    \* the adapters to look at
    Opening,     \* levels the venue's book opens with, all of them its update 1
    MaxUpdates,  \* bound on the venue's updates
    Tasks,       \* bound on the snapshot tasks of the book at one time
    BufferSize,  \* events Binance's handler buffers while it is not synced (2000)
    Lossy,       \* the adapters whose stream may lose events
    Unreliable   \* TRUE: a snapshot request may fail, the socket close, the engine stop

ASSUME FeedAssumption ==
    /\ Adapters \subseteq {"binance", "okx", "kraken", "generic"}
    /\ Opening \subseteq Level
    /\ \A l \in Opening \cap Bids, m \in Opening \cap Asks : l[2] < m[2]
    /\ MaxUpdates \in Nat /\ BufferSize \in Nat
    /\ IsFiniteSet(Tasks) /\ Tasks # {}
    /\ Lossy \subseteq Adapters /\ Unreliable \in BOOLEAN

VARIABLES
    adapter,  \* whose handler it is
    truth,    \* truth[k] is the venue's book after its update k
    sent,     \* the last update an event has been made of
    wire,     \* events on the socket
    socket,   \* whether the adapter's _stream still reads it, or how it ended
    rest,     \* the snapshot tasks
    synced,   \* Binance: _synced, _buffered, _last_update_id
    buffer,
    lastId,
    unproven  \* the book took a message without a checksum, and none has passed since

market == <<truth, sent>>
sync   == <<synced, buffer, lastId>>
feed   == <<wire, socket, rest, synced, buffer, lastId, unproven>>
vars   == <<book, quarantined, fresh, connected, adapter, truth, sent, wire, socket, rest,
            synced, buffer, lastId, unproven>>

-----------------------------------------------------------------------------
(* The venue. *)

Now == Len(truth)

\* An event covers the updates first .. last; a snapshot of the stream has no first.
Event(first, last) == [first |-> first, last |-> last]

Touched(e) == {l \in Level : \E k \in e.first .. e.last : truth[k][l] # truth[k - 1][l]}

\* The levels a message names are set to what they are after the event's last update.
Named(levels, e, named) ==
    [l \in Level |-> IF l \in named THEN truth[e.last][l] ELSE levels[l]]
Overlay(levels, e) == Named(levels, e, Touched(e))

Idle  == [at |-> "idle", id |-> 0]
Asked == [at |-> "asked", id |-> 0]

Init ==
    /\ adapter \in Adapters
    /\ truth = <<[l \in Level |-> IF l \in Opening THEN 1 ELSE 0]>>
    /\ sent = 1
    /\ socket = "up"
    /\ wire = IF adapter = "binance" THEN <<>> ELSE <<Event(0, 1)>>
    /\ \E t \in Tasks :
         rest = [u \in Tasks |-> IF adapter = "binance" /\ u = t THEN Asked ELSE Idle]
    /\ book = [levels |-> NoLevels, sequence |-> 0, init |-> FALSE, count |-> 0]
    /\ quarantined = FALSE /\ fresh = FALSE /\ connected = TRUE
    /\ synced = FALSE /\ buffer = <<>> /\ lastId = 0
    /\ unproven = FALSE

\* A level's size changes, or the level goes.  The venue's own book is never crossed.
\* Bound: a venue nobody listens to has stopped.
VenueUpdates ==
    /\ Now < MaxUpdates
    /\ socket = "up"
    /\ \E l \in Level, stamp \in {0, Now + 1} :
         /\ truth[Now][l] # stamp
         /\ LET levels == [truth[Now] EXCEPT ![l] = stamp] IN
              /\ ~Crossed(levels)
              /\ truth' = Append(truth, levels)
    /\ UNCHANGED <<view, adapter, sent, feed>>

\* What has changed since the last event goes out, or is lost.
VenueSends ==
    /\ sent < Now
    /\ socket = "up"
    /\ \/ wire' = Append(wire, Event(sent + 1, Now))
       \/ adapter \in Lossy /\ UNCHANGED wire
    /\ sent' = Now
    /\ UNCHANGED <<view, adapter, truth, socket, rest, sync, unproven>>

\* The snapshot is taken at the venue ...
VenueAnswers ==
    /\ \E t \in Tasks :
         /\ rest[t].at = "asked"
         /\ rest' = [rest EXCEPT ![t] = [at |-> "answered", id |-> Now]]
    /\ UNCHANGED <<view, adapter, market, wire, socket, sync, unproven>>

-----------------------------------------------------------------------------
(* Snapshot tasks. *)

IdleTasks == {t \in Tasks : rest[t].at = "idle"}

\* asyncio.create_task(self.resnapshot(symbol)).
StartOne_Forgotten == UNCHANGED rest
StartOne == \E t \in IdleTasks : rest' = [rest EXCEPT ![t] = Asked]

\* ... and arrives.  OKX and Kraken apply it as it is, with no sequence.
SnapshotApplied ==
    /\ adapter # "binance"
    /\ \E t \in Tasks :
         /\ rest[t].at = "answered"
         /\ Accept(Snapshot(truth[rest[t].id], 0))
         /\ rest' = [rest EXCEPT ![t] = Idle]
    /\ unproven' = FALSE
    /\ UNCHANGED <<adapter, market, wire, socket, sync>>

\* Binance replays what was buffered, an event after the other.  Where the first one the
\* snapshot has not got does not go on from it, the snapshot is too old: wait, ask again.
TooOld(id) ==
    \E i \in DOMAIN buffer :
      /\ buffer[i].first > id + 1
      /\ \A j \in 1 .. i - 1 : buffer[j].last <= id

SnapshotStale ==
    /\ adapter = "binance"
    /\ \E t \in Tasks :
         /\ rest[t].at = "answered"
         /\ TooOld(rest[t].id)
         /\ Accept(Snapshot(truth[rest[t].id], rest[t].id))
         /\ lastId' = rest[t].id
         /\ rest' = [rest EXCEPT ![t] = Asked]
    /\ buffer' = <<>>
    /\ UNCHANGED <<adapter, market, wire, socket, synced, unproven>>

\* apply_delta of one replayed event; a replay on its own snapshot does not cross.
Replayed(b, e) ==
    CHOOSE r \in Written(b, Overlay(b.levels, e), e.last) : TRUE

\* The snapshot skips what it has; an event that leaves a gap, and every one after it, starts
\* a task of its own.
ReplayOne(s, e, id) ==
    CASE e.last <= id -> s
      [] e.last > id /\ e.first > s.last + 1 -> [s EXCEPT !.gaps = @ + 1]
      [] OTHER -> [book |-> Replayed(s.book, e), last |-> e.last, gaps |-> s.gaps]

Replay(id) ==
    LET after[i \in 0 .. Len(buffer)] ==
          IF i = 0 THEN [book |-> Snapshot(truth[id], id), last |-> id, gaps |-> 0]
          ELSE ReplayOne(after[i - 1], buffer[i], id)
    IN  after[Len(buffer)]

\* A snapshot the buffer goes on from.  The symbol counts as synced, gaps or not.
SnapshotReplayed ==
    /\ adapter = "binance"
    /\ \E t \in Tasks :
         /\ rest[t].at = "answered"
         /\ ~TooOld(rest[t].id)
         /\ \E replay \in {Replay(rest[t].id)} :
              /\ Accept(replay.book)
              /\ lastId' = replay.last
              /\ \E more \in SUBSET (IdleTasks \cup {t}) :
                   /\ Cardinality(more) = replay.gaps
                   /\ rest' = [u \in Tasks |-> IF u \in more THEN Asked
                                               ELSE IF u = t THEN Idle ELSE rest[u]]
    /\ buffer' = <<>>
    /\ synced' = TRUE
    /\ UNCHANGED <<adapter, market, wire, socket, unproven>>

\* The request fails: OKX and Kraken return, Binance's task ends in the exception.  Nobody
\* asks again on its behalf.
SnapshotFails ==
    /\ Unreliable
    /\ \E t \in Tasks :
         /\ rest[t].at = "answered"
         /\ rest' = [rest EXCEPT ![t].at = "failed"]
    /\ UNCHANGED <<view, adapter, market, wire, socket, sync, unproven>>

-----------------------------------------------------------------------------
(* The stream handlers. *)

\* The next message is taken off the socket.
Receive ==
    /\ socket = "up"
    /\ wire # <<>>
    /\ wire' = Tail(wire)
    /\ UNCHANGED <<adapter, market, socket>>

\* The stream's own snapshot; OKX's has a sequence, the others' are applied without.
StreamSnapshot ==
    /\ Receive
    /\ LET e == Head(wire) IN
         /\ e.first = 0
         /\ Accept(Snapshot(truth[e.last], IF adapter = "okx" THEN e.last ELSE 0))
    /\ unproven' = FALSE
    /\ UNCHANGED <<rest, sync>>

\* verify_checksum against what the venue computed after the event.
Matches_Unchecked(b, e) == b.levels = b.levels
Matches(b, e) == Top(b.levels, CheckDepth) = Top(truth[e.last], CheckDepth)

\* A delta that is written.  Where the message has a checksum it has to pass; where it has
\* none the delta is taken as it is.
Checked(e, levels, sequence, summed) ==
    \E b \in Written(book, levels, sequence) :
      IF summed /\ ~Matches(b, e)
      THEN Refuse(b) /\ StartOne /\ UNCHANGED unproven
      ELSE Accept(b) /\ unproven' = ~summed /\ UNCHANGED rest

\* Kraken: no sequence, the checksum is the guard.  An update of both sides comes as two
\* payloads, of which the last has the checksum; _stream reads the first.
OfBothSides(e) == Touched(e) \cap Bids # {} /\ Touched(e) \cap Asks # {}

KrakenDelta ==
    /\ adapter = "kraken"
    /\ Receive
    /\ LET e == Head(wire) IN
         /\ e.first > 0
         /\ IF OfBothSides(e)
            THEN \E side \in {Bids, Asks} :
                   Checked(e, Named(book.levels, e, Touched(e) \cap side), 0, FALSE)
            ELSE \E summed \in BOOLEAN : Checked(e, Overlay(book.levels, e), 0, summed)
    /\ UNCHANGED sync

\* OKX: an initialized book must be at the update the event follows.
OkxGap(e) == book.init /\ e.first - 1 # book.sequence

OkxDelta ==
    /\ adapter = "okx"
    /\ Receive
    /\ LET e == Head(wire) IN
         /\ e.first > 0
         /\ IF OkxGap(e)
            THEN Refuse(book) /\ StartOne /\ UNCHANGED unproven
            ELSE \E summed \in BOOLEAN : Checked(e, Overlay(book.levels, e), e.last, summed)
    /\ UNCHANGED sync

\* The generic adapter: neither sequence nor checksum.
GenericDelta ==
    /\ adapter = "generic"
    /\ Receive
    /\ LET e == Head(wire) IN
         /\ e.first > 0
         /\ \E b \in Written(book, Overlay(book.levels, e), 0) : Accept(b)
    /\ UNCHANGED <<rest, sync, unproven>>

\* Binance buffers while it is not synced, and drops what the buffer has no room for.
HasRoom == Len(buffer) < BufferSize

BinanceBuffers ==
    /\ adapter = "binance"
    /\ ~synced
    /\ Receive
    /\ buffer' = IF HasRoom THEN Append(buffer, Head(wire)) ELSE buffer
    /\ UNCHANGED <<view, rest, synced, lastId, unproven>>

\* A gap: back to buffering, with a new snapshot on its way.  The book stays as it is.
FollowsOn_OffByOne(e) == lastId = 0 \/ e.first <= lastId + 2
FollowsOn(e) == lastId = 0 \/ e.first <= lastId + 1

BinanceGap ==
    /\ adapter = "binance"
    /\ synced
    /\ Receive
    /\ ~FollowsOn(Head(wire))
    /\ StartOne
    /\ synced' = FALSE
    /\ buffer' = <<>>
    /\ UNCHANGED <<view, lastId, unproven>>

\* An event the book already has is ignored, and still becomes the last one seen.
BinanceDelta ==
    /\ adapter = "binance"
    /\ synced
    /\ Receive
    /\ LET e == Head(wire) IN
         /\ FollowsOn(e)
         /\ lastId' = e.last
         /\ IF book.init /\ e.last <= book.sequence
            THEN UNCHANGED view
            ELSE \E b \in Written(book, Overlay(book.levels, e), e.last) : Accept(b)
    /\ UNCHANGED <<rest, synced, buffer, unproven>>

-----------------------------------------------------------------------------
(* The socket and the engine. *)

\* The socket ends, and _stream with it, by running out of messages or with an exception;
\* nothing starts it again.  What was on it has been read, or was lost when it was sent.
SocketEnds ==
    /\ Unreliable
    /\ socket = "up"
    /\ wire = <<>>
    /\ socket' \in {"over", "broken"}
    /\ UNCHANGED <<view, adapter, market, wire, rest, sync, unproven>>

\* adapter.disconnect.  It waits for _stream's task: where that broke, its exception comes
\* out again and disconnect gets no further.
Disconnect ==
    /\ Unreliable
    /\ connected
    /\ socket # "broken"
    /\ MarkDisconnected
    /\ socket' = "over"
    /\ wire' = <<>>
    /\ rest' = [t \in Tasks |-> Idle]
    /\ UNCHANGED <<adapter, market, sync, unproven>>

Tick ==
    /\ QuarantineEnds \/ BookAges
    /\ UNCHANGED <<adapter, market, feed>>

Handler ==
    \/ StreamSnapshot \/ KrakenDelta \/ OkxDelta \/ GenericDelta
    \/ BinanceBuffers \/ BinanceGap \/ BinanceDelta

SnapshotTask == SnapshotApplied \/ SnapshotStale \/ SnapshotReplayed

Next ==
    \/ VenueUpdates \/ VenueSends \/ VenueAnswers
    \/ Handler \/ SnapshotTask \/ SnapshotFails
    \/ SocketEnds \/ Disconnect \/ Tick

Spec == Init /\ [][Next]_vars

-----------------------------------------------------------------------------
(* What should be true of the book. *)

Books == [levels : [Level -> Nat], sequence : Nat, init : BOOLEAN, count : Nat]
Events == [first : Nat, last : Nat]

\* The shapes of the book, the stream and the snapshot tasks.
TypeOK ==
    /\ book \in Books
    /\ quarantined \in BOOLEAN /\ fresh \in BOOLEAN /\ connected \in BOOLEAN
    /\ adapter \in Adapters
    /\ truth \in Seq([Level -> Nat]) /\ Len(truth) \in 1 .. MaxUpdates
    /\ sent \in 1 .. Len(truth)
    /\ wire \in Seq(Events) /\ buffer \in Seq(Events) /\ Len(buffer) <= BufferSize
    /\ socket \in {"up", "over", "broken"}
    /\ rest \in [Tasks -> [at : {"idle", "asked", "answered", "failed"}, id : Nat]]
    /\ synced \in BOOLEAN
    /\ lastId \in Nat
    /\ unproven \in BOOLEAN

\* A level may be missing of a book that has had the venue's update k: some time since the
\* level was set, more levels were ahead of it than a book keeps.
Fell(l, k) == \E j \in 1 .. k : truth[j][l] = truth[k][l] /\ Rank(truth[j], l) >= MaxDepth

\* Every level is the venue's after its update k, or is missing and had fallen that far.
Shows(levels, k) == \A l \in Level : levels[l] = truth[k][l] \/ (levels[l] = 0 /\ Fell(l, k))

\* "A silently wrong book": what the strategy may read is a book the venue has had, whatever
\* was lost, late or taken twice on the way.  OKX's and Kraken's is, to the depth that is
\* read, unless it took a message without a checksum since the last that had one.  Binance's
\* and the generic adapter's is but for levels cut off, which come back when they change.
\* Code: the _stream of each adapter, BookManager.apply_delta and is_tradeable.
TradeableIsTrue ==
    Tradeable /\ ~unproven =>
        \E k \in 1 .. Now :
          IF adapter \in {"okx", "kraken"}
          THEN Top(book.levels, WalkDepth) = Top(truth[k], WalkDepth)
          ELSE Shows(book.levels, k)

\* Binance's book is the venue's at the sequence it claims, but for levels cut off, through
\* gaps, buffered events, truncations and any number of snapshot tasks.
\* Code: _snapshot and _apply_depth_event of binance.py.
SequenceIsTrue ==
    adapter = "binance" /\ book.init =>
        book.sequence \in 1 .. Now /\ Shows(book.levels, book.sequence)

\* Somebody is on the way: a book that was given up on a stream still read has a snapshot
\* task that will bring it back or has failed, or the stream's opening snapshot before it.
\* A book that stays crossed after the peeling is not spoken of, whole or not.
\* Code: the create_task of every gap and failed checksum, and the tasks of a replay.
Whole == IF adapter = "binance" THEN synced ELSE book.init \/ Crossed(book.levels)
OnTheWay == \E t \in Tasks : rest[t].at # "idle"
GivenUpIsAskedFor ==
    socket = "up" /\ ~Whole => OnTheWay \/ (wire # <<>> /\ Head(wire).first = 0)

\* "The book is too damaged to trust and we de-initialize it, forcing a resnapshot",
\* orderbook.py:308-309: nobody is told, and nobody asks.
CrossesAreAskedFor == socket = "up" /\ Crossed(book.levels) => OnTheWay

\* "the checksum path is not optional here", kraken.py:204-205: what the strategy may read
\* of Kraken's book is a book the venue has had.
KrakenIsChecked ==
    adapter = "kraken" /\ Tradeable =>
        \E k \in 1 .. Now : Top(book.levels, WalkDepth) = Top(truth[k], WalkDepth)

\* "Gap: the book is no longer trustworthy": once Binance's handler gives the book up, it
\* is not traded on.
KnownGapIsNotTraded == [][synced /\ ~synced' => ~Tradeable']_vars

\* An event that goes on from where the book truly is gets accepted: a book that has been
\* resnapshotted is in the stream again.
IntactStreamIsAccepted ==
    [][Handler /\ Head(wire).first > 1 /\ book.init
       /\ book.levels = truth[Head(wire).first - 1] => book'.init]_vars
=============================================================================
