-------------------------- MODULE BookFeed_proofs --------------------------
(***************************************************************************)
(* Proofs about BookFeed, for every number of prices, updates, snapshot    *)
(* tasks and every buffer: when a tradeable book is one the venue has had. *)
(***************************************************************************)
EXTENDS BookFeed, FiniteSetTheorems, Inductions

Levels == [Level -> Nat]

-----------------------------------------------------------------------------
(* The best levels of a side. *)

Ahead(levels, l) == {m \in SameSide(l) : levels[m] # 0 /\ Better(m, l)}

\* A side is finite, and there is a price for each of its levels.
LEMMA SidesAreFinite ==
    ASSUME NEW l \in Level
    PROVE  IsFiniteSet(SameSide(l)) /\ Cardinality(SameSide(l)) = Ticks /\ l \in SameSide(l)
  <1>1. IsFiniteSet(1 .. Ticks) /\ Cardinality(1 .. Ticks) = Ticks
    BY BookAssumption, FS_Interval
  <1>2. \A side : IsFiniteSet({side}) /\ Cardinality({side}) = 1
    BY FS_Singleton
  <1>3. /\ IsFiniteSet(Bids) /\ Cardinality(Bids) = 1 * Ticks
        /\ IsFiniteSet(Asks) /\ Cardinality(Asks) = 1 * Ticks
    <2>1. \A side : IsFiniteSet({side} \X (1 .. Ticks)) /\ Cardinality({side} \X (1 .. Ticks)) = 1 * Ticks
      <3> TAKE side
      <3>1. /\ IsFiniteSet({side} \X (1 .. Ticks))
            /\ Cardinality({side} \X (1 .. Ticks)) = Cardinality({side}) * Cardinality(1 .. Ticks)
        BY <1>1, <1>2, FS_Product, Zenon
      <3> QED BY <1>1, <1>2, <3>1, Zenon
    <2> QED BY <2>1 DEF Bids, Asks
  <1>4. 1 * Ticks = Ticks
    BY BookAssumption
  <1> QED BY <1>3, <1>4 DEF SameSide, Level

\* Whatever is ahead of a level that is ahead, is ahead.
LEMMA AheadOfAhead ==
    ASSUME NEW levels \in Levels, NEW l \in Level, NEW m \in Ahead(levels, l)
    PROVE  m \in Level /\ Ahead(levels, m) \subseteq Ahead(levels, l)
  <1>1. ASSUME l \in Bids PROVE m \in Level /\ Ahead(levels, m) \subseteq Ahead(levels, l)
    <2>1. m \in Bids /\ m[2] > l[2] /\ m[2] \in 1 .. Ticks /\ l[2] \in 1 .. Ticks
      BY <1>1 DEF Ahead, SameSide, Better, Bids
    <2>2. \A n \in Bids : n[2] \in 1 .. Ticks
      BY DEF Bids
    <2> QED BY <1>1, <2>1, <2>2, BookAssumption DEF Ahead, SameSide, Better, Level
  <1>2. ASSUME l \notin Bids PROVE m \in Level /\ Ahead(levels, m) \subseteq Ahead(levels, l)
    <2>0. \A n \in Asks : n \notin Bids /\ n[2] \in 1 .. Ticks
      BY DEF Asks, Bids
    <2>1. m \in Asks /\ l \in Asks
      BY <1>2 DEF Ahead, SameSide, Level
    <2>2. m[2] < l[2]
      BY <1>2, <2>0, <2>1 DEF Ahead, SameSide, Better
    <2> QED BY <1>2, <2>0, <2>1, <2>2, BookAssumption DEF Ahead, SameSide, Better, Level
  <1> QED BY <1>1, <1>2

LEMMA RankIsNatural ==
    ASSUME NEW levels, NEW l \in Level
    PROVE  IsFiniteSet(Ahead(levels, l)) /\ Rank(levels, l) = Cardinality(Ahead(levels, l))
           /\ Rank(levels, l) \in Nat
  <1>1. Ahead(levels, l) \in SUBSET SameSide(l)
    BY DEF Ahead
  <1>2. IsFiniteSet(Ahead(levels, l))
    BY <1>1, SidesAreFinite, FS_Subset
  <1> QED BY <1>2, FS_CardinalityType DEF Rank, Ahead

LEMMA TopType == ASSUME NEW levels \in Levels, NEW d PROVE Top(levels, d) \in Levels
  BY DEF Top, Levels

\* Cutting to a depth and then to a smaller one is cutting to the smaller one.
LEMMA TopOfTop ==
    ASSUME NEW levels \in Levels, NEW d \in Nat, NEW e \in Nat, d <= e
    PROVE  Top(Top(levels, e), d) = Top(levels, d)
  <1> DEFINE kept == Top(levels, e)
  <1>1. kept \in Levels
    BY TopType
  <1>2. ASSUME NEW l \in Level, levels[l] # 0, Rank(levels, l) < e
        PROVE  Rank(kept, l) = Rank(levels, l)
    <2>1. ASSUME NEW m \in Ahead(levels, l) PROVE kept[m] # 0
      <3>1. m \in Level /\ Ahead(levels, m) \in SUBSET Ahead(levels, l) /\ levels[m] # 0
        BY AheadOfAhead DEF Ahead
      <3>2. Rank(levels, m) <= Rank(levels, l) /\ Rank(levels, m) \in Nat /\ Rank(levels, l) \in Nat
        BY <3>1, RankIsNatural, FS_Subset
      <3>3. Rank(levels, m) < e
        BY <1>2, <3>2
      <3> QED BY <3>1, <3>3 DEF Top
    <2>2. \A m \in SameSide(l) : kept[m] # 0 => levels[m] # 0
      BY DEF Top, SameSide, Level
    <2>3. Ahead(kept, l) = Ahead(levels, l)
      <3> HIDE DEF kept
      <3> QED BY <2>1, <2>2 DEF Ahead
    <2> QED BY <2>3, RankIsNatural
  <1>3. ASSUME NEW l \in Level PROVE Top(kept, d)[l] = Top(levels, d)[l]
    <2>0. Rank(levels, l) \in Nat
      BY RankIsNatural
    <2>1. CASE levels[l] # 0 /\ Rank(levels, l) < e
      <3>1. kept[l] = levels[l] /\ Rank(kept, l) = Rank(levels, l)
        BY <1>2, <2>1 DEF Top
      <3> HIDE DEF kept
      <3> QED BY <3>1 DEF Top
    <2>2. CASE levels[l] = 0 \/ ~(Rank(levels, l) < e)
      <3>1. kept[l] = 0 /\ ~(levels[l] # 0 /\ Rank(levels, l) < d)
        BY <2>0, <2>2 DEF Top
      <3> HIDE DEF kept
      <3> QED BY <3>1 DEF Top
    <2> QED BY <2>1, <2>2
  <1>4. /\ Top(kept, d) = [l \in Level |-> Top(kept, d)[l]]
        /\ Top(levels, d) = [l \in Level |-> Top(levels, d)[l]]
    BY DEF Top
  <1>5. Top(kept, d) = Top(levels, d)
    <2> HIDE DEF kept
    <2> QED BY <1>3, <1>4, Zenon
  <1> QED BY <1>5

\* Books that agree to a depth agree to any smaller one.
LEMMA TopAgrees ==
    ASSUME NEW levels \in Levels, NEW others \in Levels, NEW d \in Nat, NEW e \in Nat, d <= e,
           Top(levels, e) = Top(others, e)
    PROVE  Top(levels, d) = Top(others, d)
  BY TopOfTop

-----------------------------------------------------------------------------
(* The venue's books, the stream, the buffer and the snapshot tasks. *)

TaskStates == [at : {"idle", "asked", "answered", "failed"}, id : Nat]

\* Events that have been sent, an update after the other.
Stream(es) ==
    /\ es \in Seq(Events)
    /\ \A i \in DOMAIN es : es[i].first <= es[i].last /\ es[i].last \in 1 .. sent
    /\ \A i, j \in DOMAIN es : i < j => es[i].last < es[j].first

Requests ==
    /\ rest \in [Tasks -> TaskStates]
    /\ \A t \in Tasks : rest[t].at = "answered" => rest[t].id \in 1 .. Now

Market ==
    /\ truth \in Seq(Levels) /\ Now >= 1
    /\ \A k \in 1 .. Now : ~Crossed(truth[k])
    /\ sent \in 1 .. Now
    /\ Stream(wire) /\ Stream(buffer)
    /\ \A i \in DOMAIN buffer, j \in DOMAIN wire : buffer[i].last < wire[j].first
    /\ Requests

LEMMA NoStream == Stream(<<>>)
  BY DEF Stream

LEMMA TailOf ==
    ASSUME NEW es \in Seq(Events), es # <<>>
    PROVE  /\ Tail(es) \in Seq(Events) /\ Head(es) = es[1] /\ 1 \in DOMAIN es /\ Head(es) \in Events
           /\ \A i \in DOMAIN Tail(es) : i + 1 \in DOMAIN es /\ Tail(es)[i] = es[i + 1] /\ i \in Nat \ {0}
  OBVIOUS

LEMMA AppendOf ==
    ASSUME NEW es \in Seq(Events), NEW e \in Events
    PROVE  /\ Append(es, e) \in Seq(Events) /\ DOMAIN Append(es, e) = 1 .. Len(es) + 1
           /\ Append(es, e)[Len(es) + 1] = e /\ Len(es) \in Nat /\ DOMAIN es = 1 .. Len(es)
           /\ \A i \in DOMAIN es : Append(es, e)[i] = es[i]
  OBVIOUS

LEMMA StartOneKeeps ==
    ASSUME Requests, StartOne, truth' = truth
    PROVE  Requests'
  <1>1. PICK t \in Tasks : rest' = [rest EXCEPT ![t] = Asked]
    BY DEF StartOne, IdleTasks
  <1>2. Asked \in TaskStates /\ Asked.at = "asked"
    BY DEF Asked, TaskStates
  <1> QED BY <1>1, <1>2 DEF Requests, Now

\* An event is taken off the socket.
LEMMA ReceiveKeeps ==
    ASSUME Market, Receive, buffer' \in {buffer, <<>>, Append(buffer, Head(wire))},
           rest' = rest \/ StartOne
    PROVE  Market'
  <1>1. /\ wire # <<>> /\ wire' = Tail(wire) /\ truth' = truth /\ sent' = sent
        /\ wire \in Seq(Events) /\ buffer \in Seq(Events)
    BY DEF Receive, market, Market, Stream
  <1>2. Requests'
    BY <1>1, StartOneKeeps DEF Market, Requests, Now
  <1>3. /\ wire' \in Seq(Events) /\ Head(wire) = wire[1] /\ 1 \in DOMAIN wire
        /\ \A i \in DOMAIN wire' : i + 1 \in DOMAIN wire /\ wire'[i] = wire[i + 1] /\ i \in Nat \ {0}
    BY <1>1, TailOf
  <1>4. Stream(wire)'
    <2>0. /\ \A i \in DOMAIN wire : wire[i].first <= wire[i].last /\ wire[i].last \in 1 .. sent
          /\ \A i, j \in DOMAIN wire : i < j => wire[i].last < wire[j].first
      BY DEF Market, Stream
    <2>1. ASSUME NEW i \in DOMAIN wire', NEW j \in DOMAIN wire', i < j
          PROVE  wire'[i].last < wire'[j].first
      <3>1. /\ i + 1 \in DOMAIN wire /\ wire'[i] = wire[i + 1] /\ j + 1 \in DOMAIN wire
            /\ wire'[j] = wire[j + 1] /\ i + 1 < j + 1
        BY <1>3, <2>1
      <3> QED BY <2>0, <3>1
    <2>2. ASSUME NEW i \in DOMAIN wire'
          PROVE  wire'[i].first <= wire'[i].last /\ wire'[i].last \in 1 .. sent
      BY <1>3, <2>0
    <2> QED BY <1>1, <1>3, <2>1, <2>2 DEF Stream
  <1>5. CASE buffer' = Append(buffer, Head(wire))
    <2> DEFINE e == Head(wire)
    <2>0. e \in Events /\ e = wire[1]
      BY <1>1, <1>3, TailOf
    <2>1. /\ buffer' \in Seq(Events) /\ DOMAIN buffer' = 1 .. Len(buffer) + 1
          /\ buffer'[Len(buffer) + 1] = e /\ Len(buffer) \in Nat /\ DOMAIN buffer = 1 .. Len(buffer)
          /\ \A i \in DOMAIN buffer : buffer'[i] = buffer[i]
      <3> HIDE DEF e
      <3>1. buffer' = Append(buffer, e)
        BY <1>5 DEF e
      <3> QED BY <1>1, <2>0, <3>1, AppendOf
    <2> HIDE DEF e
    <2>2. \A i \in DOMAIN buffer' : i \in DOMAIN buffer \/ (i = Len(buffer) + 1 /\ buffer'[i] = e)
      BY <2>1
    <2>3. e.first <= e.last /\ e.last \in 1 .. sent /\ \A i \in DOMAIN buffer : buffer[i].last < e.first
      BY <1>3, <2>0 DEF Market, Stream
    <2>4. Stream(buffer)'
      <3>1. \A i \in DOMAIN buffer' : buffer'[i].first <= buffer'[i].last /\ buffer'[i].last \in 1 .. sent
        BY <2>1, <2>2, <2>3 DEF Market, Stream
      <3>2. ASSUME NEW i \in DOMAIN buffer', NEW j \in DOMAIN buffer', i < j
            PROVE  buffer'[i].last < buffer'[j].first
        <4>1. i \in DOMAIN buffer
          BY <2>1, <3>2
        <4> QED BY <2>1, <2>2, <2>3, <3>2, <4>1 DEF Market, Stream
      <3> QED BY <1>1, <2>1, <3>1, <3>2 DEF Stream
    <2>5. \A i \in DOMAIN buffer', j \in DOMAIN wire' : buffer'[i].last < wire'[j].first
      <3> TAKE i \in DOMAIN buffer', j \in DOMAIN wire'
      <3>1. wire'[j] = wire[j + 1] /\ j + 1 \in DOMAIN wire /\ j \in Nat \ {0}
        BY <1>3
      <3>2. 1 < j + 1 /\ e.last < wire[j + 1].first
        BY <1>3, <2>0, <3>1 DEF Market, Stream
      <3> QED BY <2>1, <2>2, <3>1, <3>2 DEF Market
    <2> QED BY <1>1, <1>2, <1>4, <2>4, <2>5 DEF Market, Now
  <1>6. CASE buffer' \in {buffer, <<>>}
    <2>1. Stream(buffer)'
      <3>1. CASE buffer' = <<>>
        BY <3>1 DEF Stream
      <3>2. CASE buffer' = buffer
        BY <1>1, <3>2 DEF Market, Stream
      <3> QED BY <1>6, <3>1, <3>2
    <2>2. \A i \in DOMAIN buffer', j \in DOMAIN wire' : buffer'[i].last < wire'[j].first
      BY <1>3, <1>6 DEF Market
    <2> QED BY <1>1, <1>2, <1>4, <2>1, <2>2 DEF Market, Now
  <1> QED BY <1>5, <1>6

\* A step of a task, of the socket or of the clock.
LEMMA OthersKeep ==
    ASSUME Market, Requests', truth' = truth, sent' = sent,
           buffer' \in {buffer, <<>>}, wire' \in {wire, <<>>}
    PROVE  Market'
  <1>1. Stream(buffer)' /\ Stream(wire)'
    <2>1. ASSUME NEW es, Stream(es) PROVE /\ es \in Seq(Events)
                                          /\ \A i \in DOMAIN es : es[i].first <= es[i].last /\ es[i].last \in 1 .. sent'
                                          /\ \A i, j \in DOMAIN es : i < j => es[i].last < es[j].first
      BY <2>1 DEF Stream
    <2>2. Stream(buffer) /\ Stream(wire) /\ Stream(<<>>)
      BY NoStream DEF Market
    <2> QED BY <2>1, <2>2 DEF Stream
  <1>2. \A i \in DOMAIN buffer', j \in DOMAIN wire' : buffer'[i].last < wire'[j].first
    BY DEF Market
  <1> QED BY <1>1, <1>2 DEF Market, Now

LEMMA VenueSendsKeeps ==
    ASSUME Market, VenueSends
    PROVE  Market'
  <1>1. /\ truth' = truth /\ sent' = Now /\ sent < Now /\ buffer' = buffer /\ rest' = rest
        /\ wire \in Seq(Events) /\ Now \in Nat /\ sent \in 1 .. Now
    BY DEF VenueSends, Market, Stream, sync, Now
  <1>2. Requests'
    BY <1>1 DEF Market, Requests, Now
  <1>3. /\ Stream(buffer)'
        /\ \A i \in DOMAIN wire : wire[i].first <= wire[i].last /\ wire[i].last \in 1 .. Now
    BY <1>1 DEF Market, Stream, Now
  <1>4. CASE wire' = wire
    BY <1>1, <1>2, <1>3, <1>4 DEF Market, Stream, Now
  <1>5. CASE wire' = Append(wire, Event(sent + 1, Now))
    <2> DEFINE e == Event(sent + 1, Now)
    <2>1. e \in Events /\ e.first = sent + 1 /\ e.last = Now
      BY <1>1 DEF Event, Events
    <2> HIDE DEF e
    <2>2. /\ wire' \in Seq(Events) /\ DOMAIN wire' = 1 .. Len(wire) + 1
          /\ wire'[Len(wire) + 1] = e /\ Len(wire) \in Nat /\ DOMAIN wire = 1 .. Len(wire)
          /\ \A i \in DOMAIN wire : wire'[i] = wire[i]
      <3>1. wire' = Append(wire, e)
        BY <1>5 DEF e
      <3> QED BY <1>1, <2>1, <3>1, AppendOf
    <2>3. \A i \in DOMAIN wire' : i \in DOMAIN wire \/ (i = Len(wire) + 1 /\ wire'[i] = e)
      BY <2>2
    <2>4. ASSUME NEW i \in DOMAIN wire PROVE wire[i].last < e.first /\ wire[i] \in Events
      <3>1. wire[i] \in Events /\ wire[i].last \in 1 .. sent
        BY <1>1 DEF Market, Stream
      <3> QED BY <1>1, <2>1, <3>1
    <2>5. Stream(wire)'
      <3>1. \A i \in DOMAIN wire' : wire'[i].first <= wire'[i].last /\ wire'[i].last \in 1 .. Now
        BY <1>1, <1>3, <2>1, <2>2, <2>3
      <3>2. ASSUME NEW i \in DOMAIN wire', NEW j \in DOMAIN wire', i < j
            PROVE  wire'[i].last < wire'[j].first
        <4>1. i \in DOMAIN wire
          BY <2>2, <3>2
        <4> QED BY <2>2, <2>3, <2>4, <3>2, <4>1 DEF Market, Stream
      <3> QED BY <1>1, <2>2, <3>1, <3>2 DEF Stream
    <2>6. \A i \in DOMAIN buffer', j \in DOMAIN wire' : buffer'[i].last < wire'[j].first
      <3>1. \A i \in DOMAIN buffer : buffer[i].last < e.first
        BY <1>1, <2>1 DEF Market, Stream, Events
      <3> QED BY <1>1, <2>2, <2>3, <3>1 DEF Market
    <2> QED BY <1>1, <1>2, <1>3, <2>5, <2>6 DEF Market, Now
  <1> QED BY <1>4, <1>5 DEF VenueSends

LEMMA VenueUpdatesKeeps ==
    ASSUME Market, VenueUpdates
    PROVE  /\ Market' /\ Now' = Now + 1
           /\ \A k \in 1 .. Now : truth'[k] = truth[k]
  <1>1. PICK l \in Level, stamp \in {0, Now + 1} :
          LET levels == [truth[Now] EXCEPT ![l] = stamp] IN
            ~Crossed(levels) /\ truth' = Append(truth, levels)
    BY DEF VenueUpdates
  <1> DEFINE levels == [truth[Now] EXCEPT ![l] = stamp]
  <1>2. /\ truth \in Seq(Levels) /\ Now \in Nat \ {0}
        /\ sent' = sent /\ wire' = wire /\ buffer' = buffer /\ rest' = rest
    BY DEF Market, VenueUpdates, feed, Now
  <1>3. levels \in Levels
    <2>1. truth[Now] \in Levels /\ stamp \in Nat
      BY <1>2 DEF Now
    <2> QED BY <2>1 DEF Levels
  <1>4. ~Crossed(levels) /\ truth' = Append(truth, levels)
    BY <1>1
  <1> HIDE DEF levels
  <1>5. /\ truth' \in Seq(Levels) /\ Now' = Now + 1 /\ truth'[Now + 1] = levels
        /\ \A k \in 1 .. Now : truth'[k] = truth[k]
    BY <1>2, <1>3, <1>4 DEF Now
  <1>6. \A k \in 1 .. Now' : ~Crossed(truth'[k])
    <2>1. \A k \in 1 .. Now' : k \in 1 .. Now \/ k = Now + 1
      BY <1>2, <1>5
    <2>2. \A k \in 1 .. Now : ~Crossed(truth[k])
      BY DEF Market
    <2> QED BY <1>4, <1>5, <2>1, <2>2
  <1>8. Requests'
    BY <1>2, <1>5 DEF Market, Requests
  <1>9. Stream(wire)' /\ Stream(buffer)'
    BY <1>2 DEF Market, Stream
  <1> QED BY <1>2, <1>5, <1>6, <1>8, <1>9 DEF Market, Crossed

LEMMA MarketInit == Init => Market
  <1> SUFFICES ASSUME Init PROVE Market
    OBVIOUS
  <1> DEFINE opening == [l \in Level |-> IF l \in Opening THEN 1 ELSE 0]
  <1>1. opening \in Levels
    BY DEF Levels
  <1>2. ~Crossed(opening)
    <2> SUFFICES ASSUME NEW l \in Bids, NEW m \in Asks, opening[l] # 0, opening[m] # 0
                 PROVE  ~(l[2] >= m[2])
      BY DEF Crossed
    <2>1. l \in Opening \cap Bids /\ m \in Opening \cap Asks
      BY DEF Level
    <2>2. l[2] < m[2] /\ l[2] \in 1 .. Ticks /\ m[2] \in 1 .. Ticks
      BY <2>1, FeedAssumption DEF Bids, Asks
    <2> QED BY <2>2, BookAssumption
  <1>3. truth = <<opening>> /\ sent = 1 /\ buffer = <<>>
    BY DEF Init
  <1> HIDE DEF opening
  <1>4. truth \in Seq(Levels) /\ Now = 1 /\ truth[1] = opening
    BY <1>1, <1>3 DEF Now
  <1>5. Stream(wire)
    <2>1. Event(0, 1) \in Events /\ Event(0, 1).first = 0 /\ Event(0, 1).last = 1
      BY DEF Event, Events
    <2>2. wire = <<>> \/ wire = <<Event(0, 1)>>
      BY DEF Init
    <2>3. CASE wire = <<Event(0, 1)>>
      <3>1. wire \in Seq(Events) /\ DOMAIN wire = {1} /\ wire[1] = Event(0, 1)
        BY <2>1, <2>3
      <3> QED BY <1>3, <2>1, <3>1 DEF Stream
    <2> QED BY <2>2, <2>3, NoStream
  <1>6. Requests
    <2>1. Idle \in TaskStates /\ Asked \in TaskStates /\ Idle.at = "idle" /\ Asked.at = "asked"
      BY DEF Idle, Asked, TaskStates
    <2>2. PICK t \in Tasks : rest = [u \in Tasks |-> IF adapter = "binance" /\ u = t THEN Asked ELSE Idle]
      BY DEF Init
    <2> QED BY <2>1, <2>2 DEF Requests
  <1>7. \A k \in 1 .. Now : ~Crossed(truth[k])
    BY <1>2, <1>4
  <1> QED BY <1>3, <1>4, <1>5, <1>6, <1>7, NoStream DEF Market

\* The venue's books stay what they were.
Kept == Now <= Now' /\ \A k \in 1 .. Now : truth'[k] = truth[k]

LEMMA MarketStep ==
    ASSUME Market, [Next]_vars
    PROVE  Market' /\ Kept
  <1>0. Now \in Nat /\ Requests
    BY DEF Market, Now
  <1>1. ASSUME truth' = truth PROVE Kept
    BY <1>0, <1>1 DEF Kept, Now
  <1>2. CASE VenueUpdates
    BY <1>0, <1>2, VenueUpdatesKeeps DEF Kept
  <1>3. CASE VenueSends
    BY <1>1, <1>3, VenueSendsKeeps DEF VenueSends
  <1>4. CASE VenueAnswers
    <2>1. PICK t \in Tasks : rest' = [rest EXCEPT ![t] = [at |-> "answered", id |-> Now]]
      BY <1>4 DEF VenueAnswers
    <2>2. [at |-> "answered", id |-> Now] \in TaskStates
      BY <1>0 DEF TaskStates
    <2>3. truth' = truth /\ sent' = sent /\ buffer' = buffer /\ wire' = wire /\ Now' = Now
      BY <1>4 DEF VenueAnswers, market, sync, Now
    <2>4. Requests'
      BY <1>0, <2>1, <2>2, <2>3 DEF Requests, Market
    <2> QED BY <1>1, <2>3, <2>4, OthersKeep
  <1>5. CASE Handler
    <2>1. Receive /\ (rest' = rest \/ StartOne) /\ buffer' \in {buffer, <<>>, Append(buffer, Head(wire))}
      <3>1. CASE StreamSnapshot
        BY <3>1 DEF StreamSnapshot, sync
      <3>2. CASE KrakenDelta
        BY <3>2 DEF KrakenDelta, Checked, sync
      <3>3. CASE OkxDelta
        BY <3>3 DEF OkxDelta, Checked, sync
      <3>4. CASE GenericDelta
        BY <3>4 DEF GenericDelta, sync
      <3>5. CASE BinanceBuffers
        BY <3>5 DEF BinanceBuffers
      <3>6. CASE BinanceGap
        BY <3>6 DEF BinanceGap
      <3>7. CASE BinanceDelta
        BY <3>7 DEF BinanceDelta
      <3> QED BY <1>5, <3>1, <3>2, <3>3, <3>4, <3>5, <3>6, <3>7 DEF Handler
    <2> QED BY <1>1, <2>1, ReceiveKeeps DEF Receive, market
  <1>6. Idle \in TaskStates /\ Asked \in TaskStates /\ Idle.at = "idle" /\ Asked.at = "asked"
    BY DEF Idle, Asked, TaskStates
  <1>7. CASE SnapshotApplied
    <2>1. PICK t \in Tasks : rest' = [rest EXCEPT ![t] = Idle]
      BY <1>7 DEF SnapshotApplied
    <2>3. truth' = truth /\ sent' = sent /\ buffer' = buffer /\ wire' = wire
      BY <1>7 DEF SnapshotApplied, market, sync
    <2>4. Requests'
      BY <1>0, <1>6, <2>1, <2>3 DEF Requests, Now
    <2> QED BY <1>1, <2>3, <2>4, OthersKeep
  <1>8. CASE SnapshotStale
    <2>1. PICK t \in Tasks : rest' = [rest EXCEPT ![t] = Asked]
      BY <1>8 DEF SnapshotStale
    <2>3. truth' = truth /\ sent' = sent /\ buffer' = <<>> /\ wire' = wire
      BY <1>8 DEF SnapshotStale, market, sync
    <2>4. Requests'
      BY <1>0, <1>6, <2>1, <2>3 DEF Requests, Now
    <2> QED BY <1>1, <2>3, <2>4, OthersKeep
  <1>9. CASE SnapshotReplayed
    <2>0. PICK t \in Tasks : \E more \in SUBSET (IdleTasks \cup {t}) :
            rest' = [u \in Tasks |-> IF u \in more THEN Asked ELSE IF u = t THEN Idle ELSE rest[u]]
      BY <1>9 DEF SnapshotReplayed
    <2>1. PICK more \in SUBSET (IdleTasks \cup {t}) :
            rest' = [u \in Tasks |-> IF u \in more THEN Asked ELSE IF u = t THEN Idle ELSE rest[u]]
      BY <2>0
    <2>2. more \in SUBSET Tasks
      BY DEF IdleTasks
    <2>4. truth' = truth /\ sent' = sent /\ buffer' = <<>> /\ wire' = wire
      BY <1>9 DEF SnapshotReplayed, market
    <2>5. Requests'
      BY <1>0, <1>6, <2>1, <2>2, <2>4 DEF Requests, Now
    <2> QED BY <1>1, <2>4, <2>5, OthersKeep
  <1>10. CASE SnapshotFails
    <2>1. PICK t \in Tasks : rest' = [rest EXCEPT ![t].at = "failed"]
      BY <1>10 DEF SnapshotFails
    <2>2. [rest[t] EXCEPT !.at = "failed"] \in TaskStates /\ [rest[t] EXCEPT !.at = "failed"].at = "failed"
      BY <1>0 DEF Requests, TaskStates
    <2>3. truth' = truth /\ sent' = sent /\ buffer' = buffer /\ wire' = wire /\ Now' = Now
      BY <1>10 DEF SnapshotFails, market, sync, Now
    <2>4. Requests'
      BY <1>0, <2>1, <2>2, <2>3 DEF Requests
    <2> QED BY <1>1, <2>3, <2>4, OthersKeep
  <1>11. CASE SocketEnds \/ Tick \/ UNCHANGED vars
    <2>1. truth' = truth /\ sent' = sent /\ buffer' = buffer /\ wire' = wire /\ rest' = rest
      BY <1>11 DEF SocketEnds, Tick, market, sync, feed, vars
    <2>2. Requests'
      BY <1>0, <2>1 DEF Requests, Now
    <2> QED BY <1>1, <2>1, <2>2, OthersKeep
  <1>12. CASE Disconnect
    <2>1. /\ truth' = truth /\ sent' = sent /\ buffer' = buffer /\ wire' = <<>>
          /\ rest' = [t \in Tasks |-> Idle]
      BY <1>12 DEF Disconnect, market, sync
    <2>2. Requests'
      BY <1>6, <2>1 DEF Requests
    <2> QED BY <1>1, <2>1, <2>2, OthersKeep
  <1> QED
    BY <1>2, <1>3, <1>4, <1>5, <1>7, <1>8, <1>9, <1>10, <1>11, <1>12 DEF Next, SnapshotTask

-----------------------------------------------------------------------------
(* The adapters whose stream has a checksum. *)

\* The strategy reads no deeper than the checksum covers and the book keeps: 8 levels, where
\* OKX checks 25, Kraken 10, and the books keep 20.
ReadsWhatIsChecked == WalkDepth <= CheckDepth /\ WalkDepth <= MaxDepth

ByChecksum ==
    adapter \in {"okx", "kraken"} =>
        /\ book \in Books
        /\ book.init /\ ~unproven =>
             \E k \in 1 .. Now : Top(book.levels, WalkDepth) = Top(truth[k], WalkDepth)

LEMMA WrittenType ==
    ASSUME NEW b \in Books, NEW levels \in Levels, NEW sequence \in Nat,
           NEW r \in Written(b, levels, sequence)
    PROVE  r \in Books
  <1> DEFINE count == (b.count + 1) % TruncateEvery
             kept == IF count = 0 THEN Top(levels, MaxDepth) ELSE levels
  <1>1. count \in Nat /\ b.sequence \in Nat
    BY BookAssumption DEF Books
  <1>2. kept \in Levels
    BY TopType
  <1> HIDE DEF count, kept
  <1>3. Uncrossed(kept) \subseteq Levels
    <2>1. \A bids, asks : Without(kept, bids, asks) \in Levels
      BY <1>2 DEF Without, Levels
    <2> QED BY <1>2, <2>1 DEF Uncrossed
  <1>4. PICK ls \in Uncrossed(kept) :
          r = [levels |-> ls, sequence |-> IF sequence = 0 THEN b.sequence ELSE sequence,
               init |-> ~Crossed(ls), count |-> count]
    BY DEF Written, kept, count
  <1> QED BY <1>1, <1>3, <1>4 DEF Books, Levels

LEMMA SnapshotType ==
    ASSUME NEW levels \in Levels, NEW sequence \in Nat, book \in Books
    PROVE  Snapshot(levels, sequence) \in Books
  BY TopType DEF Snapshot, Books, Levels

LEMMA NamedType ==
    ASSUME Market, NEW levels \in Levels, NEW e \in Events, e.last \in 1 .. Now, NEW named
    PROVE  Named(levels, e, named) \in Levels
  <1>1. truth[e.last] \in Levels
    BY DEF Market, Now
  <1> QED BY <1>1 DEF Named, Levels

\* What comes off the socket has been sent.
LEMMA HeadWasSent ==
    ASSUME Market, Receive
    PROVE  /\ Head(wire) \in Events /\ Head(wire).last \in 1 .. Now
           /\ truth[Head(wire).last] \in Levels /\ truth' = truth /\ adapter' = adapter
  <1>1. wire # <<>> /\ wire \in Seq(Events) /\ truth' = truth /\ adapter' = adapter
    BY DEF Receive, market, Market, Stream
  <1>2. Head(wire) \in Events /\ Head(wire) = wire[1] /\ 1 \in DOMAIN wire
    BY <1>1, TailOf
  <1>3. Head(wire).last \in 1 .. Now
    BY <1>2 DEF Market, Stream, Now
  <1> QED BY <1>1, <1>2, <1>3 DEF Market, Now

LEMMA AdapterStays == [Next]_vars => adapter' = adapter
  BY DEF Next, VenueUpdates, VenueSends, VenueAnswers, Handler, StreamSnapshot, KrakenDelta,
     OkxDelta, GenericDelta, BinanceBuffers, BinanceGap, BinanceDelta, Receive, SnapshotTask,
     SnapshotApplied, SnapshotStale, SnapshotReplayed, SnapshotFails, SocketEnds, Disconnect,
     Tick, vars

LEMMA ChecksumStep ==
    ASSUME ReadsWhatIsChecked, Market, ByChecksum, [Next]_vars
    PROVE  ByChecksum'
  <1>0. adapter' = adapter /\ Kept /\ Now \in Nat /\ Now' \in Nat
    <2>1. Market' /\ Kept
      BY MarketStep
    <2> QED BY <2>1, AdapterStays DEF Market, Now
  <1> SUFFICES ASSUME adapter \in {"okx", "kraken"}
               PROVE  /\ book' \in Books
                      /\ book'.init /\ ~unproven' =>
                          \E k \in 1 .. Now' : Top(book'.levels, WalkDepth) = Top(truth'[k], WalkDepth)
    BY <1>0 DEF ByChecksum
  <1>1. /\ book \in Books /\ book.levels \in Levels
        /\ book.init /\ ~unproven => \E k \in 1 .. Now : Top(book.levels, WalkDepth) = Top(truth[k], WalkDepth)
        /\ WalkDepth \in Nat /\ CheckDepth \in Nat /\ MaxDepth \in Nat
    BY BookAssumption DEF ByChecksum, Books, Levels
  <1>2. CASE book' = book /\ unproven' = unproven
    <2>1. ASSUME NEW k \in 1 .. Now PROVE k \in 1 .. Now' /\ truth'[k] = truth[k]
      BY <1>0 DEF Kept
    <2> QED BY <1>1, <1>2, <2>1
  <1>3. ASSUME NEW k \in 1 .. Now, NEW sequence \in Nat, book' = Snapshot(truth[k], sequence), truth' = truth
        PROVE  /\ book' \in Books
               /\ book'.init /\ ~unproven' => \E j \in 1 .. Now' : Top(book'.levels, WalkDepth) = Top(truth'[j], WalkDepth)
    <2>1. truth[k] \in Levels
      BY DEF Market, Now
    <2>2. book' \in Books /\ book'.levels = Top(truth[k], MaxDepth)
      BY <1>1, <1>3, <2>1, SnapshotType DEF Snapshot
    <2>3. Top(book'.levels, WalkDepth) = Top(truth[k], WalkDepth)
      BY <1>1, <2>1, <2>2, TopOfTop DEF ReadsWhatIsChecked
    <2> QED BY <1>0, <1>3, <2>2, <2>3 DEF Now
  <1>4. ASSUME NEW sequence \in Nat, NEW summed \in BOOLEAN, NEW named, Receive,
               Checked(Head(wire), Named(book.levels, Head(wire), named), sequence, summed)
        PROVE  /\ book' \in Books
               /\ book'.init /\ ~unproven' => \E j \in 1 .. Now' : Top(book'.levels, WalkDepth) = Top(truth'[j], WalkDepth)
    <2> DEFINE e == Head(wire)
               levels == Named(book.levels, e, named)
    <2>1. e \in Events /\ e.last \in 1 .. Now /\ truth[e.last] \in Levels /\ truth' = truth
      BY <1>4, HeadWasSent
    <2> HIDE DEF e
    <2>2. levels \in Levels
      BY <1>1, <2>1, NamedType
    <2>3. Checked(e, levels, sequence, summed)
      BY <1>4 DEF e
    <2> HIDE DEF levels
    <2>4. PICK b \in Written(book, levels, sequence) :
            IF summed /\ ~Matches(b, e) THEN Refuse(b) ELSE Accept(b) /\ unproven' = ~summed
      BY <2>3 DEF Checked
    <2>5. b \in Books /\ b.levels \in Levels
      <3>1. b \in Books
        BY <1>1, <2>2, <2>4, WrittenType
      <3> QED BY <3>1 DEF Books, Levels
    <2>6. CASE summed /\ Matches(b, e)
      <3>1. book' = b
        BY <2>4, <2>6 DEF Accept
      <3>2. Top(b.levels, WalkDepth) = Top(truth[e.last], WalkDepth)
        BY <1>1, <2>1, <2>5, <2>6, TopAgrees DEF Matches, ReadsWhatIsChecked
      <3> QED BY <2>1, <2>5, <3>1, <3>2 DEF Now
    <2>7. CASE ~summed
      BY <2>4, <2>5, <2>7 DEF Accept
    <2>8. CASE summed /\ ~Matches(b, e)
      <3>1. book' = [b EXCEPT !.init = FALSE]
        BY <2>4, <2>8 DEF Refuse
      <3>2. book' \in Books /\ book'.init = FALSE
        BY <2>5, <3>1 DEF Books
      <3> QED BY <3>2
    <2> QED BY <2>6, <2>7, <2>8
  <1>5. CASE StreamSnapshot
    <2> DEFINE e == Head(wire)
               sequence == IF adapter = "okx" THEN e.last ELSE 0
    <2>1. e.last \in 1 .. Now /\ truth' = truth
      BY <1>5, HeadWasSent DEF StreamSnapshot
    <2>2. book' = Snapshot(truth[e.last], sequence)
      BY <1>5 DEF StreamSnapshot, Accept
    <2>3. sequence \in Nat
      BY <2>1
    <2> HIDE DEF e, sequence
    <2> QED BY <1>3, <2>1, <2>2, <2>3
  <1>6. CASE KrakenDelta
    <2> DEFINE e == Head(wire)
    <2>1. Receive /\ 0 \in Nat /\ FALSE \in BOOLEAN
      BY <1>6 DEF KrakenDelta
    <2>2. \/ \E side \in {Bids, Asks} : Checked(e, Named(book.levels, e, Touched(e) \cap side), 0, FALSE)
          \/ \E summed \in BOOLEAN : Checked(e, Named(book.levels, e, Touched(e)), 0, summed)
      BY <1>6 DEF KrakenDelta, Overlay
    <2>3. CASE \E side \in {Bids, Asks} : Checked(e, Named(book.levels, e, Touched(e) \cap side), 0, FALSE)
      <3>1. PICK side \in {Bids, Asks} : Checked(e, Named(book.levels, e, Touched(e) \cap side), 0, FALSE)
        BY <2>3
      <3> QED BY <1>4, <2>1, <3>1
    <2>4. CASE \E summed \in BOOLEAN : Checked(e, Named(book.levels, e, Touched(e)), 0, summed)
      <3>1. PICK summed \in BOOLEAN : Checked(e, Named(book.levels, e, Touched(e)), 0, summed)
        BY <2>4
      <3> QED BY <1>4, <2>1, <3>1
    <2> QED BY <2>2, <2>3, <2>4
  <1>7. CASE OkxDelta
    <2> DEFINE e == Head(wire)
    <2>1. Receive /\ e.last \in Nat
      BY <1>0, <1>7, HeadWasSent DEF OkxDelta
    <2>2. CASE Refuse(book)
      <3>1. book' \in Books /\ book'.init = FALSE
        BY <1>1, <2>2 DEF Refuse, Books
      <3> QED BY <3>1
    <2>3. CASE \E summed \in BOOLEAN : Checked(e, Named(book.levels, e, Touched(e)), e.last, summed)
      <3>1. PICK summed \in BOOLEAN : Checked(e, Named(book.levels, e, Touched(e)), e.last, summed)
        BY <2>3
      <3> QED BY <1>4, <2>1, <3>1
    <2> QED BY <1>7, <2>2, <2>3 DEF OkxDelta, Overlay
  <1>8. CASE SnapshotApplied
    <2>1. PICK t \in Tasks : rest[t].at = "answered" /\ Accept(Snapshot(truth[rest[t].id], 0))
      BY <1>8 DEF SnapshotApplied
    <2>2. rest[t].id \in 1 .. Now /\ truth' = truth
      BY <1>8, <2>1 DEF Market, Requests, SnapshotApplied, market
    <2> QED BY <1>3, <2>1, <2>2 DEF Accept
  <1>9. CASE Disconnect
    <2>1. book' \in Books /\ book'.init = FALSE
      BY <1>1, <1>9 DEF Disconnect, MarkDisconnected, Reset, NoLevels, Books
    <2> QED BY <2>1
  <1>10. CASE VenueUpdates \/ VenueSends \/ VenueAnswers \/ SnapshotFails \/ SocketEnds \/ Tick \/ UNCHANGED vars
    <2>1. book' = book /\ unproven' = unproven
      BY <1>10 DEF VenueUpdates, VenueSends, VenueAnswers, SnapshotFails, SocketEnds, Tick,
         QuarantineEnds, BookAges, view, feed, vars
    <2> QED BY <1>2, <2>1
  <1>11. ~(GenericDelta \/ BinanceBuffers \/ BinanceGap \/ BinanceDelta \/ SnapshotStale \/ SnapshotReplayed)
    BY DEF GenericDelta, BinanceBuffers, BinanceGap, BinanceDelta, SnapshotStale, SnapshotReplayed
  <1> QED
    BY <1>5, <1>6, <1>7, <1>8, <1>9, <1>10, <1>11 DEF Next, Handler, SnapshotTask

-----------------------------------------------------------------------------
(* Books whose every level is the venue's, or was cut off. *)

\* What is shown of an update of the venue's is never more than it has.
LEMMA ShownIsNoMore ==
    ASSUME NEW levels, NEW k, Shows(levels, k), NEW l \in Level
    PROVE  /\ levels[l] # 0 => levels[l] = truth[k][l]
           /\ Rank(levels, l) <= Rank(truth[k], l)
           /\ Rank(levels, l) \in Nat /\ Rank(truth[k], l) \in Nat
  <1>1. \A m \in Level : levels[m] # 0 => levels[m] = truth[k][m]
    BY DEF Shows
  <1>2. SameSide(l) \subseteq Level
    BY DEF SameSide, Level
  <1>3. Ahead(levels, l) \in SUBSET Ahead(truth[k], l)
    BY <1>1, <1>2 DEF Ahead
  <1>4. /\ IsFiniteSet(Ahead(truth[k], l))
        /\ Rank(levels, l) = Cardinality(Ahead(levels, l)) /\ Rank(levels, l) \in Nat
        /\ Rank(truth[k], l) = Cardinality(Ahead(truth[k], l)) /\ Rank(truth[k], l) \in Nat
    BY RankIsNatural
  <1>5. Cardinality(Ahead(levels, l)) <= Cardinality(Ahead(truth[k], l))
    BY <1>3, <1>4, FS_Subset
  <1> QED BY <1>1, <1>4, <1>5

LEMMA ShownIsNotCrossed ==
    ASSUME Market, NEW levels, NEW k \in 1 .. Now, Shows(levels, k)
    PROVE  ~Crossed(levels)
  <1>1. ~Crossed(truth[k])
    BY DEF Market
  <1>2. \A l \in Level : levels[l] # 0 => truth[k][l] # 0
    BY DEF Shows
  <1> QED BY <1>1, <1>2 DEF Crossed, Level

\* A truncation cuts what has fallen.
LEMMA CutIsShown ==
    ASSUME Market, NEW levels \in Levels, NEW k \in 1 .. Now, Shows(levels, k)
    PROVE  Shows(Top(levels, MaxDepth), k)
  <1> DEFINE kept == Top(levels, MaxDepth)
  <1> SUFFICES ASSUME NEW l \in Level
               PROVE  kept[l] = truth[k][l] \/ (kept[l] = 0 /\ Fell(l, k))
    BY DEF Shows
  <1>1. kept[l] = IF levels[l] # 0 /\ Rank(levels, l) < MaxDepth THEN levels[l] ELSE 0
    BY DEF Top
  <1> HIDE DEF kept
  <1>2. levels[l] = truth[k][l] \/ (levels[l] = 0 /\ Fell(l, k))
    BY DEF Shows
  <1>3. CASE levels[l] # 0 /\ ~(Rank(levels, l) < MaxDepth)
    <2>1. Rank(levels, l) <= Rank(truth[k], l) /\ Rank(levels, l) \in Nat /\ Rank(truth[k], l) \in Nat
      BY ShownIsNoMore
    <2>2. Rank(truth[k], l) >= MaxDepth /\ k \in 1 .. k
      BY <1>3, <2>1, BookAssumption
    <2>3. Fell(l, k)
      BY <2>2 DEF Fell
    <2> QED BY <1>1, <1>3, <2>3
  <1>4. CASE ~(levels[l] # 0 /\ ~(Rank(levels, l) < MaxDepth))
    BY <1>1, <1>2, <1>4
  <1> QED BY <1>3, <1>4

LEMMA TruthIsShown ==
    ASSUME NEW k PROVE Shows(truth[k], k)
  BY DEF Shows

LEMMA SnapshotShows ==
    ASSUME Market, NEW k \in 1 .. Now, NEW sequence \in Nat, book \in Books
    PROVE  /\ Snapshot(truth[k], sequence) \in Books
           /\ Shows(Snapshot(truth[k], sequence).levels, k)
           /\ Snapshot(truth[k], sequence).sequence = sequence
           /\ Snapshot(truth[k], sequence).init
  <1>1. truth[k] \in Levels
    BY DEF Market, Now
  <1>2. Shows(Top(truth[k], MaxDepth), k)
    BY <1>1, TruthIsShown, CutIsShown
  <1>3. /\ Snapshot(truth[k], sequence).levels = Top(truth[k], MaxDepth)
        /\ Snapshot(truth[k], sequence).sequence = sequence /\ Snapshot(truth[k], sequence).init
    BY DEF Snapshot
  <1> QED BY <1>1, <1>2, <1>3, SnapshotType

\* A level an event does not name is after it what it was before.
LEMMA UntouchedStays ==
    ASSUME Market, NEW s \in 1 .. Now, NEW e \in Events,
           e.first \in 2 .. s + 1, e.last \in s .. Now, NEW l \in Level, l \notin Touched(e)
    PROVE  truth[e.last][l] = truth[s][l]
  <1>1. Now \in Nat /\ e.first \in Nat /\ e.last \in Nat /\ s \in Nat
    BY DEF Market, Now, Events
  <1> DEFINE T == {k \in Nat : truth[k][l] = truth[s][l]}
  <1>2. ASSUME NEW k \in s .. e.last, k < e.last, k \in T PROVE k + 1 \in T
    <2>1. k + 1 \in e.first .. e.last /\ k + 1 - 1 = k /\ k + 1 \in Nat
      BY <1>1, <1>2
    <2>2. truth[k + 1][l] = truth[k][l]
      BY <2>1 DEF Touched
    <2> QED BY <1>2, <2>1, <2>2
  <1>3. s \in T
    BY <1>1
  <1>4. \A k \in s .. e.last : k \in T
    <2> HIDE DEF T
    <2> QED BY <1>1, <1>2, <1>3, IntervalInduction
  <1>5. e.last \in T
    BY <1>1, <1>4
  <1> QED BY <1>5

\* An event that follows on a book of the venue's, with or without a part the book already
\* has, makes it the venue's book after the event.
LEMMA OverlayShows ==
    ASSUME Market, NEW levels \in Levels, NEW s \in 1 .. Now, Shows(levels, s), NEW e \in Events,
           e.first \in 2 .. s + 1, e.last \in s .. Now
    PROVE  Shows(Overlay(levels, e), e.last) /\ Overlay(levels, e) \in Levels /\ e.last \in 1 .. Now
  <1>0. e.last \in 1 .. Now /\ Now \in Nat
    BY DEF Market, Now, Events
  <1>1. ASSUME NEW l \in Level
        PROVE  \/ Overlay(levels, e)[l] = truth[e.last][l]
               \/ Overlay(levels, e)[l] = 0 /\ Fell(l, e.last)
    <2>1. CASE l \in Touched(e)
      BY <2>1 DEF Overlay, Named
    <2>2. CASE l \notin Touched(e)
      <3>1. Overlay(levels, e)[l] = levels[l]
        BY <2>2 DEF Overlay, Named
      <3>2. truth[e.last][l] = truth[s][l]
        BY <2>2, UntouchedStays
      <3>3. ASSUME Fell(l, s) PROVE Fell(l, e.last)
        <4>1. PICK j \in 1 .. s : truth[j][l] = truth[s][l] /\ Rank(truth[j], l) >= MaxDepth
          BY <3>3 DEF Fell
        <4>2. j \in 1 .. e.last
          BY <1>0, <4>1
        <4> QED BY <3>2, <4>1, <4>2 DEF Fell
      <3> QED BY <3>1, <3>2, <3>3 DEF Shows
    <2> QED BY <2>1, <2>2
  <1>2. Overlay(levels, e) \in Levels
    BY <1>0, NamedType DEF Overlay
  <1> QED BY <1>0, <1>1, <1>2 DEF Shows

\* apply_delta of such an event.
LEMMA DeltaShows ==
    ASSUME Market, NEW b \in Books, NEW s \in 1 .. Now, Shows(b.levels, s),
           NEW e \in Events, e.first \in 2 .. s + 1, e.last \in s .. Now, NEW sequence \in Nat
    PROVE  \E r : /\ Written(b, Overlay(b.levels, e), sequence) = {r}
                  /\ r \in Books /\ r.init /\ Shows(r.levels, e.last)
                  /\ r.sequence = IF sequence = 0 THEN b.sequence ELSE sequence
  <1> DEFINE levels == Overlay(b.levels, e)
             count  == (b.count + 1) % TruncateEvery
             kept   == IF count = 0 THEN Top(levels, MaxDepth) ELSE levels
             r == [levels |-> kept, sequence |-> IF sequence = 0 THEN b.sequence ELSE sequence,
                   init |-> TRUE, count |-> count]
  <1>1. b.levels \in Levels
    BY DEF Books, Levels
  <1>2. Shows(levels, e.last) /\ levels \in Levels /\ e.last \in 1 .. Now
    BY <1>1, OverlayShows
  <1> HIDE DEF levels
  <1>3. Shows(kept, e.last) /\ kept \in Levels
    <2>1. Shows(Top(levels, MaxDepth), e.last) /\ Top(levels, MaxDepth) \in Levels
      BY <1>2, CutIsShown, TopType
    <2> QED BY <1>2, <2>1
  <1>4. ~Crossed(kept)
    <2> HIDE DEF kept
    <2> QED BY <1>2, <1>3, ShownIsNotCrossed
  <1>5. Uncrossed(kept) = {kept}
    BY <1>4 DEF Uncrossed
  <1>6. Written(b, levels, sequence) =
          {[levels |-> ls, sequence |-> IF sequence = 0 THEN b.sequence ELSE sequence,
            init |-> ~Crossed(ls), count |-> count] : ls \in Uncrossed(kept)}
    BY DEF Written
  <1> HIDE DEF kept, count
  <1>7. Written(b, levels, sequence) = {r}
    BY <1>4, <1>5, <1>6
  <1>8. r \in Written(b, levels, sequence)
    BY <1>7
  <1>9. r \in Books
    <2> HIDE DEF r
    <2> QED BY <1>2, <1>8, WrittenType
  <1>10. /\ r.init /\ r.levels = kept
         /\ r.sequence = IF sequence = 0 THEN b.sequence ELSE sequence
    OBVIOUS
  <1>11. /\ Written(b, Overlay(b.levels, e), sequence) = {r} /\ r \in Books
         /\ r.init /\ Shows(r.levels, e.last)
         /\ r.sequence = IF sequence = 0 THEN b.sequence ELSE sequence
    <2> HIDE DEF r
    <2> QED BY <1>3, <1>7, <1>9, <1>10, Zenon DEF levels
  <1> HIDE DEF r
  <1> QED BY <1>11, Zenon

\* The venue's books stay, and with them what is shown of them.
LEMMA ShownStays ==
    ASSUME Now \in Nat, Now' \in Nat, Now <= Now', \A k \in 1 .. Now : truth'[k] = truth[k],
           NEW levels, NEW s \in 1 .. Now, Shows(levels, s)
    PROVE  s \in 1 .. Now' /\ Shows(levels, s)'
  <1>1. \A j \in 1 .. s : j \in 1 .. Now /\ truth'[j] = truth[j]
    OBVIOUS
  <1>2. s \in 1 .. s
    OBVIOUS
  <1>3. \A l \in Level : Fell(l, s) => Fell(l, s)'
    BY <1>1, <1>2 DEF Fell, Rank
  <1> QED BY <1>1, <1>2, <1>3 DEF Shows

-----------------------------------------------------------------------------
(* Binance: the sequence. *)

BySequence ==
    adapter = "binance" =>
        /\ book \in Books /\ lastId \in Nat /\ synced \in BOOLEAN
        /\ \A i \in DOMAIN wire : wire[i].first >= 2
        /\ \A i \in DOMAIN buffer : buffer[i].first >= 2
        /\ synced => buffer = <<>>
        /\ book.init => book.sequence \in 1 .. Now /\ Shows(book.levels, book.sequence)
        /\ synced /\ socket = "up" => book.init /\ lastId \in 1 .. book.sequence

Replays == [book : Books, last : Nat, gaps : Nat]

\* A replay that has come to update last of the venue, with events still to come.
ReplayedTo(s, id, i) ==
    /\ s \in Replays /\ s.last \in id .. Now
    /\ s.book.init /\ s.book.sequence = s.last /\ Shows(s.book.levels, s.last)
    /\ \A j \in DOMAIN buffer : j > i => s.last <= id \/ s.last < buffer[j].last

LEMMA ReplayOneKeeps ==
    ASSUME Market, NEW id \in 1 .. Now, \A j \in DOMAIN buffer : buffer[j].first >= 2,
           NEW i \in Nat, i < Len(buffer), NEW s, ReplayedTo(s, id, i)
    PROVE  ReplayedTo(ReplayOne(s, buffer[i + 1], id), id, i + 1)
  <1> DEFINE e == buffer[i + 1]
  <1>1. /\ buffer \in Seq(Events) /\ i + 1 \in DOMAIN buffer /\ e \in Events /\ Now \in Nat
        /\ e.last \in 1 .. Now /\ e.first >= 2 /\ e.first <= e.last
    <2>1. buffer \in Seq(Events) /\ Now \in Nat /\ sent \in 1 .. Now
      BY DEF Market, Stream, Now
    <2>2. i + 1 \in DOMAIN buffer
      BY <2>1
    <2> QED BY <2>1, <2>2 DEF Market, Stream
  <1>2. \A j \in DOMAIN buffer : j > i + 1 => j > i /\ e.last < buffer[j].last
    <2> TAKE j \in DOMAIN buffer
    <2> HAVE j > i + 1
    <2>1. buffer[j] \in Events /\ j \in Nat
      BY <1>1
    <2>2. e.last < buffer[j].first /\ buffer[j].first <= buffer[j].last
      <3>1. /\ \A k \in DOMAIN buffer : buffer[k].first <= buffer[k].last
            /\ \A k, l \in DOMAIN buffer : k < l => buffer[k].last < buffer[l].first
        BY DEF Market, Stream
      <3> QED BY <1>1, <3>1
    <2>3. e.last \in Int /\ buffer[j].first \in Int /\ buffer[j].last \in Int
      BY <1>1, <2>1 DEF Events
    <2> QED BY <2>1, <2>2, <2>3
  <1>3. e.first \in Nat /\ e.last \in Nat /\ s.last \in Nat /\ id \in Nat
    BY <1>1 DEF Events, ReplayedTo, Replays
  <1> HIDE DEF e
  <1>4. CASE e.last <= id
    <2>1. ReplayOne(s, e, id) = s
      BY <1>3, <1>4 DEF ReplayOne
    <2> QED BY <1>2, <2>1 DEF ReplayedTo, e
  <1>5. CASE e.last > id /\ e.first > s.last + 1
    <2>1. ReplayOne(s, e, id) = [s EXCEPT !.gaps = @ + 1]
      BY <1>3, <1>5 DEF ReplayOne
    <2>2. /\ [s EXCEPT !.gaps = @ + 1] \in Replays
          /\ [s EXCEPT !.gaps = @ + 1].book = s.book /\ [s EXCEPT !.gaps = @ + 1].last = s.last
      BY DEF ReplayedTo, Replays
    <2> QED BY <1>2, <2>1, <2>2 DEF ReplayedTo, e
  <1>6. CASE e.last > id /\ ~(e.first > s.last + 1)
    <2>1. s.last < e.last
      BY <1>1, <1>3, <1>6 DEF ReplayedTo, e
    <2>2. ReplayOne(s, e, id) = [book |-> Replayed(s.book, e), last |-> e.last, gaps |-> s.gaps]
      BY <1>3, <1>6 DEF ReplayOne
    <2>3. e.first \in 2 .. s.last + 1 /\ e.last \in s.last .. Now /\ s.last \in 1 .. Now
      BY <1>1, <1>3, <1>6, <2>1 DEF ReplayedTo
    <2> DEFINE r == Replayed(s.book, e)
    <2>4. s.book \in Books /\ Shows(s.book.levels, s.last)
      BY DEF ReplayedTo, Replays
    <2>5. ASSUME NEW b \in Books, Shows(b.levels, s.last)
          PROVE  \E x : /\ Written(b, Overlay(b.levels, e), e.last) = {x}
                        /\ x \in Books /\ x.init /\ Shows(x.levels, e.last)
                        /\ x.sequence = IF e.last = 0 THEN b.sequence ELSE e.last
      <3>1. e \in Events /\ e.last \in Nat
        BY <1>1, <1>3
      <3> QED BY <2>3, <2>5, <3>1, DeltaShows
    <2>6. r \in Books /\ r.init /\ Shows(r.levels, e.last) /\ r.sequence = e.last
      <3>1. PICK x : /\ Written(s.book, Overlay(s.book.levels, e), e.last) = {x}
                     /\ x \in Books /\ x.init /\ Shows(x.levels, e.last)
                     /\ x.sequence = IF e.last = 0 THEN s.book.sequence ELSE e.last
        BY <2>4, <2>5, Zenon
      <3>2. r = CHOOSE y \in {x} : TRUE
        BY <3>1 DEF Replayed
      <3>3. r = x
        BY <3>2
      <3>4. e.last # 0
        BY <1>1, <1>3
      <3> HIDE DEF r
      <3> QED BY <3>1, <3>3, <3>4
    <2> HIDE DEF r
    <2>7. /\ ReplayOne(s, e, id) = [book |-> r, last |-> e.last, gaps |-> s.gaps]
          /\ s.gaps \in Nat
      BY <2>2 DEF r, ReplayedTo, Replays
    <2> QED BY <1>1, <1>2, <1>3, <1>6, <2>6, <2>7 DEF ReplayedTo, Replays, e
  <1> QED BY <1>3, <1>4, <1>5, <1>6 DEF e

\* The replay of the whole buffer on a snapshot.
LEMMA ReplayIsTrue ==
    ASSUME Market, book \in Books, NEW id \in 1 .. Now,
           \A j \in DOMAIN buffer : buffer[j].first >= 2
    PROVE  ReplayedTo(Replay(id), id, Len(buffer))
  <1> DEFINE base == [book |-> Snapshot(truth[id], id), last |-> id, gaps |-> 0]
             Loop(f, n) == f = [i \in 0 .. n |-> IF i = 0 THEN base ELSE ReplayOne(f[i - 1], buffer[i], id)]
             Looped == {n \in Nat : \E f : Loop(f, n)}
             after == CHOOSE f : Loop(f, Len(buffer))
  <1>1. Len(buffer) \in Nat /\ Now \in Nat
    BY DEF Market, Stream, Now
  <1>2. 0 \in Looped
    <2>1. Loop([i \in 0 .. 0 |-> base], 0)
      <3> HIDE DEF base
      <3> QED OBVIOUS
    <2> QED BY <2>1
  <1>3. ASSUME NEW n \in 0 .. Len(buffer), n < Len(buffer), n \in Looped PROVE n + 1 \in Looped
    <2>1. PICK f : Loop(f, n)
      BY <1>3
    <2> DEFINE g == [i \in 0 .. n + 1 |-> IF i = n + 1 THEN ReplayOne(f[n], buffer[n + 1], id) ELSE f[i]]
    <2>2. Loop(g, n + 1)
      <3> HIDE DEF base
      <3>1. ASSUME NEW i \in 0 .. n + 1
            PROVE  g[i] = IF i = 0 THEN base ELSE ReplayOne(g[i - 1], buffer[i], id)
        <4>1. CASE i = n + 1
          <5>1. n + 1 - 1 = n /\ g[n] = f[n] /\ n + 1 # 0
            BY <1>1
          <5> QED BY <4>1, <5>1
        <4>2. CASE i \in 0 .. n /\ i # 0
          <5>1. g[i] = f[i] /\ i - 1 \in 0 .. n /\ g[i - 1] = f[i - 1]
            BY <1>1, <4>2
          <5> QED BY <2>1, <4>2, <5>1
        <4>3. CASE i = 0
          <5>1. g[0] = f[0]
            BY <1>1
          <5> QED BY <2>1, <4>3, <5>1
        <4> QED BY <4>1, <4>2, <4>3
      <3>2. g = [i \in 0 .. n + 1 |-> g[i]]
        OBVIOUS
      <3> HIDE DEF g
      <3> QED BY <3>1, <3>2
    <2> HIDE DEF g, Loop
    <2>3. n + 1 \in Nat
      BY <1>1
    <2> QED BY <2>2, <2>3
  <1>4. Len(buffer) \in Looped
    <2> HIDE DEF Looped
    <2>1. \A n \in 0 .. Len(buffer) : n \in Looped
      BY <1>1, <1>2, <1>3, IntervalInduction
    <2> QED BY <1>1, <2>1
  <1>5. Loop(after, Len(buffer))
    <2> HIDE DEF Loop
    <2> QED BY <1>4
  <1>6. Replay(id) = after[Len(buffer)]
    BY DEF Replay
  <1> DEFINE Good == {i \in Nat : ReplayedTo(after[i], id, i)}
  <1>7. 0 \in Good
    <2>1. after[0] = base
      <3> HIDE DEF after, base
      <3> QED BY <1>1, <1>5
    <2>2. /\ base \in Replays /\ base.last = id /\ base.book.init
          /\ base.book.sequence = id /\ Shows(base.book.levels, id)
      BY <1>1, SnapshotShows DEF Replays
    <2>3. id \in id .. Now
      BY <1>1
    <2> HIDE DEF after, base
    <2> QED BY <2>1, <2>2, <2>3 DEF ReplayedTo
  <1>8. ASSUME NEW n \in 0 .. Len(buffer), n < Len(buffer), n \in Good PROVE n + 1 \in Good
    <2>1. after[n + 1] = ReplayOne(after[n], buffer[n + 1], id)
      <3> HIDE DEF after, base
      <3>1. n + 1 \in 0 .. Len(buffer) /\ n + 1 # 0 /\ n + 1 - 1 = n
        BY <1>1, <1>8
      <3> QED BY <1>5, <3>1
    <2> HIDE DEF after
    <2>2. n \in Nat /\ n + 1 \in Nat /\ ReplayedTo(after[n], id, n)
      BY <1>1, <1>8
    <2>3. ReplayedTo(after[n + 1], id, n + 1)
      BY <1>8, <2>1, <2>2, ReplayOneKeeps
    <2> QED BY <2>2, <2>3
  <1>9. Len(buffer) \in Good
    <2> HIDE DEF Good
    <2>1. \A n \in 0 .. Len(buffer) : n \in Good
      BY <1>1, <1>7, <1>8, IntervalInduction
    <2> QED BY <1>1, <2>1
  <1> QED BY <1>6, <1>9

LEMMA SequenceStep ==
    ASSUME Market, BySequence, [Next]_vars
    PROVE  BySequence'
  <1>0. /\ adapter' = adapter /\ Now \in Nat /\ Now' \in Nat /\ Now <= Now'
        /\ \A k \in 1 .. Now : truth'[k] = truth[k]
    <2>1. Market' /\ Kept
      BY MarketStep
    <2> QED BY <2>1, AdapterStays DEF Market, Now, Kept
  <1> SUFFICES ASSUME adapter = "binance"
               PROVE  /\ book' \in Books /\ lastId' \in Nat /\ synced' \in BOOLEAN
                      /\ \A i \in DOMAIN wire' : wire'[i].first >= 2
                      /\ \A i \in DOMAIN buffer' : buffer'[i].first >= 2
                      /\ synced' => buffer' = <<>>
                      /\ book'.init => book'.sequence \in 1 .. Now' /\ Shows(book.levels, book.sequence)'
                      /\ synced' /\ socket' = "up" => book'.init /\ lastId' \in 1 .. book'.sequence
    BY <1>0 DEF BySequence
  <1>1. /\ book \in Books /\ lastId \in Nat /\ synced \in BOOLEAN
        /\ \A i \in DOMAIN wire : wire[i].first >= 2
        /\ \A i \in DOMAIN buffer : buffer[i].first >= 2
        /\ synced => buffer = <<>>
        /\ book.init => book.sequence \in 1 .. Now /\ Shows(book.levels, book.sequence)
        /\ synced /\ socket = "up" => book.init /\ lastId \in 1 .. book.sequence
        /\ wire \in Seq(Events) /\ buffer \in Seq(Events) /\ sent \in 1 .. Now
    BY DEF BySequence, Market, Stream
  <1>2. ASSUME book' = book, book.init
        PROVE  book'.sequence \in 1 .. Now' /\ Shows(book.levels, book.sequence)'
    <2>2. ASSUME NEW levels, NEW s \in 1 .. Now, Shows(levels, s)
          PROVE  \A l \in Level : levels[l] = truth'[s][l] \/ (levels[l] = 0 /\ Fell(l, s)')
      BY <1>0, <2>2, ShownStays DEF Shows
    <2>3. PICK s \in 1 .. Now : s = book.sequence
      BY <1>1, <1>2
    <2>4. PICK levels : levels = book.levels
      OBVIOUS
    <2>5. Shows(levels, s)
      BY <1>1, <1>2, <2>3, <2>4
    <2>6. \A l \in Level : levels[l] = truth'[s][l] \/ (levels[l] = 0 /\ Fell(l, s)')
      BY <2>2, <2>5, Zenon
    <2>7. book'.sequence = s /\ book'.levels = levels /\ s \in 1 .. Now'
      BY <1>0, <1>2, <2>3, <2>4
    <2> QED BY <2>6, <2>7 DEF Shows, Fell
  <1>20. ASSUME truth' = truth, NEW b, NEW s, book' = b, b.sequence = s, s \in 1 .. Now, Shows(b.levels, s)
         PROVE  book'.sequence \in 1 .. Now' /\ Shows(book.levels, book.sequence)'
    <2>1. Now' = Now
      BY <1>20 DEF Now
    <2>2. \A l \in Level : b.levels[l] = truth[s][l] \/ (b.levels[l] = 0 /\ Fell(l, s))
      BY <1>20 DEF Shows
    <2> QED BY <1>20, <2>1, <2>2 DEF Shows, Fell, Rank
  <1>3. ASSUME Receive
        PROVE  /\ socket = "up" /\ socket' = "up" /\ truth' = truth /\ Now' = Now
               /\ Head(wire) \in Events /\ Head(wire).first >= 2
               /\ Head(wire).first <= Head(wire).last /\ Head(wire).last \in 1 .. Now
               /\ \A i \in DOMAIN wire' : wire'[i].first >= 2
    <2>1. /\ socket = "up" /\ socket' = socket /\ truth' = truth /\ wire # <<>> /\ wire' = Tail(wire)
      BY <1>3 DEF Receive, market
    <2>2. Head(wire) = wire[1] /\ 1 \in DOMAIN wire /\ \A i \in DOMAIN wire' : i + 1 \in DOMAIN wire /\ wire'[i] = wire[i + 1]
      BY <1>1, <2>1, TailOf
    <2>3. Head(wire).first <= Head(wire).last
      BY <2>2 DEF Market, Stream
    <2> QED BY <1>1, <1>3, <2>1, <2>2, <2>3, HeadWasSent DEF Now
  <1>4. CASE VenueUpdates \/ VenueAnswers \/ SnapshotFails \/ Tick \/ UNCHANGED vars
    <2>1. /\ book' = book /\ lastId' = lastId /\ synced' = synced /\ socket' = socket
          /\ wire' = wire /\ buffer' = buffer
      BY <1>4 DEF VenueUpdates, VenueAnswers, SnapshotFails, Tick, QuarantineEnds, BookAges, view, vars, sync, feed
    <2> QED BY <1>1, <1>2, <2>1
  <1>5. CASE SocketEnds
    <2>1. /\ book' = book /\ lastId' = lastId /\ synced' = synced /\ socket' # "up"
          /\ wire' = wire /\ buffer' = buffer
      BY <1>5 DEF SocketEnds, view, sync
    <2> QED BY <1>1, <1>2, <2>1
  <1>6. CASE VenueSends
    <2>1. /\ book' = book /\ lastId' = lastId /\ synced' = synced /\ socket' = socket /\ buffer' = buffer
          /\ wire' = wire \/ wire' = Append(wire, Event(sent + 1, Now))
      BY <1>6 DEF VenueSends, view, sync
    <2>2. ASSUME NEW i \in DOMAIN wire' PROVE wire'[i].first >= 2
      <3>1. Event(sent + 1, Now) \in Events /\ Event(sent + 1, Now).first = sent + 1
        BY <1>0, <1>1 DEF Event, Events
      <3>2. CASE wire' = Append(wire, Event(sent + 1, Now))
        <4> DEFINE e == Event(sent + 1, Now)
        <4>1. e \in Events /\ e.first >= 2 /\ wire' = Append(wire, e)
          BY <1>1, <3>1, <3>2
        <4> HIDE DEF e
        <4>2. /\ DOMAIN wire' = 1 .. Len(wire) + 1 /\ wire'[Len(wire) + 1] = e /\ Len(wire) \in Nat
              /\ DOMAIN wire = 1 .. Len(wire) /\ \A j \in DOMAIN wire : wire'[j] = wire[j]
          BY <1>1, <4>1, AppendOf
        <4>3. i \in DOMAIN wire \/ i = Len(wire) + 1
          BY <4>2
        <4> QED BY <1>1, <4>1, <4>2, <4>3
      <3> QED BY <1>1, <2>1, <3>2
    <2> QED BY <1>1, <1>2, <2>1, <2>2
  <1>7. CASE BinanceBuffers
    <2>1. /\ book' = book /\ lastId' = lastId /\ ~synced /\ synced' = synced /\ Receive
          /\ buffer' = buffer \/ buffer' = Append(buffer, Head(wire))
      BY <1>7 DEF BinanceBuffers, view
    <2>2. ASSUME NEW i \in DOMAIN buffer' PROVE buffer'[i].first >= 2
      <3> DEFINE e == Head(wire)
      <3>1. e \in Events /\ e.first >= 2
        BY <1>3, <2>1
      <3>2. CASE buffer' = Append(buffer, e)
        <4> HIDE DEF e
        <4>2. /\ DOMAIN buffer' = 1 .. Len(buffer) + 1 /\ buffer'[Len(buffer) + 1] = e /\ Len(buffer) \in Nat
              /\ DOMAIN buffer = 1 .. Len(buffer) /\ \A j \in DOMAIN buffer : buffer'[j] = buffer[j]
          BY <1>1, <3>1, <3>2, AppendOf
        <4>3. i \in DOMAIN buffer \/ i = Len(buffer) + 1
          BY <4>2
        <4> QED BY <1>1, <3>1, <4>2, <4>3
      <3> QED BY <1>1, <2>1, <3>2
    <2> QED BY <1>1, <1>2, <1>3, <2>1, <2>2
  <1>8. CASE BinanceGap
    <2>1. book' = book /\ lastId' = lastId /\ synced' = FALSE /\ buffer' = <<>> /\ Receive
      BY <1>8 DEF BinanceGap, view
    <2>2. \A i \in DOMAIN buffer' : buffer'[i].first >= 2
      BY <2>1
    <2>3. \A i \in DOMAIN wire' : wire'[i].first >= 2
      BY <1>3, <2>1
    <2> QED BY <1>1, <1>2, <2>1, <2>2, <2>3
  <1>9. CASE BinanceDelta
    <2> DEFINE e == Head(wire)
    <2>1. /\ synced /\ Receive /\ FollowsOn(e) /\ lastId' = e.last /\ synced' = synced /\ buffer' = buffer
          /\ IF book.init /\ e.last <= book.sequence THEN UNCHANGED view
             ELSE \E b \in Written(book, Overlay(book.levels, e), e.last) : Accept(b)
      BY <1>9 DEF BinanceDelta
    <2>2. /\ socket' = "up" /\ truth' = truth /\ Now' = Now /\ e \in Events /\ e.first >= 2
          /\ e.first <= e.last /\ e.last \in 1 .. Now /\ \A i \in DOMAIN wire' : wire'[i].first >= 2
          /\ book.init /\ lastId \in 1 .. book.sequence
          /\ book.sequence \in 1 .. Now /\ Shows(book.levels, book.sequence)
      BY <1>1, <1>3, <2>1
    <2> HIDE DEF e
    <2>3. e.first \in 2 .. book.sequence + 1 /\ e.last \in Nat /\ book.sequence \in Nat
      BY <1>0, <1>1, <2>1, <2>2 DEF FollowsOn, Events, Books
    <2>4. CASE e.last <= book.sequence
      <3>1. book' = book
        BY <2>1, <2>2, <2>4 DEF view
      <3>2. book'.sequence \in 1 .. Now' /\ Shows(book.levels, book.sequence)'
        BY <1>2, <2>2, <3>1
      <3> QED BY <1>1, <2>1, <2>2, <2>3, <2>4, <3>1, <3>2
    <2>5. CASE ~(e.last <= book.sequence)
      <3>1. e.last \in book.sequence .. Now
        BY <1>0, <2>2, <2>3, <2>5
      <3>2. PICK b \in Written(book, Overlay(book.levels, e), e.last) : book' = b
        BY <2>1, <2>5 DEF Accept
      <3>3. PICK r : /\ Written(book, Overlay(book.levels, e), e.last) = {r}
                     /\ r \in Books /\ r.init /\ Shows(r.levels, e.last)
                     /\ r.sequence = IF e.last = 0 THEN book.sequence ELSE e.last
        <4>1. /\ book \in Books /\ book.sequence \in 1 .. Now /\ Shows(book.levels, book.sequence)
              /\ e \in Events /\ e.first \in 2 .. book.sequence + 1 /\ e.last \in book.sequence .. Now
              /\ e.last \in Nat
          BY <1>1, <2>2, <2>3, <3>1
        <4>2. \E r : /\ Written(book, Overlay(book.levels, e), e.last) = {r}
                     /\ r \in Books /\ r.init /\ Shows(r.levels, e.last)
                     /\ r.sequence = IF e.last = 0 THEN book.sequence ELSE e.last
          BY <4>1, DeltaShows
        <4> QED BY <4>2
      <3>4. b = r /\ r.sequence = e.last /\ e.last \in 1 .. Now
        BY <2>2, <3>2, <3>3
      <3>5. book'.sequence \in 1 .. Now' /\ Shows(book.levels, book.sequence)'
        BY <1>20, <2>2, <3>2, <3>3, <3>4
      <3>6. book'.init /\ book' \in Books /\ lastId' \in 1 .. book'.sequence
        BY <2>1, <2>2, <2>3, <3>2, <3>3, <3>4
      <3> QED BY <1>1, <2>1, <2>2, <2>3, <3>5, <3>6
    <2> QED BY <2>4, <2>5
  <1>10. CASE SnapshotStale
    <2>1. PICK t \in Tasks : /\ rest[t].at = "answered" /\ Accept(Snapshot(truth[rest[t].id], rest[t].id))
                             /\ lastId' = rest[t].id
      BY <1>10 DEF SnapshotStale
    <2>2. /\ rest[t].id \in 1 .. Now /\ truth' = truth /\ wire' = wire /\ buffer' = <<>> /\ synced' = synced
          /\ book' = Snapshot(truth[rest[t].id], rest[t].id)
      BY <1>10, <2>1 DEF Market, Requests, SnapshotStale, market, Accept
    <2>3. rest[t].id \in Nat
      BY <1>0, <2>2
    <2>4. /\ book' \in Books /\ Shows(Snapshot(truth[rest[t].id], rest[t].id).levels, rest[t].id)
          /\ book'.sequence = rest[t].id /\ book'.init
      BY <1>1, <2>2, <2>3, SnapshotShows
    <2>5. book'.sequence \in 1 .. Now' /\ Shows(book.levels, book.sequence)'
      BY <1>20, <2>2, <2>4
    <2> QED BY <1>0, <1>1, <2>1, <2>2, <2>3, <2>4, <2>5
  <1>11. CASE SnapshotReplayed
    <2>1. PICK t \in Tasks : /\ rest[t].at = "answered" /\ Accept(Replay(rest[t].id).book)
                             /\ lastId' = Replay(rest[t].id).last
      BY <1>11 DEF SnapshotReplayed
    <2> DEFINE id == rest[t].id
               replay == Replay(id)
    <2>2. /\ id \in 1 .. Now /\ truth' = truth /\ wire' = wire /\ buffer' = <<>> /\ synced' = TRUE
          /\ book' = replay.book /\ lastId' = replay.last
      BY <1>11, <2>1 DEF Market, Requests, SnapshotReplayed, market, Accept
    <2>3. ReplayedTo(replay, id, Len(buffer))
      <3> HIDE DEF id
      <3> QED BY <1>1, <2>2, ReplayIsTrue
    <2> HIDE DEF replay
    <2>4. /\ replay.book \in Books /\ replay.last \in 1 .. Now
          /\ replay.book.init /\ replay.book.sequence = replay.last
          /\ Shows(replay.book.levels, replay.last)
      BY <1>0, <2>2, <2>3 DEF ReplayedTo, Replays
    <2>5. book'.sequence \in 1 .. Now' /\ Shows(book.levels, book.sequence)'
      BY <1>20, <2>2, <2>4
    <2> QED BY <1>0, <1>1, <2>2, <2>4, <2>5 DEF Now
  <1>12. CASE Disconnect
    <2>1. /\ book' \in Books /\ book'.init = FALSE /\ lastId' = lastId /\ synced' = synced
          /\ socket' = "over" /\ wire' = <<>> /\ buffer' = buffer
      BY <1>1, <1>12 DEF Disconnect, MarkDisconnected, Reset, NoLevels, Books, sync
    <2> QED BY <1>1, <2>1
  <1>13. ASSUME StreamSnapshot PROVE FALSE
    <2>1. Receive /\ Head(wire).first = 0
      BY <1>13 DEF StreamSnapshot
    <2> QED BY <1>3, <2>1
  <1>14. ~(KrakenDelta \/ OkxDelta \/ GenericDelta \/ SnapshotApplied)
    BY DEF KrakenDelta, OkxDelta, GenericDelta, SnapshotApplied
  <1> QED
    BY <1>4, <1>5, <1>6, <1>7, <1>8, <1>9, <1>10, <1>11, <1>12, <1>13, <1>14 DEF Next, Handler, SnapshotTask

-----------------------------------------------------------------------------
(* The generic adapter, on a stream that loses nothing. *)

\* The stream goes on from the venue's update k; 0 is before its opening snapshot.
GoesOnFrom(k) ==
    /\ wire = <<>> => k = sent
    /\ wire # <<>> =>
         /\ wire[Len(wire)].last = sent
         /\ IF k = 0 THEN wire[1].first = 0 /\ wire[1].last = 1 ELSE wire[1].first = k + 1
    /\ \A i \in DOMAIN wire : i + 1 \in DOMAIN wire => wire[i + 1].first = wire[i].last + 1

InStep ==
    adapter = "generic" =>
        /\ book \in Books
        /\ \A t \in Tasks : rest[t].at = "idle"
        /\ book.init => \E k \in 1 .. Now : Shows(book.levels, k)
        /\ socket = "up" => \E k \in 0 .. sent :
                              GoesOnFrom(k) /\ (k > 0 => book.init /\ Shows(book.levels, k))

LEMMA InStepStep ==
    ASSUME "generic" \notin Lossy, Market, InStep, [Next]_vars
    PROVE  InStep'
  <1>0. /\ adapter' = adapter /\ Now \in Nat /\ Now' \in Nat /\ Now <= Now'
        /\ \A k \in 1 .. Now : truth'[k] = truth[k]
    <2>1. Market' /\ Kept
      BY MarketStep
    <2> QED BY <2>1, AdapterStays DEF Market, Now, Kept
  <1> SUFFICES ASSUME adapter = "generic"
               PROVE  /\ book' \in Books
                      /\ \A t \in Tasks : rest'[t].at = "idle"
                      /\ book'.init => \E k \in 1 .. Now' : Shows(book.levels, k)'
                      /\ socket' = "up" => \E k \in 0 .. sent' :
                              GoesOnFrom(k)' /\ (k > 0 => book'.init /\ Shows(book.levels, k)')
    BY <1>0 DEF InStep
  <1>1. /\ book \in Books /\ \A t \in Tasks : rest[t].at = "idle"
        /\ book.init => \E k \in 1 .. Now : Shows(book.levels, k)
        /\ socket = "up" => \E k \in 0 .. sent :
                              GoesOnFrom(k) /\ (k > 0 => book.init /\ Shows(book.levels, k))
        /\ wire \in Seq(Events) /\ sent \in 1 .. Now
    BY DEF InStep, Market, Stream
  <1>20. ASSUME book' = book, NEW k \in 1 .. Now, Shows(book.levels, k)
         PROVE  k \in 1 .. Now' /\ Shows(book.levels, k)'
    <2>1. k \in 1 .. Now' /\ \A l \in Level : book.levels[l] = truth'[k][l] \/ (book.levels[l] = 0 /\ Fell(l, k)')
      BY <1>0, <1>20, ShownStays DEF Shows
    <2> QED BY <1>20, <2>1 DEF Shows, Fell
  <1>2. ASSUME book' = book
        PROVE  book'.init => \E k \in 1 .. Now' : Shows(book.levels, k)'
    BY <1>1, <1>2, <1>20
  <1>3. CASE VenueUpdates \/ Tick \/ UNCHANGED vars
    <2>1. book' = book /\ rest' = rest /\ wire' = wire /\ socket' = socket /\ sent' = sent
      BY <1>3 DEF VenueUpdates, Tick, QuarantineEnds, BookAges, vars, view, feed, market
    <2>2. \A k \in 0 .. sent : k > 0 => k \in 1 .. Now
      BY <1>0, <1>1
    <2>3. socket' = "up" => \E k \in 0 .. sent :
                              GoesOnFrom(k)' /\ (k > 0 => book'.init /\ Shows(book.levels, k)')
      BY <1>1, <1>20, <2>1, <2>2 DEF GoesOnFrom
    <2> QED BY <1>1, <1>2, <2>1, <2>3
  <1>4. CASE SocketEnds
    <2>1. book' = book /\ rest' = rest /\ socket' # "up"
      BY <1>4 DEF SocketEnds, view
    <2> QED BY <1>1, <1>2, <2>1
  <1>5. CASE VenueSends
    <2>1. /\ book' = book /\ rest' = rest /\ socket = "up" /\ truth' = truth /\ sent' = Now /\ sent < Now
          /\ wire' = Append(wire, Event(sent + 1, Now))
      BY <1>5 DEF VenueSends, view
    <2> DEFINE e == Event(sent + 1, Now)
    <2>2. e \in Events /\ e.first = sent + 1 /\ e.last = Now /\ wire' = Append(wire, e)
      BY <1>0, <1>1, <2>1 DEF Event, Events
    <2> HIDE DEF e
    <2>3. /\ DOMAIN wire' = 1 .. Len(wire) + 1 /\ wire'[Len(wire) + 1] = e /\ Len(wire) \in Nat
          /\ DOMAIN wire = 1 .. Len(wire) /\ \A j \in DOMAIN wire : wire'[j] = wire[j]
          /\ wire' # <<>> /\ Len(wire') = Len(wire) + 1
      BY <1>1, <2>2, AppendOf
    <2>4. PICK k \in 0 .. sent : GoesOnFrom(k) /\ (k > 0 => book.init /\ Shows(book.levels, k))
      BY <1>1, <2>1, Zenon
    <2>5. GoesOnFrom(k)'
      <3>1. wire = <<>> => k = sent /\ Len(wire) = 0
        BY <2>4 DEF GoesOnFrom
      <3>2. wire # <<>> => 1 \in DOMAIN wire /\ Len(wire) \in DOMAIN wire
        BY <1>1, <2>3
      <3>3. IF k = 0 THEN wire'[1].first = 0 /\ wire'[1].last = 1 ELSE wire'[1].first = k + 1
        <4>1. CASE wire = <<>>
          BY <1>1, <2>2, <2>3, <3>1, <4>1
        <4>2. CASE wire # <<>>
          BY <2>3, <2>4, <3>2, <4>2 DEF GoesOnFrom
        <4> QED BY <4>1, <4>2
      <3>4. ASSUME NEW i \in DOMAIN wire', i + 1 \in DOMAIN wire'
            PROVE  wire'[i + 1].first = wire'[i].last + 1
        <4>1. i \in DOMAIN wire
          BY <2>3, <3>4
        <4>2. CASE i + 1 \in DOMAIN wire
          BY <2>3, <2>4, <4>1, <4>2 DEF GoesOnFrom
        <4>3. CASE i + 1 \notin DOMAIN wire
          <5>1. i = Len(wire) /\ wire # <<>>
            BY <2>3, <3>4, <4>1, <4>3
          <5> QED BY <2>2, <2>3, <2>4, <3>2, <4>1, <5>1 DEF GoesOnFrom
        <4> QED BY <4>2, <4>3
      <3> QED BY <2>1, <2>2, <2>3, <3>3, <3>4 DEF GoesOnFrom
    <2>6. k \in 0 .. sent' /\ (k > 0 => k \in 1 .. Now)
      BY <1>0, <1>1, <2>1
    <2>7. k > 0 => book'.init /\ Shows(book.levels, k)'
      BY <1>20, <2>1, <2>4, <2>6
    <2>8. book'.init => \E j \in 1 .. Now' : Shows(book.levels, j)'
      BY <1>2, <2>1
    <2> QED BY <1>1, <2>1, <2>5, <2>6, <2>7, <2>8
  <1>6. ASSUME Receive, NEW k \in 0 .. sent, GoesOnFrom(k), book'.init,
               Shows(book'.levels, Head(wire).last), book' \in Books, rest' = rest
        PROVE  /\ book'.init => \E j \in 1 .. Now' : Shows(book.levels, j)'
               /\ \E j \in 0 .. sent' : GoesOnFrom(j)' /\ (j > 0 => book'.init /\ Shows(book.levels, j)')
    <2>1. wire # <<>> /\ wire' = Tail(wire) /\ truth' = truth /\ sent' = sent
      BY <1>6 DEF Receive, market
    <2>2. /\ Head(wire) = wire[1] /\ 1 \in DOMAIN wire /\ Len(wire') = Len(wire) - 1 /\ Len(wire) \in Nat
          /\ DOMAIN wire = 1 .. Len(wire) /\ DOMAIN wire' = 1 .. Len(wire) - 1
          /\ \A i \in DOMAIN wire' : i + 1 \in DOMAIN wire /\ wire'[i] = wire[i + 1]
      BY <1>1, <2>1, TailOf
    <2>3. PICK j \in 1 .. sent : j = Head(wire).last
      BY <1>1, <2>2 DEF Market, Stream
    <2>4. GoesOnFrom(j)'
      <3>1. wire' = <<>> => j = sent
        <4>1. wire' = <<>> => Len(wire) = 1
          BY <2>2
        <4> QED BY <1>6, <2>1, <2>2, <2>3, <4>1 DEF GoesOnFrom
      <3>2. wire' # <<>> => 1 \in DOMAIN wire' /\ wire'[Len(wire')].last = sent /\ wire'[1].first = j + 1
        <4> SUFFICES ASSUME wire' # <<>>
                     PROVE  1 \in DOMAIN wire' /\ wire'[Len(wire')].last = sent /\ wire'[1].first = j + 1
          OBVIOUS
        <4>1. Len(wire') \in DOMAIN wire' /\ 1 \in DOMAIN wire' /\ Len(wire') + 1 = Len(wire) /\ 1 + 1 = 2
          <5>1. wire' \in Seq(Events)
            BY <1>1, <2>1, TailOf
          <5> QED BY <2>2, <5>1
        <4>2. wire'[Len(wire')] = wire[Len(wire)] /\ wire'[1] = wire[2] /\ 2 \in DOMAIN wire
          BY <2>2, <4>1
        <4> QED BY <1>6, <2>1, <2>2, <2>3, <4>1, <4>2 DEF GoesOnFrom
      <3>3. ASSUME NEW i \in DOMAIN wire', i + 1 \in DOMAIN wire'
            PROVE  wire'[i + 1].first = wire'[i].last + 1
        <4>1. wire'[i] = wire[i + 1] /\ wire'[i + 1] = wire[i + 1 + 1] /\ i + 1 \in DOMAIN wire /\ i + 1 + 1 \in DOMAIN wire
          BY <2>2, <3>3
        <4> QED BY <1>6, <4>1 DEF GoesOnFrom
      <3>4. j # 0 /\ sent' = sent
        BY <1>1, <2>1, <2>3
      <3> QED BY <3>1, <3>2, <3>3, <3>4 DEF GoesOnFrom
    <2>5. j \in 1 .. Now' /\ j \in 0 .. sent'
      BY <1>0, <1>1, <2>1, <2>3
    <2>6. Shows(book.levels, j)'
      <3>1. \A l \in Level : book'.levels[l] = truth[j][l] \/ (book'.levels[l] = 0 /\ Fell(l, j))
        BY <1>6, <2>3 DEF Shows
      <3> QED BY <2>1, <3>1 DEF Shows, Fell, Rank
    <2> QED BY <1>6, <2>4, <2>5, <2>6
  <1>7. ASSUME Receive
        PROVE  \E k \in 0 .. sent : GoesOnFrom(k) /\ (k > 0 => book.init /\ Shows(book.levels, k))
    BY <1>1, <1>7, Zenon DEF Receive
  <1>8. ASSUME Receive, NEW k \in 0 .. sent, GoesOnFrom(k)
        PROVE  /\ Head(wire) \in Events /\ Head(wire).last \in 1 .. Now /\ Head(wire).first <= Head(wire).last
               /\ Head(wire).first = IF k = 0 THEN 0 ELSE k + 1
    <2>1. wire # <<>> /\ Head(wire) = wire[1] /\ 1 \in DOMAIN wire
      BY <1>1, <1>8, TailOf DEF Receive
    <2>2. wire[1].first <= wire[1].last
      BY <2>1 DEF Market, Stream
    <2> QED BY <1>8, <2>1, <2>2, HeadWasSent DEF GoesOnFrom
  <1>9. CASE StreamSnapshot
    <2>1. Receive /\ rest' = rest /\ book' = Snapshot(truth[Head(wire).last], 0)
      BY <1>9 DEF StreamSnapshot, Accept
    <2>2. PICK k \in 0 .. sent : GoesOnFrom(k)
      BY <1>7, <2>1
    <2>3. Head(wire).last \in 1 .. Now
      BY <1>8, <2>1, <2>2
    <2>4. book' \in Books /\ book'.init /\ Shows(book'.levels, Head(wire).last)
      <3> DEFINE n == Head(wire).last
      <3> HIDE DEF n
      <3>1. n \in 1 .. Now /\ book' = Snapshot(truth[n], 0) /\ 0 \in Nat
        BY <2>1, <2>3 DEF n
      <3>2. /\ Snapshot(truth[n], 0) \in Books /\ Snapshot(truth[n], 0).init
            /\ Shows(Snapshot(truth[n], 0).levels, n)
        BY <1>1, <3>1, SnapshotShows
      <3>3. book' \in Books /\ book'.init /\ Shows(book'.levels, n)
        BY <3>1, <3>2, Zenon
      <3> QED BY <3>3 DEF n
    <2> QED BY <1>1, <1>6, <2>1, <2>2, <2>4
  <1>10. CASE GenericDelta
    <2> DEFINE e == Head(wire)
    <2>1. /\ Receive /\ rest' = rest /\ e.first > 0
          /\ \E b \in Written(book, Overlay(book.levels, e), 0) : book' = b
      BY <1>10 DEF GenericDelta, Accept
    <2>2. PICK k \in 0 .. sent : GoesOnFrom(k) /\ (k > 0 => book.init /\ Shows(book.levels, k))
      BY <1>7, <2>1
    <2>3. /\ e \in Events /\ e.last \in 1 .. Now /\ e.first <= e.last /\ e.first = IF k = 0 THEN 0 ELSE k + 1
      BY <1>8, <2>1, <2>2
    <2> HIDE DEF e
    <2>4. k \in 1 .. Now /\ e.first \in 2 .. k + 1 /\ e.last \in k .. Now
      BY <1>0, <1>1, <2>1, <2>2, <2>3 DEF Events
    <2>5. PICK b \in Written(book, Overlay(book.levels, e), 0) : book' = b
      BY <2>1
    <2>6. b \in Books /\ b.init /\ Shows(b.levels, e.last)
      <3>1. Shows(book.levels, k) /\ 0 \in Nat /\ book.init
        BY <2>2, <2>4
      <3>2. \E r : /\ Written(book, Overlay(book.levels, e), 0) = {r}
                   /\ r \in Books /\ r.init /\ Shows(r.levels, e.last)
        BY <1>1, <2>3, <2>4, <3>1, DeltaShows
      <3>3. PICK r : /\ Written(book, Overlay(book.levels, e), 0) = {r}
                     /\ r \in Books /\ r.init /\ Shows(r.levels, e.last)
        BY <3>2
      <3> QED BY <2>5, <3>3
    <2>7. book' \in Books /\ book'.init /\ Shows(book'.levels, Head(wire).last)
      BY <2>5, <2>6, Zenon DEF e
    <2> QED BY <1>1, <1>6, <2>1, <2>2, <2>7
  <1>11. CASE Disconnect
    <2>1. /\ book' \in Books /\ book'.init = FALSE /\ socket' = "over" /\ rest' = [t \in Tasks |-> Idle]
      BY <1>1, <1>11 DEF Disconnect, MarkDisconnected, Reset, NoLevels, Books
    <2> QED BY <2>1 DEF Idle
  <1>12. ~(VenueAnswers \/ SnapshotTask \/ SnapshotFails)
    BY <1>1 DEF VenueAnswers, SnapshotTask, SnapshotApplied, SnapshotStale, SnapshotReplayed, SnapshotFails
  <1>13. ~(KrakenDelta \/ OkxDelta \/ BinanceBuffers \/ BinanceGap \/ BinanceDelta)
    BY DEF KrakenDelta, OkxDelta, BinanceBuffers, BinanceGap, BinanceDelta
  <1> QED
    BY <1>3, <1>4, <1>5, <1>9, <1>10, <1>11, <1>12, <1>13 DEF Next, Handler

-----------------------------------------------------------------------------

LEMMA BookInit == Init => Market /\ ByChecksum /\ BySequence /\ InStep
  <1> SUFFICES ASSUME Init PROVE Market /\ ByChecksum /\ BySequence /\ InStep
    OBVIOUS
  <1>1. Market
    BY MarketInit
  <1>2. book \in Books /\ book.init = FALSE /\ synced = FALSE /\ buffer = <<>> /\ lastId = 0 /\ sent = 1
    BY DEF Init, Books, NoLevels
  <1>3. ByChecksum
    BY <1>2 DEF ByChecksum
  <1>4. BySequence
    <2> SUFFICES ASSUME adapter = "binance" PROVE BySequence
      BY DEF BySequence
    <2>1. wire = <<>> /\ buffer = <<>> /\ book.init = FALSE
      BY <1>2 DEF Init
    <2>2. DOMAIN wire = {} /\ DOMAIN buffer = {}
      BY <2>1
    <2>3. (\A i \in DOMAIN wire : wire[i].first >= 2) /\ (\A i \in DOMAIN buffer : buffer[i].first >= 2)
      BY <2>2
    <2>4. lastId \in Nat /\ synced = FALSE /\ book \in Books
      BY <1>2
    <2> QED BY <2>1, <2>3, <2>4 DEF BySequence
  <1>5. InStep
    <2> SUFFICES ASSUME adapter = "generic"
                 PROVE  (\A t \in Tasks : rest[t].at = "idle") /\ GoesOnFrom(0)
      BY <1>2 DEF InStep
    <2>1. wire = <<Event(0, 1)>> /\ rest = [u \in Tasks |-> Idle]
      BY DEF Init
    <2>2. wire # <<>> /\ Len(wire) = 1 /\ DOMAIN wire = {1} /\ wire[1].first = 0 /\ wire[1].last = 1
      BY <2>1 DEF Event
    <2> QED BY <1>2, <2>1, <2>2 DEF GoesOnFrom, Idle
  <1> QED BY <1>1, <1>3, <1>4, <1>5

\* With a checksum the strategy reads a true book: whatever the stream loses, however late a
\* snapshot is, and whichever levels truncate cut, what it reads is a book the venue has had.
\* A book that took a message without a checksum since is not spoken of.
\* Code: _apply and resnapshot of okx.py and kraken.py, BookManager.apply_delta.
THEOREM ChecksumsGuardTheBook ==
    ReadsWhatIsChecked /\ Adapters \subseteq {"okx", "kraken"} => (Spec => []TradeableIsTrue)
  <1> SUFFICES ASSUME ReadsWhatIsChecked, Adapters \subseteq {"okx", "kraken"}
               PROVE  Spec => []TradeableIsTrue
    OBVIOUS
  <1> DEFINE IInv == Market /\ ByChecksum /\ adapter \in Adapters
  <1>1. Init => IInv
    BY BookInit DEF Init
  <1>2. IInv /\ [Next]_vars => IInv'
    BY MarketStep, ChecksumStep, AdapterStays
  <1>3. IInv => TradeableIsTrue
    BY DEF ByChecksum, TradeableIsTrue, Tradeable
  <1> QED BY <1>1, <1>2, <1>3, PTL DEF Spec

\* Binance's book is the venue's at the sequence it claims, but for levels that had fallen
\* below the depth it keeps: gaps, stale and overtaking snapshots, truncations and a full
\* buffer included.  Code: _snapshot and _apply_depth_event of binance.py.
THEOREM SequencesAreTrue == Spec => []SequenceIsTrue
  <1> DEFINE IInv == Market /\ BySequence
  <1>1. Init => IInv
    BY BookInit
  <1>2. IInv /\ [Next]_vars => IInv'
    BY MarketStep, SequenceStep
  <1>3. IInv => SequenceIsTrue
    BY DEF BySequence, SequenceIsTrue
  <1> QED BY <1>1, <1>2, <1>3, PTL DEF Spec

\* The task a handler starts is on its way.
LEMMA StartedIsOnTheWay ==
    ASSUME Requests, StartOne
    PROVE  OnTheWay'
  <1>1. PICK t \in Tasks : rest' = [rest EXCEPT ![t] = Asked]
    BY DEF StartOne, IdleTasks
  <1>2. rest'[t].at = "asked"
    BY <1>1 DEF Requests, Asked
  <1> QED BY <1>2 DEF OnTheWay

LEMMA WrittenIsWhole ==
    ASSUME NEW b, NEW levels, NEW sequence, NEW r \in Written(b, levels, sequence)
    PROVE  r.init \/ Crossed(r.levels)
  <1>1. PICK ls : r.levels = ls /\ r.init = ~Crossed(ls)
    BY DEF Written
  <1> QED BY <1>1

LEMMA AskedForStep ==
    ASSUME Market, BySequence, GivenUpIsAskedFor, [Next]_vars
    PROVE  GivenUpIsAskedFor'
  <1> SUFFICES ASSUME socket' = "up", ~Whole'
               PROVE  OnTheWay' \/ (wire' # <<>> /\ Head(wire').first = 0)
    BY DEF GivenUpIsAskedFor
  <1>0. Requests /\ wire \in Seq(Events)
    BY DEF Market, Stream
  <1>1. adapter' = adapter
    BY AdapterStays
  <1>2. CASE rest' = rest /\ Whole' = Whole /\ socket' = socket /\ wire' = wire
    BY <1>2 DEF GivenUpIsAskedFor, OnTheWay
  <1>3. CASE VenueUpdates \/ Tick \/ UNCHANGED vars
    <2>1. UNCHANGED <<book, feed>>
      BY <1>3 DEF VenueUpdates, Tick, QuarantineEnds, BookAges, view, vars, feed
    <2> QED BY <1>1, <1>2, <2>1 DEF feed, Whole
  <1>4. CASE VenueSends
    <2>1. /\ UNCHANGED <<book, rest, socket, synced>>
          /\ wire' = wire \/ wire' = Append(wire, Event(sent + 1, Now))
      BY <1>4 DEF VenueSends, view, sync
    <2>2. Whole' = Whole
      BY <1>1, <2>1 DEF Whole
    <2>3. wire # <<>> => wire' # <<>> /\ Head(wire') = Head(wire)
      BY <1>0, <2>1
    <2> QED BY <2>1, <2>2, <2>3 DEF GivenUpIsAskedFor, OnTheWay
  <1>5. CASE VenueAnswers \/ SnapshotStale \/ SnapshotFails
    <2>1. PICK t \in Tasks : rest'[t].at \in {"answered", "asked", "failed"}
      BY <1>0, <1>5 DEF VenueAnswers, SnapshotStale, SnapshotFails, Requests, TaskStates, Asked
    <2> QED BY <2>1 DEF OnTheWay
  <1>6. CASE SnapshotApplied
    <2>1. adapter # "binance" /\ book'.init
      BY <1>6 DEF SnapshotApplied, Accept, Snapshot
    <2> QED BY <1>1, <2>1 DEF Whole
  <1>7. CASE SnapshotReplayed
    <2>1. adapter = "binance" /\ synced' = TRUE
      BY <1>7 DEF SnapshotReplayed
    <2> QED BY <1>1, <2>1 DEF Whole
  <1>8. CASE StreamSnapshot
    <2>1. adapter # "binance"
      <3>1. wire # <<>> /\ Head(wire).first = 0
        BY <1>8 DEF StreamSnapshot, Receive
      <3>2. 1 \in DOMAIN wire /\ Head(wire) = wire[1]
        BY <1>0, <3>1
      <3> QED BY <3>1, <3>2 DEF BySequence
    <2>2. book'.init
      BY <1>8 DEF StreamSnapshot, Accept, Snapshot
    <2> QED BY <1>1, <2>1, <2>2 DEF Whole
  <1>9. CASE KrakenDelta \/ OkxDelta \/ GenericDelta
    <2>1. adapter # "binance"
      BY <1>9 DEF KrakenDelta, OkxDelta, GenericDelta
    <2>2. ASSUME NEW levels, NEW sequence, NEW summed, Checked(Head(wire), levels, sequence, summed)
          PROVE  StartOne \/ \E b \in Written(book, levels, sequence) : book' = b
      BY <2>2 DEF Checked, Accept
    <2>3. StartOne \/ \E levels, sequence : \E b \in Written(book, levels, sequence) : book' = b
      <3>1. CASE KrakenDelta
        <4>1. \E levels, summed : Checked(Head(wire), levels, 0, summed)
          BY <3>1, Zenon DEF KrakenDelta
        <4> QED BY <2>2, <4>1
      <3>2. CASE OkxDelta
        <4>1. StartOne \/ \E levels, summed : Checked(Head(wire), levels, Head(wire).last, summed)
          BY <3>2, Zenon DEF OkxDelta
        <4> QED BY <2>2, <4>1
      <3>3. CASE GenericDelta
        BY <3>3 DEF GenericDelta, Accept
      <3> QED BY <1>9, <3>1, <3>2, <3>3
    <2>4. CASE StartOne
      BY <1>0, <2>4, StartedIsOnTheWay
    <2>5. CASE \E levels, sequence : \E b \in Written(book, levels, sequence) : book' = b
      <3>1. book'.init \/ Crossed(book'.levels)
        BY <2>5, WrittenIsWhole
      <3> QED BY <1>1, <2>1, <3>1 DEF Whole
    <2> QED BY <2>3, <2>4, <2>5
  <1>10. CASE BinanceGap
    <2>1. StartOne
      BY <1>10 DEF BinanceGap
    <2> QED BY <1>0, <2>1, StartedIsOnTheWay
  <1>11. CASE BinanceBuffers
    <2>1. /\ adapter = "binance" /\ ~synced /\ wire # <<>> /\ rest' = rest /\ socket = "up"
      BY <1>11 DEF BinanceBuffers, Receive
    <2>2. 1 \in DOMAIN wire /\ Head(wire) = wire[1]
      BY <1>0, <2>1
    <2>3. Head(wire).first # 0
      BY <2>1, <2>2 DEF BySequence
    <2>4. OnTheWay
      BY <2>1, <2>3 DEF GivenUpIsAskedFor, Whole
    <2> QED BY <2>1, <2>4 DEF OnTheWay
  <1>12. CASE BinanceDelta
    <2>1. adapter = "binance" /\ synced' = TRUE
      BY <1>12 DEF BinanceDelta
    <2> QED BY <1>1, <2>1 DEF Whole
  <1>13. ~SocketEnds /\ ~Disconnect
    BY DEF SocketEnds, Disconnect
  <1> QED
    BY <1>3, <1>4, <1>5, <1>6, <1>7, <1>8, <1>9, <1>10, <1>11, <1>12, <1>13
    DEF Next, Handler, SnapshotTask

\* On every adapter, whatever is lost, late or cut off: a book that was given up is asked for.
\* Code: the create_task of every gap and failed checksum, and of those a replay leaves.
THEOREM GivenUpBooksAreAskedFor == Spec => []GivenUpIsAskedFor
  <1> DEFINE IInv == Market /\ BySequence /\ GivenUpIsAskedFor
  <1>1. Init => IInv
    <2> SUFFICES ASSUME Init PROVE GivenUpIsAskedFor
      BY BookInit
    <2>1. CASE adapter = "binance"
      <3>1. PICK t \in Tasks : rest = [u \in Tasks |-> IF adapter = "binance" /\ u = t THEN Asked ELSE Idle]
        BY DEF Init
      <3>2. rest[t].at = "asked"
        BY <2>1, <3>1 DEF Asked
      <3> QED BY <3>2 DEF GivenUpIsAskedFor, OnTheWay
    <2>2. CASE adapter # "binance"
      BY <2>2 DEF Init, GivenUpIsAskedFor, Event
    <2> QED BY <2>1, <2>2
  <1>2. IInv /\ [Next]_vars => IInv'
    BY MarketStep, SequenceStep, AskedForStep
  <1> QED BY <1>1, <1>2, PTL DEF Spec

\* On every adapter, the generic one only where its stream loses nothing.
\* Code: the _stream of the four adapters, BookManager.apply_delta and is_tradeable.
THEOREM TradeableBooksAreTrue ==
    ReadsWhatIsChecked /\ "generic" \notin Lossy => (Spec => []TradeableIsTrue)
  <1> SUFFICES ASSUME ReadsWhatIsChecked, "generic" \notin Lossy
               PROVE  Spec => []TradeableIsTrue
    OBVIOUS
  <1> DEFINE IInv == Market /\ ByChecksum /\ BySequence /\ InStep /\ adapter \in Adapters
  <1>1. Init => IInv
    BY BookInit DEF Init
  <1>2. IInv /\ [Next]_vars => IInv'
    BY MarketStep, ChecksumStep, SequenceStep, InStepStep, AdapterStays
  <1>3. IInv => TradeableIsTrue
    <2> SUFFICES ASSUME IInv, book.init, ~unproven
                 PROVE  \E k \in 1 .. Now :
                          IF adapter \in {"okx", "kraken"}
                          THEN Top(book.levels, WalkDepth) = Top(truth[k], WalkDepth)
                          ELSE Shows(book.levels, k)
      BY DEF TradeableIsTrue, Tradeable
    <2>1. adapter \in {"binance", "okx", "kraken", "generic"}
      BY FeedAssumption
    <2>2. CASE adapter \in {"okx", "kraken"}
      BY <2>2 DEF ByChecksum
    <2>3. CASE adapter = "binance"
      BY <2>3 DEF BySequence
    <2>4. CASE adapter = "generic"
      BY <2>4 DEF InStep
    <2> QED BY <2>1, <2>2, <2>3, <2>4
  <1> QED BY <1>1, <1>2, <1>3, PTL DEF Spec
=============================================================================
