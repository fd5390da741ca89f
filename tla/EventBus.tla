------------------------------ MODULE EventBus ------------------------------
(***************************************************************************)
(* The in-process publish/subscribe bus (core/eventbus.py): bounded        *)
(* mailboxes that evict their oldest event, a cache of which subscriptions *)
(* match a topic, and the listener task run_handler starts on each         *)
(* subscription.  An event is its index in the log of published topics.    *)
(***************************************************************************)
EXTENDS Naturals, FiniteSets, SequencesExt

CONSTANTS Handlers,     \* run_handler tasks, each started at most once
          Topics,       \* topics, as sequences of segments
          Patterns,     \* patterns handlers subscribe to, sequences of segments
          Maxsize,      \* capacity of a mailbox
          CacheLimit,   \* topics the match cache may hold (4096 in the code)
          MaxEvents     \* bound on the events published

ASSUME EventBusAssumption ==
  /\ Maxsize \in Nat \ {0} /\ CacheLimit \in Nat /\ MaxEvents \in Nat
  /\ Topics \cup Patterns \subseteq Seq(STRING) \ {<<>>}

VARIABLES busSubs,      \* registered subscriptions
          busBox,       \* handler -> its Subscription
          busTask,      \* handler -> where its task is
          busCache,     \* topic -> subscriptions that matched it (partial)
          busClosed,
          busLog,       \* topics published, in order (history; its counts are _published)
          busHandled,   \* handler -> events it was handed (history)
          busSince      \* handler -> events published before it subscribed (history)

busVars == <<busSubs, busBox, busTask, busCache, busClosed, busLog, busHandled, busSince>>

\* A star stands for one segment; in a pattern with a double star, the pattern is
\* given to fnmatch with single stars, which then run across segments as well.
Glob(p, t) ==
  LET g[i \in 0..Len(p), j \in 0..Len(t)] ==
        CASE i = 0            -> j = 0
          [] i > 0 /\ j = 0   -> FALSE
          [] p[i] \in {"*", "**"} /\ j > 0 -> g[i-1, j-1] \/ g[i, j-1]
          [] OTHER            -> p[i] = t[j] /\ g[i-1, j-1]
  IN  g[Len(p), Len(t)]

Matches(p, t) ==
  \/ p = <<"**">> \/ p = t
  \/ Contains(p, "**") /\ Glob(p, t)
  \/ /\ ~Contains(p, "**") /\ Len(p) = Len(t)
     /\ \A i \in DOMAIN p : p[i] = "*" \/ p[i] = t[i]

NoCache == [t \in {} |-> {}]

BusInit ==
  /\ busSubs = {}
  /\ busBox = [h \in Handlers |->
        [pattern |-> <<>>, queue |-> <<>>, closed |-> FALSE, delivered |-> 0, dropped |-> 0]]
  /\ busTask = [h \in Handlers |-> "off"]
  /\ busCache = NoCache
  /\ busClosed = FALSE
  /\ busLog = <<>>
  /\ busHandled = [h \in Handlers |-> <<>>]
  /\ busSince = [h \in Handlers |-> 0]

\* Mutant of Subscribe: the match cache is not cleared.
SubscribeKeepsCache(h, p) ==
  /\ busTask[h] = "off"
  /\ busTask' = [busTask EXCEPT ![h] = "waiting"]
  /\ busBox' = [busBox EXCEPT ![h].pattern = p]
  /\ busSubs' = busSubs \cup {h}
  /\ busSince' = [busSince EXCEPT ![h] = Len(busLog)]
  /\ UNCHANGED <<busCache, busClosed, busLog, busHandled>>

\* run_handler starts: a subscription of its own, then the wait on its mailbox.
Subscribe(h, p) ==
  /\ busTask[h] = "off"
  /\ busTask' = [busTask EXCEPT ![h] = "waiting"]
  /\ busBox' = [busBox EXCEPT ![h].pattern = p]
  /\ busSubs' = busSubs \cup {h}
  /\ busCache' = NoCache
  /\ busSince' = [busSince EXCEPT ![h] = Len(busLog)]
  /\ UNCHANGED <<busClosed, busLog, busHandled>>

Matching(t) ==
  IF t \in DOMAIN busCache THEN busCache[t]
  ELSE {h \in busSubs : Matches(busBox[h].pattern, t)}

Remember(t) ==
  IF t \in DOMAIN busCache \/ Cardinality(DOMAIN busCache) >= CacheLimit THEN busCache
  ELSE [u \in DOMAIN busCache \cup {t} |-> IF u = t THEN Matching(t) ELSE busCache[u]]

\* put_nowait; on a full mailbox the oldest event is evicted first.
Deliver(box, e) ==
  IF Len(box.queue) < Maxsize
  THEN [box EXCEPT !.queue = Append(@, e), !.delivered = @ + 1]
  ELSE [box EXCEPT !.queue = Append(Tail(@), e), !.delivered = @ + 1, !.dropped = @ + 1]

Publish(t) ==
  /\ ~busClosed
  /\ Len(busLog) < MaxEvents
  /\ busLog' = Append(busLog, t)
  /\ busCache' = Remember(t)
  /\ busBox' = [h \in Handlers |->
        IF h \in Matching(t) /\ ~busBox[h].closed
        THEN Deliver(busBox[h], Len(busLog) + 1) ELSE busBox[h]]
  /\ UNCHANGED <<busSubs, busTask, busClosed, busHandled, busSince>>

\* listen: queue.get() returns to the task, which hands the event to its handler.
\* The wait is not tied to the subscription's flag: a closed one still gets it.
Take(h) ==
  /\ busTask[h] = "waiting" /\ busBox[h].queue # <<>>
  /\ busTask' = [busTask EXCEPT ![h] = "handling"]
  /\ busHandled' = [busHandled EXCEPT ![h] = Append(@, Head(busBox[h].queue))]
  /\ busBox' = [busBox EXCEPT ![h].queue = Tail(@)]
  /\ UNCHANGED <<busSubs, busCache, busClosed, busLog, busSince>>

\* run_handler's finally clause: unsubscribe.
Leave(h) ==
  /\ busTask' = [busTask EXCEPT ![h] = "done"]
  /\ busBox' = [busBox EXCEPT ![h].closed = TRUE]
  /\ busSubs' = busSubs \ {h}
  /\ busCache' = NoCache
  /\ UNCHANGED <<busClosed, busLog, busHandled, busSince>>

Continue(h) ==
  IF busBox[h].closed THEN Leave(h)
  ELSE /\ busTask' = [busTask EXCEPT ![h] = "waiting"]
       /\ UNCHANGED <<busSubs, busBox, busCache, busClosed, busLog, busHandled, busSince>>

HandlerReturns(h) == busTask[h] = "handling" /\ Continue(h)

\* Mutant of HandlerRaises: the task ends there and then, still subscribed.
RaiseEndsTask(h) ==
  /\ busTask[h] = "handling"
  /\ busTask' = [busTask EXCEPT ![h] = "done"]
  /\ UNCHANGED <<busSubs, busBox, busCache, busClosed, busLog, busHandled, busSince>>

\* An exception of the handler is logged and the loop goes on.
HandlerRaises(h) == busTask[h] = "handling" /\ Continue(h)

CancelTask(h) == busTask[h] \in {"waiting", "handling"} /\ Leave(h)

CloseBus ==
  /\ ~busClosed
  /\ busClosed' = TRUE
  /\ busBox' = [h \in Handlers |->
        IF h \in busSubs THEN [busBox[h] EXCEPT !.closed = TRUE] ELSE busBox[h]]
  /\ busSubs' = {}
  /\ busCache' = NoCache
  /\ UNCHANGED <<busTask, busLog, busHandled, busSince>>

Listen(h) == Take(h) \/ HandlerReturns(h) \/ HandlerRaises(h)

BusNext ==
  \/ \E h \in Handlers : \/ \E p \in Patterns : Subscribe(h, p)
                         \/ Listen(h) \/ CancelTask(h)
  \/ \E t \in Topics : Publish(t)
  \/ CloseBus

\* The event loop runs every ready task.
BusFairness == \A h \in Handlers : WF_busVars(Listen(h))

-----------------------------------------------------------------------------

\* The events the handler's pattern matches among those published since it subscribed.
Addressed(h) ==
  {i \in DOMAIN busLog : i > busSince[h] /\ Matches(busBox[h].pattern, busLog[i])}

\* An open subscription misses only what the eviction counts: its mailbox holds the
\* newest matching events in order, the handler was handed earlier ones in order, and
\* handed, waiting and dropped together are all the events that matched.
\* Code: publish's evict-oldest, the match cache and its invalidation.
NewestSurvive ==
  \A h \in busSubs :
    LET box == busBox[h]  held == busHandled[h] \o box.queue
    IN  /\ Range(held) \subseteq Addressed(h)
        /\ \A e \in Addressed(h), w \in Range(box.queue) : e > w => e \in Range(box.queue)
        /\ Len(held) + box.dropped = Cardinality(Addressed(h))
        /\ \A i, j \in DOMAIN held : i < j => held[i] < held[j]

\* Every mailbox of an open subscription is emptied again and again, whatever its
\* handler raises.  Code: run_handler's except clause.
MailboxesDrain == \A h \in Handlers : []<>(busBox[h].queue = <<>> \/ busBox[h].closed)

\* A closed bus ends its listeners.  Code: close() and listen()'s loop condition; a
\* listener that waits on an empty mailbox is never woken.
CloseEndsListeners == \A h \in Handlers : busClosed ~> (busTask[h] \in {"off", "done"})
=============================================================================
