------------------------ MODULE VenueOrders_proofs ------------------------
(***************************************************************************)
(* Proofs about VenueOrders, for every size of an order and every number   *)
(* of repetitions, whatever answers and requests are lost or garbled.      *)
(***************************************************************************)
EXTENDS VenueOrders, TLAPS

VenueOrdersSpec == VenueOrdersInit /\ [][VenueOrdersNext]_voVars

-----------------------------------------------------------------------------
(* The inductive invariant, by subject. *)

Statuses == {"none", "pending", "open", "partial", "filled", "ended"}
Copies == [status : Statuses, filled : 0 .. Lots, known : BOOLEAN]
Orders == [state : {"absent", "live", "over"}, filled : 0 .. Lots]

TypesOK ==
  /\ voVenue \in Venues /\ voKind \in Kinds
  /\ voOrder \in Orders /\ voTransit \in BOOLEAN
  /\ voAt \in {"none", "add", "look", "cut"} /\ voFor \in {"submit", "fetch", "cancel"}
  /\ voLeft \in 0 .. Retries
  /\ voHand \in Copies /\ voHeld \in Copies /\ voTracked \in Copies
  /\ voCall \in {"none", "returned", "rejected", "lost", "timed out"}
  /\ voAssumed \in BOOLEAN

\* What rests still has something to trade, and only these orders rest.
Resting == voOrder.state = "live" => voOrder.filled < Lots /\ Rests

\* An entry is still on its way only if none has arrived and its call is over.
Entry ==
  /\ voTransit => voOrder.state = "absent" /\ voAt # "add" /\ voCall # "none"
                 /\ (voCall = "rejected" => voVenue = "kraken")
  /\ voCall = "none" /\ voAt = "none" => voOrder.state = "absent"
  /\ voAt = "add" => /\ voCall = "none"
                     /\ voVenue # "kraken" => voOrder.state = "absent" /\ voLeft = 0

\* Nothing is asked about an order that is known to be finished.
Asking ==
  /\ voCall = "none" => voHeld.status \notin Terminal
  /\ voAt # "none" => /\ voHand.status \notin Terminal /\ voHeld.status \notin Terminal
                      /\ voCall \in {"none", "returned", "timed out"}
  /\ voAt = "none" => voHand = voHeld
  /\ voTracked.status \notin Terminal
  /\ voAt = "look" => voVenue \notin {"oanda", "generic"}
  /\ voAt = "cut" => voVenue # "generic" /\ voKind = "maker"

\* A maker's submit is never given up: once it has returned, the order has been entered.
Makers ==
  voKind = "maker" =>
    /\ voCall # "timed out"
    /\ voCall = "returned" \/ voAt \in {"look", "cut"} =>
         voOrder.state # "absent" /\ (voVenue \in {"alpaca", "kraken"} => voHand.known)

\* Who reports an end knows of it: a taker's reports come from the venue, so do OKX's
\* cancels, and the others' that are sent unless they assume something.
Knows == voKind = "taker" \/ voVenue = "okx" \/ (voVenue # "generic" /\ ~voAssumed)

\* What a reported end means for the order.
Ends ==
  voHeld.status \in Terminal =>
    /\ Knows => Over
    /\ voKind = "taker" \/ voVenue = "okx" => voOrder.filled = voHeld.filled

Refused ==
  voCall = "rejected" =>
    /\ voAt = "none"
    /\ voVenue \notin {"kraken", "oanda"} /\ (voAssumed => voVenue = "okx") =>
         voOrder.state = "absent"

VOInv == TypesOK /\ Resting /\ Entry /\ Asking /\ Makers /\ Ends /\ Refused

-----------------------------------------------------------------------------
(* What the venue does and says. *)

\* An order that is entered has arrived, rests only if it is not filled, and a
\* post-only order rests.
LEMMA EnteredOrder ==
  ASSUME TypesOK, Enters
  PROVE  /\ voOrder' \in Orders /\ voOrder'.state # "absent"
         /\ voOrder'.state = "live" => voOrder'.filled < Lots /\ Rests
         /\ voOrder'.filled = Lots => voOrder'.state = "over"
  <1>1. PICK f \in 0 .. Lots : voOrder' = Entered(f)
    BY VenueOrdersAssumption DEF Enters
  <1> QED BY <1>1, VenueOrdersAssumption DEF Entered, Orders

\* A reply tells what filled, and calls finished only an order that is.
LEMMA ReportsAreTrue ==
  ASSUME NEW o \in Orders, o.state # "absent", o.state = "live" => o.filled < Lots,
         NEW r \in BinanceReports(o) \cup OkxReports(o) \cup AlpacaReports(o) \cup KrakenReports(o)
  PROVE  /\ r \in Copies /\ r.known /\ r.filled = o.filled
         /\ r.status \in Terminal => o.state = "over"
         /\ r.status \notin {"none", "pending"}
  <1>1. PICK s \in {StatusOf(o), "partial"} :
          r = Copy(s, o.filled, TRUE)
    BY DEF BinanceReports, OkxReports, AlpacaReports, KrakenReports
  <1>2. s \in {"open", "partial", "filled", "ended"}
    BY <1>1 DEF StatusOf
  <1>3. s \in Terminal => o.state = "over"
    BY <1>1, VenueOrdersAssumption DEF StatusOf, Terminal, Orders
  <1>4. /\ r.status = s /\ r.filled = o.filled /\ r.known = TRUE
        /\ r \in Copies
    BY <1>1, <1>2 DEF Copy, Copies, Statuses, Orders
  <1> QED BY <1>2, <1>3, <1>4

LEMMA AskedReports ==
  ASSUME voVenue \in {"binance", "okx", "kraken", "alpaca"}, NEW o
  PROVE  Reports(o) \subseteq
           BinanceReports(o) \cup OkxReports(o) \cup AlpacaReports(o) \cup KrakenReports(o)
  BY DEF Reports

LEMMA LastKnownCopy ==
  ASSUME VOInv, NEW copy \in Copies, copy.status \notin Terminal
  PROVE  LastKnown(copy) \in Copies /\ LastKnown(copy).status \notin Terminal
  BY DEF VOInv, TypesOK, Asking, LastKnown

-----------------------------------------------------------------------------
(* How a call ends. *)

\* A call that raises tells the caller nothing new about the order.
LEMMA Raised ==
  ASSUME VOInv, NEW how \in {"rejected", "lost", "timed out"}, Raise(how), voAt # "none",
         voVenue' = voVenue, voKind' = voKind, voOrder' \in Orders, voTransit' \in BOOLEAN, voAssumed' \in BOOLEAN,
         voOrder'.state = "live" => voOrder'.filled < Lots /\ Rests,
         voTransit' => voOrder'.state = "absent" /\ (how = "rejected" => voVenue = "kraken"),
         how = "timed out" => voKind = "taker",
         how = "rejected" =>
           \/ voVenue \in {"kraken", "oanda"} \/ voOrder'.state = "absent"
           \/ voAssumed' /\ voVenue # "okx"
  PROVE  VOInv'
  <1>1. TypesOK'
    BY DEF VOInv, TypesOK, Raise
  <1>2. Resting' /\ Entry' /\ Asking'
    BY DEF VOInv, TypesOK, Resting, Rests, Entry, Asking, Raise
  <1>3. Makers' /\ Ends' /\ Refused'
    BY DEF VOInv, Asking, Makers, Ends, Knows, Refused, Raise
  <1> QED BY <1>1, <1>2, <1>3 DEF VOInv

\* A call that returns hands out a copy that is right about an end.
LEMMA Returned ==
  ASSUME VOInv, NEW copy \in Copies, Return(copy),
         voVenue' = voVenue, voKind' = voKind, voOrder' \in Orders, voTransit' = voTransit,
         voAssumed' \in BOOLEAN, voOrder'.state = "live" => voOrder'.filled < Lots /\ Rests,
         voTransit => voOrder'.state = "absent",
         voTracked' \in Copies, voTracked'.status \notin Terminal,
         voKind = "maker" => voOrder'.state # "absent" /\ (voVenue \in {"alpaca", "kraken"} => copy.known),
         copy.status \in Terminal =>
           /\ Knows' => voOrder'.state = "over"
           /\ voKind = "taker" \/ voVenue = "okx" => voOrder'.filled = copy.filled
  PROVE  VOInv'
  <1>1. TypesOK'
    BY DEF VOInv, TypesOK, Return
  <1>2. Resting' /\ Entry' /\ Asking'
    BY DEF VOInv, TypesOK, Resting, Rests, Entry, Asking, Return
  <1>3. Makers' /\ Refused'
    BY DEF Makers, Refused, Return
  <1>4. Ends'
    BY DEF Ends, Knows, Over, Return
  <1> QED BY <1>1, <1>2, <1>3, <1>4 DEF VOInv

\* A copy that is handed out is tracked unless it is finished.
LEMMA Tracked ==
  ASSUME NEW copy \in Copies, Track(copy)
  PROVE  voTracked' \in Copies /\ voTracked'.status \notin Terminal
  BY VenueOrdersAssumption DEF Track, Copies, Statuses, NoCopy, Copy, Terminal

\* A call or a request of it begins with all its repetitions before it.
LEMMA Begins ==
  ASSUME NEW request \in {"add", "look", "cut"}, NEW call \in {"submit", "fetch", "cancel"},
         Begin(request, call)
  PROVE  voAt' = request /\ voFor' = call /\ voLeft' \in 0 .. Retries
  <1>1. Retries \in Nat
    BY VenueOrdersAssumption
  <1> QED BY <1>1 DEF Begin

\* A request that is lost is repeated, or its call ends.
LEMMA Lost ==
  ASSUME VOInv, Repeated, voAt # "none",
         voVenue' = voVenue, voKind' = voKind, voOrder' \in Orders, voTransit' \in BOOLEAN,
         voAssumed' = voAssumed, voOrder'.state = "live" => voOrder'.filled < Lots /\ Rests,
         voTransit' => voOrder'.state = "absent" /\ (voTransit \/ voLeft = 0),
         voOrder'.state # "absent" \/ voOrder'.state = voOrder.state,
         voAt = "add" => ~voTransit
  PROVE  VOInv'
  <1>0. voLeft \in Nat /\ voLeft <= Retries /\ Retries \in Nat
    <2>1. voLeft \in 0 .. Retries
      BY DEF VOInv, TypesOK
    <2>2. Retries \in Nat
      BY VenueOrdersAssumption
    <2> QED BY <2>1, <2>2
  <1>1. CASE ~(voLeft > 0)
    <2>1. Raise("lost")
      BY <1>1 DEF Repeated
    <2>2. voAssumed' \in BOOLEAN
      BY DEF VOInv, TypesOK
    <2> QED BY <2>1, <2>2, Raised
  <1>2. CASE voLeft > 0
    <2>1. /\ voLeft' = voLeft - 1
          /\ UNCHANGED <<voAt, voFor, voHand, voHeld, voTracked, voCall>>
      BY <1>2 DEF Repeated, Raise
    <2>a. voLeft' \in 0 .. Retries
      BY <1>0, <1>2, <2>1
    <2>2. TypesOK'
      BY <2>a, <2>1 DEF VOInv, TypesOK
    <2>3. Resting' /\ Asking' /\ Refused'
      BY <2>1 DEF VOInv, TypesOK, Resting, Rests, Asking, Refused
    <2>4. Entry'
      BY <1>0, <1>2, <2>1 DEF VOInv, Entry
    <2>5. Makers' /\ Ends'
      BY <2>1 DEF VOInv, Makers, Asking, Ends, Knows
    <2> QED BY <2>2, <2>3, <2>4, <2>5 DEF VOInv
  <1> QED BY <1>1, <1>2

-----------------------------------------------------------------------------
(* The steps. *)

\* The venue's own steps only touch an order that rests.
LEMMA TradeKeeps == VOInv /\ Trade => VOInv'
  <1> SUFFICES ASSUME VOInv, Trade PROVE VOInv'
    OBVIOUS
  <1>0. voOrder.filled \in 0 .. Lots /\ voOrder.filled < Lots /\ Lots \in Nat
    BY VenueOrdersAssumption DEF VOInv, TypesOK, Resting, Orders, Trade
  <1>1. /\ voOrder'.filled = voOrder.filled + 1
        /\ voOrder'.state = IF voOrder'.filled = Lots THEN "over" ELSE "live"
        /\ voOrder' \in Orders /\ voOrder'.filled <= Lots
    BY <1>0 DEF Orders, Trade
  <1>2. TypesOK'
    BY <1>1 DEF VOInv, TypesOK, Trade
  <1>3. Resting'
    BY <1>1, VenueOrdersAssumption DEF VOInv, Resting, Rests, Trade, Orders
  <1>4. Entry' /\ Asking' /\ Makers' /\ Refused'
    BY <1>1 DEF VOInv, Entry, Asking, Makers, Refused, Trade
  <1>5. Ends'
    BY <1>1 DEF VOInv, TypesOK, Ends, Knows, Over, Trade
  <1> QED BY <1>2, <1>3, <1>4, <1>5 DEF VOInv

LEMMA LapseKeeps == VOInv /\ Lapse => VOInv'
  <1> SUFFICES ASSUME VOInv, Lapse PROVE VOInv'
    OBVIOUS
  <1>1. voOrder' \in Orders /\ voOrder'.state = "over" /\ voOrder'.filled = voOrder.filled
    BY DEF VOInv, TypesOK, Orders, Lapse
  <1>2. TypesOK' /\ Resting'
    BY <1>1 DEF VOInv, TypesOK, Resting, Lapse
  <1>3. Entry' /\ Asking' /\ Makers' /\ Refused'
    BY <1>1 DEF VOInv, Entry, Asking, Makers, Refused, Lapse
  <1>4. Ends'
    BY <1>1 DEF VOInv, Ends, Knows, Over, Lapse
  <1> QED BY <1>2, <1>3, <1>4 DEF VOInv

\* What was given up on arrives after all: nobody has been told of an end.
LEMMA LateEntryKeeps == VOInv /\ LateEntry => VOInv'
  <1> SUFFICES ASSUME VOInv, LateEntry PROVE VOInv'
    OBVIOUS
  <1>1. /\ voOrder' \in Orders /\ voOrder'.state # "absent"
        /\ voOrder'.state = "live" => voOrder'.filled < Lots /\ Rests
    BY EnteredOrder DEF VOInv, LateEntry
  <1>2. TypesOK' /\ Resting'
    BY <1>1 DEF VOInv, TypesOK, Resting, Rests, LateEntry
  <1>3. Entry' /\ Asking' /\ Makers' /\ Refused'
    BY <1>1 DEF VOInv, Entry, Asking, Makers, Refused, LateEntry
  <1>4. Ends'
    BY <1>1 DEF VOInv, TypesOK, Ends, Knows, Over, LateEntry
  <1> QED BY <1>2, <1>3, <1>4 DEF VOInv

\* A call begins with what the caller holds.
LEMMA SubmitOrderKeeps == VOInv /\ SubmitOrder => VOInv'
  <1> SUFFICES ASSUME VOInv, SubmitOrder PROVE VOInv'
    OBVIOUS
  <1>1. TypesOK' /\ Resting'
    BY VenueOrdersAssumption
    DEF VOInv, TypesOK, Resting, Rests, SubmitOrder, Begin, RepeatsEntry
  <1>2. Entry' /\ Asking'
    BY DEF VOInv, Entry, Asking, SubmitOrder, Begin, RepeatsEntry
  <1>3. Makers' /\ Ends' /\ Refused'
    BY DEF VOInv, Makers, Ends, Knows, Over, Refused, SubmitOrder, Begin
  <1> QED BY <1>1, <1>2, <1>3 DEF VOInv

-----------------------------------------------------------------------------
(* The entry. *)

LEMMA AcknowledgedKeeps ==
  ASSUME VOInv, voAt = "add", voOrder.state = "absent", Enters, Acknowledged,
         UNCHANGED <<voVenue, voKind, voTransit, voAssumed>>
  PROVE  VOInv'
  <1>1. /\ voOrder' \in Orders /\ voOrder'.state # "absent"
        /\ voOrder'.state = "live" => voOrder'.filled < Lots /\ Rests
        /\ voOrder'.filled = Lots => voOrder'.state = "over"
    BY EnteredOrder DEF VOInv
  <1>2. voTransit = FALSE /\ voTransit' = FALSE /\ voCall = "none" /\ voAssumed' \in BOOLEAN
    BY DEF VOInv, TypesOK, Entry
  <1>3. ASSUME NEW r \in BinanceReports(voOrder') \cup AlpacaReports(voOrder'),
               Return(r), Track(r)
        PROVE  VOInv'
    <2>1. /\ r \in Copies /\ r.known /\ r.filled = voOrder'.filled
          /\ r.status \in Terminal => voOrder'.state = "over"
      BY <1>1, <1>3, ReportsAreTrue
    <2>2. voTracked' \in Copies /\ voTracked'.status \notin Terminal
      BY <1>3, <2>1, Tracked
    <2> QED BY <1>1, <1>2, <1>3, <2>1, <2>2, Returned
  <1>4. CASE voVenue \in {"binance", "alpaca"}
    BY <1>3, <1>4 DEF Acknowledged, BinanceSubmitted, AlpacaSubmitted
  <1>5. CASE voVenue \in {"okx", "kraken"}
    <2>1. /\ voHand' = Copy("open", 0, TRUE) /\ Begin("look", "submit")
          /\ UNCHANGED <<voHeld, voTracked, voCall>>
      BY <1>5 DEF Acknowledged, OkxSubmitted, KrakenSubmitted
    <2>2. voHand' \in Copies /\ voHand'.status \notin Terminal /\ voHand'.known
      BY <2>1, VenueOrdersAssumption DEF Copy, Copies, Statuses, Terminal
    <2>3. TypesOK'
      BY <1>1, <2>1, <2>2, Begins DEF VOInv, TypesOK
    <2>4. Resting' /\ Entry' /\ Asking'
      BY <1>1, <1>2, <1>5, <2>1, <2>2 DEF VOInv, Resting, Rests, Entry, Asking, Begin
    <2>5. Makers' /\ Ends' /\ Refused'
      BY <1>1, <1>2, <1>5, <2>1, <2>2 DEF VOInv, Asking, Makers, Ends, Knows, Refused, Begin
    <2> QED BY <2>3, <2>4, <2>5 DEF VOInv
  <1>6. CASE voVenue = "generic"
    <2> DEFINE r == LastKnown(Copy("open", 0, TRUE))
    <2>1. Return(r) /\ Track(r)
      BY <1>6 DEF Acknowledged, GenericSubmitted
    <2>2. Copy("open", 0, TRUE) \in Copies /\ Copy("open", 0, TRUE).status \notin Terminal
      BY VenueOrdersAssumption DEF Copy, Copies, Statuses, Terminal
    <2>3. r \in Copies /\ r.status \notin Terminal
      BY <2>2, LastKnownCopy
    <2>4. voTracked' \in Copies /\ voTracked'.status \notin Terminal
      BY <2>1, <2>3, Tracked
    <2> HIDE DEF r
    <2> QED BY <1>1, <1>2, <1>6, <2>1, <2>3, <2>4, Returned
  <1>7. CASE voVenue = "oanda"
    <2>1. CASE voOrder'.filled = 0
      <3>1. Raise("rejected")
        BY <1>7, <2>1 DEF Acknowledged, OandaSubmitted
      <3> QED BY <1>1, <1>2, <1>7, <3>1, Raised
    <2>2. CASE voOrder'.filled # 0
      <3> DEFINE r == Copy(IF voOrder'.filled = Lots THEN "filled" ELSE "partial",
                           voOrder'.filled, TRUE)
      <3>1. Return(r) /\ Track(r)
        BY <1>7, <2>2 DEF Acknowledged, OandaSubmitted
      <3>2. /\ r \in Copies /\ r.known = TRUE /\ r.filled = voOrder'.filled
            /\ r.status \in Terminal => voOrder'.filled = Lots
        BY <1>1 DEF Copy, Copies, Statuses, Terminal, Orders
      <3>3. voTracked' \in Copies /\ voTracked'.status \notin Terminal
        BY <3>1, <3>2, Tracked
      <3> HIDE DEF r
      <3> QED BY <1>1, <1>2, <3>1, <3>2, <3>3, Returned
    <2> QED BY <2>1, <2>2
  <1> QED BY <1>4, <1>5, <1>6, <1>7, VenueOrdersAssumption DEF VOInv, TypesOK

LEMMA AddKeeps == VOInv /\ Add => VOInv'
  <1> SUFFICES ASSUME VOInv, Add PROVE VOInv'
    OBVIOUS
  <1>1. voAt = "add" /\ voVenue' = voVenue /\ voKind' = voKind
    BY DEF Add
  <1>2. ~voTransit /\ voOrder \in Orders /\ voTransit \in BOOLEAN /\ voAssumed \in BOOLEAN
    BY <1>1 DEF VOInv, TypesOK, Entry
  <1>3. ASSUME voOrder' \in Orders, voOrder'.state = "live" => voOrder'.filled < Lots /\ Rests,
               voTransit' = voTransit, AddGarbled
        PROVE  VOInv'
    <2>1. CASE voVenue \in {"binance", "alpaca", "generic"}
      <3>1. Raise("rejected") /\ voAssumed' = TRUE
        BY <1>3, <2>1 DEF AddGarbled
      <3> QED BY <1>1, <1>2, <1>3, <2>1, <3>1, Raised
    <2>2. CASE voVenue \notin {"binance", "alpaca", "generic"}
      <3>1. Raise("lost") /\ voAssumed' \in BOOLEAN
        BY <1>2, <1>3, <2>2 DEF AddGarbled
      <3> QED BY <1>1, <1>2, <1>3, <3>1, Raised
    <2> QED BY <2>1, <2>2
  <1>4. CASE /\ voOrder.state = "absent" /\ Enters /\ UNCHANGED voTransit
             /\ \/ Acknowledged /\ UNCHANGED voAssumed
                \/ Repeated /\ UNCHANGED voAssumed
                \/ AddGarbled
    <2>1. /\ voOrder' \in Orders /\ voOrder'.state # "absent"
          /\ voOrder'.state = "live" => voOrder'.filled < Lots /\ Rests
      BY <1>4, EnteredOrder DEF VOInv
    <2>2. CASE Acknowledged /\ UNCHANGED voAssumed
      BY <1>1, <1>4, <2>2, AcknowledgedKeeps
    <2>3. CASE Repeated /\ UNCHANGED voAssumed
      BY <1>1, <1>2, <1>4, <2>1, <2>3, Lost
    <2>4. CASE AddGarbled
      BY <1>3, <1>4, <2>1, <2>4
    <2> QED BY <1>4, <2>2, <2>3, <2>4
  <1>5. voOrder.state = "live" => voOrder.filled < Lots /\ Rests
    BY DEF VOInv, Resting
  <1>6. CASE UNCHANGED <<voOrder, voTransit, voAssumed>> /\ Raise("rejected")
    <2>1. voVenue \in {"kraken", "oanda"} \/ voOrder.state = "absent"
      BY <1>1 DEF VOInv, Entry
    <2> QED BY <1>1, <1>2, <1>5, <1>6, <2>1, Raised
  <1>7. CASE UNCHANGED <<voOrder, voTransit>> /\ AddGarbled
    BY <1>2, <1>3, <1>5, <1>7
  <1>8. CASE /\ voTransit' \in {voTransit, voLeft = 0 /\ voOrder.state = "absent"}
             /\ Repeated /\ UNCHANGED <<voOrder, voAssumed>>
    <2>1. voTransit' \in BOOLEAN /\ (voTransit' => voOrder.state = "absent" /\ voLeft = 0)
      BY <1>2, <1>8
    <2> QED BY <1>1, <1>2, <1>5, <1>8, <2>1, Lost
  <1> QED BY <1>4, <1>6, <1>7, <1>8 DEF Add

\* A taker's submit that is given up leaves its caller knowing no more than before.
LEMMA TimesOutKeeps == VOInv /\ TimesOut => VOInv'
  <1> SUFFICES ASSUME VOInv, TimesOut PROVE VOInv'
    OBVIOUS
  <1>1. /\ voAt # "none" /\ voKind = "taker" /\ Raise("timed out")
        /\ UNCHANGED <<voVenue, voKind, voOrder, voAssumed>> /\ voAssumed \in BOOLEAN
        /\ voTransit' \in BOOLEAN /\ (voTransit' => voOrder.state = "absent")
    BY DEF TimesOut, VOInv, TypesOK
  <1>2. voOrder \in Orders /\ (voOrder.state = "live" => voOrder.filled < Lots /\ Rests)
    BY DEF VOInv, TypesOK, Resting
  <1> QED BY <1>1, <1>2, Raised

-----------------------------------------------------------------------------
(* Asking and cancelling. *)

LEMMA FetchOrderKeeps == VOInv /\ FetchOrder => VOInv'
  <1> SUFFICES ASSUME VOInv, FetchOrder PROVE VOInv'
    OBVIOUS
  <1>1. /\ voAt = "none" /\ voCall \in {"returned", "timed out"}
        /\ voHeld.status \notin Terminal /\ voHand = voHeld /\ voHand \in Copies
        /\ UNCHANGED <<voVenue, voKind, voOrder, voTransit, voAssumed>> /\ voAssumed \in BOOLEAN
    BY DEF FetchOrder, VOInv, TypesOK, Asking
  <1>2. /\ voOrder \in Orders /\ (voOrder.state = "live" => voOrder.filled < Lots /\ Rests)
        /\ voTransit => voOrder.state = "absent"
        /\ voTracked \in Copies /\ voTracked.status \notin Terminal
    BY DEF VOInv, TypesOK, Resting, Entry, Asking
  <1>3. CASE AsksNobody
    <2> DEFINE r == IF voVenue = "kraken" THEN voHand ELSE LastKnown(voHand)
    <2>1. Return(r) /\ UNCHANGED voTracked
      BY <1>3 DEF FetchOrder
    <2>2. r \in Copies /\ r.status \notin Terminal
      BY <1>1, LastKnownCopy
    <2>3. voKind = "maker" => voOrder.state # "absent" /\ voVenue \notin {"alpaca", "kraken"}
      BY <1>1, <1>3 DEF VOInv, Makers, AsksNobody
    <2> HIDE DEF r
    <2> QED BY <1>1, <1>2, <2>1, <2>2, <2>3, Returned
  <1>4. CASE ~AsksNobody
    <2>1. Begin("look", "fetch") /\ UNCHANGED <<voHand, voHeld, voTracked, voCall>>
      BY <1>4 DEF FetchOrder
    <2>2. TypesOK'
      BY <1>1, <2>1, Begins DEF VOInv, TypesOK
    <2>3. Resting' /\ Entry' /\ Asking'
      BY <1>1, <1>4, <2>1, Begins DEF VOInv, Resting, Rests, Entry, Asking, AsksNobody
    <2>4. Makers' /\ Ends' /\ Refused'
      BY <1>1, <2>1, Begins DEF VOInv, Makers, Ends, Knows, Refused
    <2> QED BY <2>2, <2>3, <2>4 DEF VOInv
  <1> QED BY <1>3, <1>4

\* Whatever a lookup ends with, a copy that calls the order finished came from the venue.
LEMMA LookKeeps == VOInv /\ Look => VOInv'
  <1> SUFFICES ASSUME VOInv, Look PROVE VOInv'
    OBVIOUS
  <1>1. /\ voAt = "look" /\ UNCHANGED <<voVenue, voKind, voOrder, voTransit, voAssumed>>
        /\ voAssumed \in BOOLEAN
        /\ voVenue \in {"binance", "okx", "kraken", "alpaca"}
        /\ voHand \in Copies /\ voHand.status \notin Terminal
    BY VenueOrdersAssumption DEF Look, VOInv, TypesOK, Asking
  <1>2. /\ voOrder \in Orders /\ (voOrder.state = "live" => voOrder.filled < Lots /\ Rests)
        /\ voTransit \in BOOLEAN /\ (voTransit => voOrder.state = "absent")
        /\ voTracked \in Copies /\ voTracked.status \notin Terminal
        /\ voOrder.state = "absent" => voKind # "maker"
    BY <1>1 DEF VOInv, TypesOK, Resting, Entry, Asking, Makers
  <1>3. CASE Repeated
    BY <1>1, <1>2, <1>3, Lost DEF VOInv, Entry
  <1>4. ASSUME NEW r \in Copies, Answered(r)
        PROVE  Return(r) /\ voTracked' \in Copies /\ voTracked'.status \notin Terminal
    <2>1. CASE voFor = "submit"
      BY <1>4, <2>1, Tracked DEF Answered
    <2>2. CASE voFor # "submit"
      BY <1>2, <1>4, <2>2 DEF Answered
    <2> QED BY <2>1, <2>2
  <1>5. CASE voOrder.state # "absent" /\ \E r \in Reports(voOrder) : Answered(r)
    <2>1. PICK r \in Reports(voOrder) : Answered(r)
      BY <1>5
    <2>2. /\ r \in Copies /\ r.known /\ r.filled = voOrder.filled
          /\ r.status \in Terminal => voOrder.state = "over"
      BY <1>1, <1>2, <1>5, <2>1, AskedReports, ReportsAreTrue
    <2>3. Return(r) /\ voTracked' \in Copies /\ voTracked'.status \notin Terminal
      BY <1>4, <2>1, <2>2
    <2> QED BY <1>1, <1>2, <1>5, <2>2, <2>3, Returned
  <1>6. CASE voOrder.state = "absent" /\ NotFound
    <2>1. CASE voVenue = "binance"
      <3>1. Raise("lost")
        BY <1>6, <2>1 DEF NotFound
      <3> QED BY <1>1, <1>2, <3>1, Raised
    <2>2. CASE voVenue # "binance"
      <3>1. Answered(voHand)
        BY <1>6, <2>2 DEF NotFound
      <3>2. Return(voHand) /\ voTracked' \in Copies /\ voTracked'.status \notin Terminal
        BY <1>1, <1>4, <3>1
      <3> QED BY <1>1, <1>2, <1>6, <3>2, Returned
    <2> QED BY <2>1, <2>2
  <1>7. CASE LookGarbled
    <2>1. CASE voVenue = "alpaca"
      <3>1. Answered(voHand)
        BY <1>7, <2>1 DEF LookGarbled
      <3>2. Return(voHand) /\ voTracked' \in Copies /\ voTracked'.status \notin Terminal
        BY <1>1, <1>4, <3>1
      <3>3. voKind = "maker" => voHand.known
        BY <1>1, <2>1 DEF VOInv, Makers
      <3> QED BY <1>1, <1>2, <3>2, <3>3, Returned
    <2>2. CASE voVenue = "kraken"
      <3>1. PICK how \in {"lost", "rejected"} : Raise(how)
        BY <1>7, <2>2 DEF LookGarbled
      <3> QED BY <1>1, <1>2, <2>2, <3>1, Raised
    <2>3. CASE voVenue \notin {"alpaca", "kraken"}
      <3>1. Raise("lost")
        BY <1>7, <2>3 DEF LookGarbled
      <3> QED BY <1>1, <1>2, <3>1, Raised
    <2> QED BY <2>1, <2>2, <2>3
  <1> QED BY <1>3, <1>5, <1>6, <1>7 DEF Look

\* A maker's cancel is called only for an order that has been entered.
LEMMA CancelledCopy ==
  ASSUME voHand \in Copies
  PROVE  /\ Cancelled \in Copies /\ Cancelled.known = voHand.known
         /\ Cancelled.filled = voHand.filled
  BY DEF Cancelled, Copies, Statuses

LEMMA CancelOrderKeeps == VOInv /\ CancelOrder => VOInv'
  <1> SUFFICES ASSUME VOInv, CancelOrder PROVE VOInv'
    OBVIOUS
  <1>1. /\ voAt = "none" /\ voCall = "returned" /\ voKind = "maker"
        /\ voHeld.status \notin Terminal /\ voHand = voHeld /\ voHand \in Copies
        /\ UNCHANGED <<voVenue, voKind, voOrder, voTransit, voAssumed>> /\ voAssumed \in BOOLEAN
    BY DEF CancelOrder, VOInv, TypesOK, Asking
  <1>2. /\ voOrder \in Orders /\ (voOrder.state = "live" => voOrder.filled < Lots /\ Rests)
        /\ voTransit => voOrder.state = "absent"
        /\ voTracked \in Copies /\ voTracked.status \notin Terminal
        /\ voOrder.state # "absent" /\ (voVenue \in {"alpaca", "kraken"} => voHand.known)
    BY <1>1 DEF VOInv, TypesOK, Resting, Entry, Asking, Makers
  <1>3. CASE CancelsNothing
    <2>1. Return(Cancelled) /\ UNCHANGED voTracked
      BY <1>3 DEF CancelOrder
    <2>2. voVenue = "generic"
      BY <1>2, <1>3 DEF CancelsNothing
    <2>3. Cancelled \in Copies
      BY <1>1, CancelledCopy
    <2>4. ~Knows'
      BY <1>1, <2>2 DEF Knows
    <2> QED BY <1>1, <1>2, <2>1, <2>2, <2>3, <2>4, Returned
  <1>4. CASE ~CancelsNothing
    <2>1. Begin("cut", "cancel") /\ UNCHANGED <<voHand, voHeld, voTracked, voCall>>
      BY <1>4 DEF CancelOrder
    <2>2. TypesOK'
      BY <1>1, <2>1, Begins DEF VOInv, TypesOK
    <2>3. Resting' /\ Entry' /\ Asking'
      BY <1>1, <1>4, <2>1, Begins DEF VOInv, Resting, Rests, Entry, Asking, CancelsNothing
    <2>4. Makers' /\ Ends' /\ Refused'
      BY <1>1, <1>2, <2>1, Begins DEF VOInv, Makers, Ends, Knows, Refused
    <2> QED BY <2>2, <2>3, <2>4 DEF VOInv
  <1> QED BY <1>3, <1>4

\* The venue's answer to a cancel: unless it is assumed, the order rests no longer.
LEMMA CutAnsweredKeeps ==
  ASSUME VOInv, voAt = "cut", NEW gone, CutAnswered(gone),
         UNCHANGED <<voVenue, voKind, voTransit>>, voAssumed' \in BOOLEAN,
         voOrder' \in Orders, voOrder'.state # "absent", voOrder.state # "absent",
         voOrder'.state = "live" => voAssumed' /\ voOrder'.filled < Lots /\ Rests
  PROVE  VOInv'
  <1>1. /\ voKind = "maker" /\ voVenue \in {"binance", "okx", "kraken", "alpaca", "oanda"}
        /\ voHand \in Copies /\ voHand.status \notin Terminal
        /\ voHeld.status \notin Terminal /\ voCall \in {"none", "returned", "timed out"}
        /\ voTracked \in Copies /\ voTracked.status \notin Terminal
        /\ voVenue \in {"alpaca", "kraken"} => voHand.known
    BY VenueOrdersAssumption DEF VOInv, TypesOK, Asking, Makers
  <1>2. voTransit = FALSE /\ voTransit' = FALSE
    BY DEF VOInv, TypesOK, Entry
  <1>3. /\ Cancelled \in Copies /\ Cancelled.known = voHand.known
        /\ Cancelled.filled = voHand.filled
    BY <1>1, CancelledCopy
  <1>4. ASSUME Return(Cancelled), UNCHANGED voTracked, voVenue # "okx"
        PROVE  VOInv'
    <2>1. voAssumed' \/ voOrder'.state = "over"
      BY DEF Orders
    <2>2. Knows' => voOrder'.state = "over"
      BY <1>1, <1>4, <2>1 DEF Knows
    <2> QED BY <1>1, <1>2, <1>3, <1>4, <2>2, Returned
  <1>5. CASE voVenue = "binance"
    <2>1. CASE gone
      BY <1>4, <1>5, <2>1 DEF CutAnswered, BinanceCut
    <2>2. CASE ~gone
      <3>1. PICK r \in BinanceReports(voOrder') : Return(r) /\ Track(r)
        BY <1>5, <2>2 DEF CutAnswered, BinanceCut
      <3>2. /\ r \in Copies /\ r.known /\ r.filled = voOrder'.filled
            /\ r.status \in Terminal => voOrder'.state = "over"
        BY <3>1, ReportsAreTrue
      <3>3. voTracked' \in Copies /\ voTracked'.status \notin Terminal
        BY <3>1, <3>2, Tracked
      <3> QED BY <1>1, <1>2, <3>1, <3>2, <3>3, Returned
    <2> QED BY <2>1, <2>2
  <1>6. CASE voVenue = "okx"
    <2>1. Begin("look", "cancel") /\ UNCHANGED <<voHand, voHeld, voTracked, voCall>>
      BY <1>6 DEF CutAnswered, OkxCut
    <2>2. TypesOK'
      BY <1>2, <2>1, Begins DEF VOInv, TypesOK
    <2>3. Resting' /\ Entry' /\ Asking'
      BY <1>1, <1>2, <1>6, <2>1, Begins DEF VOInv, Resting, Rests, Entry, Asking
    <2>4. Makers' /\ Ends' /\ Refused'
      BY <1>1, <1>6, <2>1, Begins DEF VOInv, Makers, Ends, Knows, Refused
    <2> QED BY <2>2, <2>3, <2>4 DEF VOInv
  <1>7. CASE voVenue \in {"kraken", "alpaca", "oanda"}
    <2>1. Return(Cancelled) /\ UNCHANGED voTracked
      BY <1>7 DEF CutAnswered, KrakenCut, AlpacaCut, OandaCut
    <2> QED BY <1>4, <1>7, <2>1
  <1> QED BY <1>1, <1>5, <1>6, <1>7

LEMMA CutKeeps == VOInv /\ Cut => VOInv'
  <1> SUFFICES ASSUME VOInv, Cut PROVE VOInv'
    OBVIOUS
  <1>1. voAt = "cut" /\ UNCHANGED <<voVenue, voKind, voTransit>>
    BY DEF Cut
  <1>2. /\ voOrder \in Orders /\ voOrder.state # "absent"
        /\ voOrder.state = "live" => voOrder.filled < Lots /\ Rests
        /\ voTransit = FALSE /\ voAssumed \in BOOLEAN
    BY <1>1 DEF VOInv, TypesOK, Resting, Entry, Asking, Makers
  <1>3. ASSUME voOrder' \in Orders, voOrder'.state # "absent",
               voOrder'.state = "live" => voOrder'.filled < Lots /\ Rests, CutGarbled
        PROVE  VOInv'
    <2>1. CASE CutAnswered(TRUE) /\ voAssumed' = TRUE
      BY <1>1, <1>2, <1>3, <2>1, CutAnsweredKeeps
    <2>2. CASE Raise("lost") /\ UNCHANGED voAssumed
      BY <1>1, <1>2, <1>3, <2>2, Raised
    <2> QED BY <1>3, <2>1, <2>2 DEF CutGarbled
  <1>4. CASE /\ voOrder.state = "live" /\ voOrder' = [voOrder EXCEPT !.state = "over"]
             /\ \/ CutAnswered(FALSE) /\ UNCHANGED voAssumed
                \/ CutLost /\ UNCHANGED voAssumed
                \/ CutGarbled
    <2>1. voOrder' \in Orders /\ voOrder'.state = "over"
      BY <1>2, <1>4 DEF Orders
    <2>2. CASE CutAnswered(FALSE) /\ UNCHANGED voAssumed
      BY <1>1, <1>2, <2>1, <2>2, CutAnsweredKeeps
    <2>3. CASE CutLost /\ UNCHANGED voAssumed
      BY <1>1, <1>2, <2>1, <2>3, Lost DEF CutLost
    <2>4. CASE CutGarbled
      BY <1>3, <2>1, <2>4
    <2> QED BY <1>4, <2>2, <2>3, <2>4
  <1>5. CASE voOrder.state # "live" /\ CutAnswered(TRUE) /\ UNCHANGED <<voOrder, voAssumed>>
    BY <1>1, <1>2, <1>5, CutAnsweredKeeps
  <1>6. CASE CutLost /\ UNCHANGED <<voOrder, voAssumed>>
    BY <1>1, <1>2, <1>6, Lost DEF CutLost
  <1>7. CASE CutGarbled /\ UNCHANGED voOrder
    BY <1>2, <1>3, <1>7
  <1> QED BY <1>4, <1>5, <1>6, <1>7 DEF Cut

-----------------------------------------------------------------------------
(* The theorems. *)

LEMMA InitTrue == VenueOrdersInit => VOInv
  <1> SUFFICES ASSUME VenueOrdersInit PROVE VOInv
    OBVIOUS
  <1>0. /\ Fresh \in Copies /\ NoCopy \in Copies /\ 0 \in 0 .. Retries
        /\ [state |-> "absent", filled |-> 0] \in Orders
    <2>1. Lots \in Nat /\ Retries \in Nat
      BY VenueOrdersAssumption
    <2> QED BY <2>1 DEF Orders, Copies, Statuses, Copy, Fresh, NoCopy
  <1>1. TypesOK
    BY <1>0 DEF VenueOrdersInit, TypesOK
  <1>2. Resting /\ Entry /\ Asking
    BY DEF VenueOrdersInit, Resting, Entry, Asking, Copy, Fresh, NoCopy, Terminal
  <1>3. Makers /\ Ends /\ Refused
    BY DEF VenueOrdersInit, Makers, Ends, Knows, Refused, Copy, Fresh, Terminal
  <1> QED BY <1>1, <1>2, <1>3 DEF VOInv

LEMMA StepKeeps == VOInv /\ [VenueOrdersNext]_voVars => VOInv'
  <1> SUFFICES ASSUME VOInv, [VenueOrdersNext]_voVars PROVE VOInv'
    OBVIOUS
  <1>1. CASE UNCHANGED voVars
    <2>1. TypesOK' /\ Resting' /\ Entry' /\ Asking'
      BY <1>1 DEF VOInv, TypesOK, Resting, Rests, Entry, Asking, voVars
    <2>2. Makers' /\ Ends' /\ Refused'
      BY <1>1 DEF VOInv, Makers, Ends, Knows, Over, Refused, voVars
    <2> QED BY <2>1, <2>2 DEF VOInv
  <1>2. CASE Trade
    BY <1>2, TradeKeeps
  <1>3. CASE Lapse
    BY <1>3, LapseKeeps
  <1>4. CASE LateEntry
    BY <1>4, LateEntryKeeps
  <1>5. CASE SubmitOrder
    BY <1>5, SubmitOrderKeeps
  <1>6. CASE Add
    BY <1>6, AddKeeps
  <1>7. CASE TimesOut
    BY <1>7, TimesOutKeeps
  <1>8. CASE FetchOrder
    BY <1>8, FetchOrderKeeps
  <1>9. CASE Look
    BY <1>9, LookKeeps
  <1>10. CASE CancelOrder
    BY <1>10, CancelOrderKeeps
  <1>11. CASE Cut
    BY <1>11, CutKeeps
  <1> QED
    BY <1>1, <1>2, <1>3, <1>4, <1>5, <1>6, <1>7, <1>8, <1>9, <1>10, <1>11 DEF VenueOrdersNext

LEMMA VOInvAlways == VenueOrdersSpec => []VOInv
  BY InitTrue, StepKeeps, PTL DEF VenueOrdersSpec

\* An order an adapter reports as finished is finished at the venue and none of it is
\* still on its way, for every size, whatever was lost, repeated or given up on the way:
\* of every taker, of OKX's makers, and of the makers of Binance, Kraken, Alpaca and OANDA
\* whose cancel was answered and not assumed to be.
THEOREM EndsAreReal == VenueOrdersSpec => []ReportedEndIsReal
  <1>1. VOInv => ReportedEndIsReal
    BY DEF VOInv, Ends, Knows, ReportedEndIsReal
  <1> QED BY <1>1, VOInvAlways, PTL

\* A finished taker, and a finished maker of OKX, filled exactly what the adapter says.
THEOREM EndsTellTheFill == VenueOrdersSpec => []ReportedEndTellsTheFill
  <1>1. VOInv => ReportedEndTellsTheFill
    BY DEF VOInv, Ends, Knows, ReportedEndTellsTheFill
  <1> QED BY <1>1, VOInvAlways, PTL

\* An order that submit says was refused never reached the venue and never will: of OKX,
\* and of Binance, Alpaca and the generic adapter unless they assume the refusal.
THEOREM RefusalsLeaveNothing == VenueOrdersSpec => []RefusedLeftNothing
  <1>1. VOInv => RefusedLeftNothing
    BY DEF VOInv, Entry, Refused, RefusedLeftNothing
  <1> QED BY <1>1, VOInvAlways, PTL
=============================================================================
