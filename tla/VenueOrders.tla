---------------------------- MODULE VenueOrders ----------------------------
(***************************************************************************)
(* One order at one live venue, as its adapter (exchanges/binance.py,      *)
(* okx.py, kraken.py, alpaca.py, oanda_fx.py, generic.py) enters, looks up *)
(* and cancels it over a network that loses requests and answers and       *)
(* garbles some (exchanges/http.py), for a caller that works like a leg of *)
(* the executor.  What really became of the order, voOrder, is the venue's.*)
(***************************************************************************)
EXTENDS Naturals

CONSTANTS Venues,     \* of the six adapters
          Kinds,      \* of "taker" (immediate or cancel) and "maker" (post-only)
          Lots,       \* size of the order
          Retries     \* repetitions of a request (2 in the code), where it is repeated at all

ASSUME VenueOrdersAssumption ==
  /\ Venues \subseteq {"binance", "okx", "kraken", "alpaca", "oanda", "generic"}
  /\ Kinds \subseteq {"taker", "maker"} /\ Lots \in Nat \ {0} /\ Retries \in Nat

VARIABLES voVenue, voKind,
          voOrder,     \* the order at the venue
          voTransit,   \* an entry given up on is still on its way
          voAt,        \* request under way: "none", "add", "look" or "cut"
          voFor,       \* the call it is part of: "submit", "fetch" or "cancel"
          voLeft,      \* repetitions left to it
          voHand,      \* the order as the call at work has it
          voHeld,      \* the order as the caller has it
          voTracked,   \* the adapter's own copy, NoCopy when it keeps none
          voCall,      \* how the last call ended
          voAssumed    \* the adapter has taken a reply for what it did not say

voVars == <<voVenue, voKind, voOrder, voTransit, voAt, voFor, voLeft, voHand, voHeld,
            voTracked, voCall, voAssumed>>

Terminal == {"filled", "ended"}   \* "ended": canceled, expired or rejected
Copy(status, filled, known) == [status |-> status, filled |-> filled, known |-> known]
Fresh == Copy("pending", 0, FALSE)
NoCopy == Copy("none", 0, FALSE)

VenueOrdersInit ==
  /\ voVenue \in Venues /\ voKind \in Kinds
  /\ voOrder = [state |-> "absent", filled |-> 0]
  /\ voTransit = FALSE /\ voAt = "none" /\ voFor = "submit" /\ voLeft = 0
  /\ voHand = Fresh /\ voHeld = Fresh /\ voTracked = NoCopy /\ voCall = "none"
  /\ voAssumed = FALSE

-----------------------------------------------------------------------------
(* The venue. *)

\* An order is entered and trades at once as far as it can.  OANDA's limit orders are
\* good until cancelled whatever the leg asked for.
Rests == voKind = "maker" \/ voVenue = "oanda"
Entered(f) == [state |-> IF Rests /\ f < Lots THEN "live" ELSE "over", filled |-> f]
Enters == \E f \in (IF voKind = "maker" /\ voVenue # "oanda" THEN {0} ELSE 0..Lots) :
            voOrder' = Entered(f)

Trade == /\ voOrder.state = "live"
         /\ voOrder' = LET f == voOrder.filled + 1
                       IN [state |-> IF f = Lots THEN "over" ELSE "live", filled |-> f]
         /\ UNCHANGED <<voVenue, voKind, voTransit, voAt, voFor, voLeft, voHand, voHeld,
                        voTracked, voCall, voAssumed>>

\* The venue ends a resting order of its own: the day is over, its price band moved.
Lapse == /\ voOrder.state = "live" /\ voOrder' = [voOrder EXCEPT !.state = "over"]
         /\ UNCHANGED <<voVenue, voKind, voTransit, voAt, voFor, voLeft, voHand, voHeld,
                        voTracked, voCall, voAssumed>>

LateEntry == /\ voTransit /\ voOrder.state = "absent" /\ voAt = "none"
             /\ Enters /\ voTransit' = FALSE
             /\ UNCHANGED <<voVenue, voKind, voAt, voFor, voLeft, voHand, voHeld, voTracked,
                            voCall, voAssumed>>

\* What a reply about the order makes of it; each venue's words for canceled, expired
\* and rejected are one here.
StatusOf(o) == IF o.filled = Lots THEN "filled"
               ELSE IF o.state = "over" THEN "ended"
               ELSE IF o.filled > 0 THEN "partial" ELSE "open"
BinanceReports(o) == {Copy(StatusOf(o), o.filled, TRUE)}
OkxReports(o)     == {Copy(StatusOf(o), o.filled, TRUE)}
AlpacaReports(o)  == {Copy(StatusOf(o), o.filled, TRUE)}

\* A Kraken order that was closed short of its size is taken for partly filled.
KrakenReports(o) ==
  {Copy(s, o.filled, TRUE) :
     s \in {StatusOf(o)} \cup (IF StatusOf(o) = "ended" THEN {"partial"} ELSE {})}

Reports(o) == CASE voVenue = "binance" -> BinanceReports(o)
                [] voVenue = "okx"     -> OkxReports(o)
                [] voVenue = "alpaca"  -> AlpacaReports(o)
                [] voVenue = "kraken"  -> KrakenReports(o)

-----------------------------------------------------------------------------
(* How a call goes on and ends. *)

\* _track
Track(copy) == voTracked' = IF copy.status \in Terminal THEN NoCopy ELSE copy

\* Kraken's private calls are all repeated, an entry too; the others enter once.
RepeatsEntry == voVenue = "kraken"

Begin(request, call) ==
  /\ voAt' = request /\ voFor' = call
  /\ voLeft' = IF request = "add" /\ ~RepeatsEntry THEN 0 ELSE Retries

Return(copy) == /\ voAt' = "none" /\ voCall' = "returned" /\ voHeld' = copy /\ voHand' = copy
                /\ UNCHANGED <<voFor, voLeft>>

Raise(how) == /\ voAt' = "none" /\ voCall' = how /\ voHand' = voHeld
              /\ UNCHANGED <<voFor, voLeft, voHeld, voTracked>>

\* request: a timeout or a broken connection is tried again, then ConnectionLost.
Repeated == IF voLeft > 0 THEN /\ voLeft' = voLeft - 1
                               /\ UNCHANGED <<voAt, voFor, voHand, voHeld, voTracked, voCall>>
                          ELSE Raise("lost")

\* The last known copy of an adapter that asks nobody.
LastKnown(copy) == IF voTracked # NoCopy THEN voTracked ELSE copy

\* fetch_order without a request: OANDA and the generic adapter have the last known
\* copy, Kraken needs the id an acknowledgement gave.
AsksNobody == voVenue \in {"oanda", "generic"} \/ (voVenue = "kraken" /\ ~voHand.known)
-----------------------------------------------------------------------------
(* submit *)

SubmitOrder == /\ voAt = "none" /\ voCall = "none" /\ Begin("add", "submit")
               /\ UNCHANGED <<voVenue, voKind, voOrder, voTransit, voHand, voHeld, voTracked,
                              voCall, voAssumed>>

\* Mutant of Acknowledged: an order that rests is told to the caller as refused.
AcknowledgedIfTraded ==
  IF voOrder'.filled = 0 THEN Raise("rejected")
  ELSE \E r \in Reports(voOrder') : Return(r) /\ Track(r)

\* The venue has answered the entry; what each adapter makes of it.
BinanceSubmitted == \E r \in BinanceReports(voOrder') : Return(r) /\ Track(r)
AlpacaSubmitted  == \E r \in AlpacaReports(voOrder') : Return(r) /\ Track(r)

OkxSubmitted == /\ voHand' = Copy("open", 0, TRUE) /\ Begin("look", "submit")
                /\ UNCHANGED <<voHeld, voTracked, voCall>>
KrakenSubmitted == /\ voHand' = Copy("open", 0, TRUE) /\ Begin("look", "submit")
                   /\ UNCHANGED <<voHeld, voTracked, voCall>>

GenericSubmitted == LET r == LastKnown(Copy("open", 0, TRUE)) IN Return(r) /\ Track(r)

\* No fill in the answer is a refusal, although the order may rest.
OandaSubmitted ==
  IF voOrder'.filled = 0 THEN Raise("rejected")
  ELSE LET r == Copy(IF voOrder'.filled = Lots THEN "filled" ELSE "partial",
                     voOrder'.filled, TRUE)
       IN Return(r) /\ Track(r)

Acknowledged == CASE voVenue = "binance" -> BinanceSubmitted
                  [] voVenue = "okx"     -> OkxSubmitted
                  [] voVenue = "kraken"  -> KrakenSubmitted
                  [] voVenue = "alpaca"  -> AlpacaSubmitted
                  [] voVenue = "oanda"   -> OandaSubmitted
                  [] voVenue = "generic" -> GenericSubmitted

\* BadResponse, of an error of the server or a reply that is no JSON, is not repeated.
\* Three adapters take it for a refusal; it says nothing about the order.
AddGarbled == IF voVenue \in {"binance", "alpaca", "generic"}
              THEN Raise("rejected") /\ voAssumed' = TRUE
              ELSE Raise("lost") /\ UNCHANGED voAssumed

\* The request arrives and is answered, or not; or it does not arrive, or arrives late; or
\* it is refused.  Kraken's nonce is part of the request that is repeated: once it has
\* arrived, its repetition is refused.
Add ==
  /\ voAt = "add" /\ UNCHANGED <<voVenue, voKind>>
  /\ \/ /\ voOrder.state = "absent" /\ Enters /\ UNCHANGED voTransit
        /\ \/ Acknowledged /\ UNCHANGED voAssumed
           \/ Repeated /\ UNCHANGED voAssumed
           \/ AddGarbled
     \/ UNCHANGED <<voOrder, voTransit, voAssumed>> /\ Raise("rejected")
     \/ UNCHANGED <<voOrder, voTransit>> /\ AddGarbled
     \/ /\ voTransit' \in {voTransit, voLeft = 0 /\ voOrder.state = "absent"}
        /\ Repeated /\ UNCHANGED <<voOrder, voAssumed>>

\* wait_for gives a taker's submit up, whatever it was waiting for.
TimesOut ==
  /\ voAt # "none" /\ voFor = "submit" /\ voKind = "taker"
  /\ voTransit' = (voAt = "add" /\ voOrder.state = "absent")
  /\ Raise("timed out") /\ UNCHANGED <<voVenue, voKind, voOrder, voAssumed>>

-----------------------------------------------------------------------------
(* fetch_order *)

Answered(copy) == Return(copy) /\ (IF voFor = "submit" THEN Track(copy) ELSE UNCHANGED voTracked)

FetchOrder ==
  /\ voAt = "none" /\ voCall \in {"returned", "timed out"} /\ voHeld.status \notin Terminal
  /\ UNCHANGED <<voVenue, voKind, voOrder, voTransit, voAssumed>>
  /\ IF AsksNobody
     THEN Return(IF voVenue = "kraken" THEN voHand ELSE LastKnown(voHand)) /\ UNCHANGED voTracked
     ELSE Begin("look", "fetch") /\ UNCHANGED <<voHand, voHeld, voTracked, voCall>>

\* About an order it does not have Binance answers with an error; the others' adapters
\* hand back what they were given.
NotFound == IF voVenue = "binance" THEN Raise("lost") ELSE Answered(voHand)

\* Alpaca's adapter hands back what it was given.  Kraken's errors come in a reply that
\* can be read and are refusals to its adapter, in a submit too.
LookGarbled == CASE voVenue = "alpaca" -> Answered(voHand)
                 [] voVenue = "kraken" -> Raise("lost") \/ Raise("rejected")
                 [] OTHER              -> Raise("lost")

Look ==
  /\ voAt = "look" /\ UNCHANGED <<voVenue, voKind, voOrder, voTransit, voAssumed>>
  /\ \/ Repeated
     \/ LookGarbled
     \/ voOrder.state # "absent" /\ \E r \in Reports(voOrder) : Answered(r)
     \/ voOrder.state = "absent" /\ NotFound

-----------------------------------------------------------------------------
(* cancel *)

Cancelled == [voHand EXCEPT !.status = "ended"]

\* The generic adapter sends no cancel; Kraken's and Alpaca's need the venue's id.
CancelsNothing ==
  voVenue = "generic" \/ (voVenue \in {"kraken", "alpaca"} /\ ~voHand.known)

CancelOrder ==
  /\ voAt = "none" /\ voCall = "returned" /\ voKind = "maker" /\ voHeld.status \notin Terminal
  /\ UNCHANGED <<voVenue, voKind, voOrder, voTransit, voAssumed>>
  /\ IF CancelsNothing
     THEN Return(Cancelled) /\ UNCHANGED voTracked
     ELSE Begin("cut", "cancel") /\ UNCHANGED <<voHand, voHeld, voTracked, voCall>>

\* Mutant of OkxCut: a cancel accepted is the end of the story.
CutBelieved == Return(Cancelled) /\ UNCHANGED voTracked

\* The venue has answered the cancel; gone: that there is no such order.
BinanceCut(gone) ==
  IF gone THEN Return(Cancelled) /\ UNCHANGED voTracked
  ELSE \E r \in BinanceReports(voOrder') : Return(r) /\ Track(r)
OkxCut == Begin("look", "cancel") /\ UNCHANGED <<voHand, voHeld, voTracked, voCall>>
KrakenCut == Return(Cancelled) /\ UNCHANGED voTracked
AlpacaCut == Return(Cancelled) /\ UNCHANGED voTracked
OandaCut  == Return(Cancelled) /\ UNCHANGED voTracked

CutAnswered(gone) == CASE voVenue = "binance" -> BinanceCut(gone)
                       [] voVenue = "okx"     -> OkxCut
                       [] voVenue = "kraken"  -> KrakenCut
                       [] voVenue = "alpaca"  -> AlpacaCut
                       [] voVenue = "oanda"   -> OandaCut

\* Mutant of CutLost: a cancel whose answer is lost passes for one that was not needed.
CutGivenUp == IF voLeft > 0 THEN Repeated ELSE CutAnswered(TRUE)

CutLost == Repeated

\* A reply that cannot be read passes for that of an order that is gone; OKX is asked
\* what became of it.  Kraken's is raised, but an error in a reply that can be read, its
\* rate limit for one, is passed over the same.
CutGarbled ==
  \/ CutAnswered(TRUE) /\ voAssumed' = TRUE
  \/ voVenue = "kraken" /\ Raise("lost") /\ UNCHANGED voAssumed

Cut ==
  /\ voAt = "cut" /\ UNCHANGED <<voVenue, voKind, voTransit>>
  /\ \/ /\ voOrder.state = "live" /\ voOrder' = [voOrder EXCEPT !.state = "over"]
        /\ \/ CutAnswered(FALSE) /\ UNCHANGED voAssumed
           \/ CutLost /\ UNCHANGED voAssumed
           \/ CutGarbled
     \/ voOrder.state # "live" /\ CutAnswered(TRUE) /\ UNCHANGED <<voOrder, voAssumed>>
     \/ CutLost /\ UNCHANGED <<voOrder, voAssumed>>
     \/ CutGarbled /\ UNCHANGED voOrder

VenueOrdersNext == Trade \/ Lapse \/ LateEntry \/ SubmitOrder \/ Add \/ TimesOut
                   \/ FetchOrder \/ Look \/ CancelOrder \/ Cut

-----------------------------------------------------------------------------
(* Properties *)

Over == voOrder.state = "over" /\ ~voTransit

\* An order reported as finished is finished at the venue, however many requests and
\* answers were lost: nothing of it trades behind the caller's back while the caller
\* requeues or unwinds.  Unless a cancel's reply was assumed to say so: that leaves every
\* taker, and OKX's makers, whose cancel asks again.  The generic adapter sends no cancel.
\* Code: submit, fetch_order and cancel of the adapters, HttpClient.request.
ReportedEndIsReal ==
  voHeld.status \in Terminal /\ voVenue # "generic"
  /\ (voAssumed => voKind = "taker" \/ voVenue = "okx") => Over

\* A finished order's reported fill is all that filled, however many answers were lost
\* before: of every taker, and of OKX's makers, whose cancel asks again.
ReportedEndTellsTheFill ==
  voHeld.status \in Terminal /\ (voKind = "taker" \/ voVenue = "okx") =>
    voOrder.filled = voHeld.filled

\* A refused order left nothing at the venue: the leg counts as never sent.  Unless the
\* refusal was assumed of a reply that could not be read, which OKX's adapter does not do.
\* Kraken's entry is repeated and its look-up may be refused; OANDA's refusal is the
\* absence of a fill.  Code: submit of the adapters.
RefusedLeftNothing ==
  voCall = "rejected" /\ voVenue \notin {"kraken", "oanda"} /\ (voAssumed => voVenue = "okx") =>
    voOrder.state = "absent" /\ ~voTransit

\* "during an unwind we do not care why it is gone, only that it is", binance.py:438-440:
\* an order cancelled at Binance is gone.
CancelledIsGone == voHeld.status \in Terminal /\ voVenue = "binance" => Over

\* "The venue refused the order", core/errors.py:124.
RefusedIsRefused ==
  voCall = "rejected" /\ voVenue = "binance" => voOrder.state = "absent" /\ ~voTransit

\* submit's contract: it does not return while the fate of the order is unknown.
\* base.py:158-160.
FateIsKnownOnReturn ==
  voCall = "returned" /\ voFor = "submit" /\ voKind = "taker" /\ voOrder.state = "over" =>
    voHeld.status \in Terminal
=============================================================================
