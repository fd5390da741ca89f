------------------------------ MODULE MCVenues ------------------------------
(***************************************************************************)
(* The two things an adapter does at a venue, side by side: it keeps a     *)
(* book of the venue's stream, or it carries an order.  Streams and orders *)
(* share no state in the code, so one behaviour moves one of them, named   *)
(* by side, and the other rests in its initial state.                      *)
(***************************************************************************)
EXTENDS MCBookFeed, VenueOrders

CONSTANT Sides   \* which of the two this run moves

VARIABLE side

bothVars == <<side, vars, voVars>>

BothInit ==
  /\ side \in Sides
  /\ Init /\ VenueOrdersInit
  /\ side = "books" => voVenue = "okx" /\ voKind = "taker"
  /\ side = "orders" => adapter = "okx"

BothNext ==
  /\ \/ side = "books" /\ Next /\ UNCHANGED voVars
     \/ side = "orders" /\ VenueOrdersNext /\ UNCHANGED vars
  /\ UNCHANGED side

BothSpec == BothInit /\ [][BothNext]_bothVars
=============================================================================
