-------------------------- MODULE MCVenueOrders --------------------------
(***************************************************************************)
(* An order at each of the six venues.                                     *)
(***************************************************************************)
EXTENDS VenueOrders
vars == voVars
Spec == VenueOrdersInit /\ [][VenueOrdersNext]_vars
=============================================================================
