------------------------- MODULE MCReservationDelivery -------------------------
(***************************************************************************)
(* MS2's side alone: one reservation and the one spot of a lot.            *)
(***************************************************************************)
EXTENDS ReservationDelivery

CONSTANT i1
================================================================================
