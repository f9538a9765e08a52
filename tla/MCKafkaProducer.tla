--------------------------- MODULE MCKafkaProducer ---------------------------
(***************************************************************************)
(* One reservation, its two events and the spots of one lot.                *)
(***************************************************************************)
EXTENDS KafkaProducer

CONSTANT i1
===============================================================================
