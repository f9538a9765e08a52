-------------------------------- MODULE MCGate --------------------------------
(***************************************************************************)
(* A car at the barrier of a lot of one spot.                               *)
(***************************************************************************)
EXTENDS Gate

CONSTANTS lot1, t1, c1

OneLot == [s \in Spots |-> lot1]
===============================================================================
