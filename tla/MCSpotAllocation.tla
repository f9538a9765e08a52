--------------------------- MODULE MCSpotAllocation ---------------------------
(***************************************************************************)
(* A lot of two spots, which two statistics threads read at once.            *)
(***************************************************************************)
EXTENDS SpotAllocation, TLC

CONSTANTS lot1, t1, t2

OneLot == [s \in Spots |-> lot1]
Symmetry == Permutations(Threads)
===============================================================================
