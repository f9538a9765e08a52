-------------------------------- MODULE MCAuth --------------------------------
(***************************************************************************)
(* Three requests for two accounts, within three seconds.                  *)
(***************************************************************************)
EXTENDS Auth

CONSTANTS r1, r2, r3, e1, e2
===============================================================================
