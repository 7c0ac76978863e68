------------------------- MODULE MCProactivePushes -------------------------
(* An instance of ProactivePushes for TLC: two conversations, of which one  *)
(* is open in another session as well.                                     *)
EXTENDS ProactivePushes, TLC

CONSTANTS t1, t2
=============================================================================
