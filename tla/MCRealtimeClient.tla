--------------------------- MODULE MCRealtimeClient ---------------------------
(* A small instance of RealtimeClient and of CommandView, which it serves. *)
EXTENDS CommandView

CONSTANTS s1, s2
===============================================================================
