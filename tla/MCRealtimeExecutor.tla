-------------------------- MODULE MCRealtimeExecutor --------------------------
(* A small instance of RealtimeExecutor. *)
EXTENDS RealtimeExecutor

CONSTANTS k1, k2, w1
===============================================================================
