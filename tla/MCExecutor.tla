------------------------------ MODULE MCExecutor ------------------------------
(* Small instances of Executor. *)
EXTENDS Executor

CONSTANTS k1, k2, k3, k4, w1, w2
===============================================================================
