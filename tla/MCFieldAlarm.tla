---------------------------- MODULE MCFieldAlarm ----------------------------
(* A small instance of FieldAlarm: one alarm, whose source may report its  *)
(* old raise time again.                                                   *)
EXTENDS FieldAlarm, TLC

CONSTANTS g1, d1

MCDeviceOf == g1 :> d1
MCMaxRaises == g1 :> 2

=============================================================================
