----------------------------- MODULE MCHistorian -----------------------------
(* A small instance of Historian: one point.                               *)
EXTENDS Historian

=============================================================================
