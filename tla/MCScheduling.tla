---------------------------- MODULE MCScheduling -----------------------------
(* Model-checking instance. *)
EXTENDS Scheduling
=============================================================================
