---------------------------- MODULE MCSleepingTA ----------------------------
(* Model-checking instance. *)
EXTENDS SleepingTA
=============================================================================
