------------------------------ MODULE MCBanker ------------------------------
(* Model-checking instance. *)
EXTENDS Banker
=============================================================================
