----------------------------- MODULE MCThreadPool -----------------------------
(* Model-checking instance. *)
EXTENDS ThreadPool
=============================================================================
