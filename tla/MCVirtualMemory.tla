-------------------------- MODULE MCVirtualMemory ---------------------------
(* Model-checking instance. *)
EXTENDS VirtualMemory
=============================================================================
