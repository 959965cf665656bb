---------------------------- MODULE MCAllocator -----------------------------
(* Model-checking instance. *)
EXTENDS Allocator
=============================================================================
