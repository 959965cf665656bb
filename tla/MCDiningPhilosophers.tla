------------------------ MODULE MCDiningPhilosophers ------------------------
(* Model-checking instance: the table of five the program is compiled for. *)
EXTENDS DiningPhilosophers
=============================================================================
