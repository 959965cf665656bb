------------------------- MODULE MCProducerConsumer -------------------------
(* Model-checking instance: interchangeable threads and interchangeable items. *)
EXTENDS ProducerConsumer, TLC

Symmetry ==
  Permutations(Producers) \cup Permutations(Consumers) \cup Permutations(Items)
=============================================================================
