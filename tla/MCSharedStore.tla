---------------------------- MODULE MCSharedStore -----------------------------
\* Two replicas, two workers, one instance with two tasks.
EXTENDS SharedStore, TLC

Symmetry == Permutations(Replicas) \cup Permutations(Workers)
=============================================================================
