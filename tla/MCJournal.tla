------------------------------ MODULE MCJournal ------------------------------
(* Journal for TLC: symmetry; the constants are in the cfg files. *)
EXTENDS Journal, TLC

Symmetry == Permutations(Procs) \cup Permutations(Keys)
==============================================================================
