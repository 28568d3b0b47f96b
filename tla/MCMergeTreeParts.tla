-------------------------- MODULE MCMergeTreeParts --------------------------
(* MergeTreeParts for TLC: slots and cleaning threads are interchangeable. *)
EXTENDS MergeTreeParts

Symmetry == Permutations(Tasks) \cup Permutations(Cleaners)
=============================================================================
