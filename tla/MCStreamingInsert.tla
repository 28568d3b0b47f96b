-------------------------- MODULE MCStreamingInsert --------------------------
(* Small instances of StreamingInsert for TLC. *)
EXTENDS StreamingInsert, TLC

Symmetry == Permutations(Threads) \cup Permutations(Streams)
=============================================================================
