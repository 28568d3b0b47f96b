--------------------------- MODULE MCStreamingQuery ---------------------------
(* Small instances of StreamingQuery for TLC: a SELECT of two blocks, one  *)
(* that raises at once, and a statement that is no SELECT.                 *)
EXTENDS StreamingQuery, TLC

CONSTANTS two, fails, ddl

SomeBlocks == [q \in Statements |-> IF q = two THEN 2 ELSE 0]

Symmetry == Permutations(Threads) \cup Permutations(Handles)
=============================================================================
