--------------------------- MODULE MCEmbeddedServer ---------------------------
(* Small instances of EmbeddedServer for TLC. *)
EXTENDS EmbeddedServer, TLC

Symmetry == Permutations(Clients) \cup Permutations(Paths)
=============================================================================
