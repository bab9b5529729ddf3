------------------------------- MODULE MCChunk -------------------------------
(***************************************************************************)
(* Chunk, with the history of ChunkOrder, for TLC: who is who among the    *)
(* writers and the entries does not matter to a safety property.           *)
(***************************************************************************)
EXTENDS ChunkOrder, TLC

Symmetry == Permutations(Writers) \cup Permutations(Entries)
=============================================================================
