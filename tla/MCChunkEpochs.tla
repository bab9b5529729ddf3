---------------------------- MODULE MCChunkEpochs ----------------------------
(***************************************************************************)
(* ChunkEpochs for TLC.                                                    *)
(***************************************************************************)
EXTENDS ChunkEpochs, TLC

Symmetry == Permutations(Writers)
=============================================================================
