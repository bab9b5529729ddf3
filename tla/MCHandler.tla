------------------------------ MODULE MCHandler ------------------------------
(***************************************************************************)
(* Handler for TLC.                                                        *)
(***************************************************************************)
EXTENDS Handler, TLC

Symmetry == Permutations(Goroutines) \cup Permutations(Records)
            \cup Permutations(Writers)
=============================================================================
