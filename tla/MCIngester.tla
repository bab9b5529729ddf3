----------------------------- MODULE MCIngester -----------------------------
(***************************************************************************)
(* Ingester for TLC.  The symmetry is for the safety run only.             *)
(***************************************************************************)
EXTENDS Ingester, TLC

Symmetry == Permutations(Writers) \cup Permutations(Entries)
=============================================================================
