--------------------------- MODULE MCIngesterLoss ---------------------------
(***************************************************************************)
(* Ingester, with the history of IngesterLoss, for TLC: who is who among   *)
(* the writers and the entries does not matter to a safety property.       *)
(***************************************************************************)
EXTENDS IngesterLoss, TLC

Symmetry == Permutations(Writers) \cup Permutations(Entries)
=============================================================================
