----------------------------- MODULE MCWildcard -----------------------------
(***************************************************************************)
(* Wildcard for TLC.                                                       *)
(***************************************************************************)
EXTENDS Wildcard
=============================================================================
