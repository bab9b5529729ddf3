------------------------------ MODULE MCArchive ------------------------------
(***************************************************************************)
(* Archive for TLC.                                                        *)
(***************************************************************************)
EXTENDS Archive
=============================================================================
