--------------------------- MODULE MCConstruction ---------------------------
(***************************************************************************)
(* Construction for TLC.                                                   *)
(***************************************************************************)
EXTENDS Construction
=============================================================================
