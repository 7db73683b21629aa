------------------------------ MODULE MCEngine ------------------------------
(***************************************************************************)
(* Engine for TLC.                                                         *)
(***************************************************************************)
EXTENDS Engine
=============================================================================
