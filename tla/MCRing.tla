------------------------------- MODULE MCRing -------------------------------
(***************************************************************************)
(* Ring for TLC.                                                           *)
(***************************************************************************)
EXTENDS Ring
=============================================================================
