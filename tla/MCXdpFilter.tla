---------------------------- MODULE MCXdpFilter ----------------------------
(***************************************************************************)
(* XdpFilter for TLC.                                                      *)
(***************************************************************************)
EXTENDS XdpFilter
=============================================================================
