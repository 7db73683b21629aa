---------------------------- MODULE MCReflector ----------------------------
(***************************************************************************)
(* Reflector for TLC: lengths on both sides of every limit, each fragment  *)
(* flag on its own.                                                        *)
(***************************************************************************)
EXTENDS Reflector

MCFragments == SUBSET {15, 14, 13, 12, 0}

MCEnds == {[dst_mac |-> 1, src_mac |-> 2, saddr |-> 3, daddr |-> 4, source |-> 5, dest |-> 6]}
=============================================================================
