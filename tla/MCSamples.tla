----------------------------- MODULE MCSamples -----------------------------
(***************************************************************************)
(* Samples for TLC, with the percentiles of Samples::report.               *)
(***************************************************************************)
EXTENDS Samples

MCPercentiles == {<<1, 2>>, <<9, 10>>, <<99, 100>>, <<999, 1000>>}
=============================================================================
