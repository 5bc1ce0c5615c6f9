------------------------- MODULE MCProfilerHandler -------------------------
(***************************************************************************)
(* Instances of ProfilerHandler for TLC.  The functions are model values.  *)
(***************************************************************************)
EXTENDS ProfilerHandler

CONSTANTS P, f, n
=============================================================================
