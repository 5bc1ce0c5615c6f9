----------------------------- MODULE MCProfiler -----------------------------
(***************************************************************************)
(* Instances of Profiler for TLC.  The functions are model values.         *)
(***************************************************************************)
EXTENDS Profiler, TLC

CONSTANTS P, Q, f, g, n

Scripts == Permutations({f, g})
=============================================================================
