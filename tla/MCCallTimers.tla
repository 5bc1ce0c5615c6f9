---------------------------- MODULE MCCallTimers ----------------------------
(***************************************************************************)
(* Instances of CallTimers for TLC.  The functions are model values.       *)
(***************************************************************************)
EXTENDS CallTimers, TLC

CONSTANTS f, g, h

Symmetry == Permutations(Functions)
=============================================================================
