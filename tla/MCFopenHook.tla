---------------------------- MODULE MCFopenHook ----------------------------
(***************************************************************************)
(* Instances of FopenHook for TLC.                                         *)
(***************************************************************************)
EXTENDS FopenHook

CONSTANTS main, worker
=============================================================================
