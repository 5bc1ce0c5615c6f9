------------------------------ MODULE MCPlugin ------------------------------
(***************************************************************************)
(* Instances of Plugin for TLC.                                            *)
(***************************************************************************)
EXTENDS Plugin, TLC

CONSTANTS main, worker, a1, a2, h1, h2, other, missing, nothing

Symmetry == Permutations(Amx) \cup Permutations(Headers)
=============================================================================
