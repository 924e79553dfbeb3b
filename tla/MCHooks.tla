------------------------------ MODULE MCHooks -------------------------------
(* Constants for TLC.                                                      *)
EXTENDS Hooks, TLC

Symmetry == Permutations(Requests)
=============================================================================
