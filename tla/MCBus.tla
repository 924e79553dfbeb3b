------------------------------- MODULE MCBus -------------------------------
(* Small instances of Bus for TLC. *)
EXTENDS Bus, TLC

CONSTANTS p1, p2, c1, c2

Symmetry == Permutations(Callers) \cup Permutations(Conns)
=============================================================================
