----------------------------- MODULE MCRegistry -----------------------------
(* Small instances of Registry for TLC. *)
EXTENDS Registry, TLC

CONSTANTS r1, r2, r3, s1, s2

Symmetry == Permutations(Requests) \cup Permutations(Scripts)
=============================================================================
