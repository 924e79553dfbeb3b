------------------------------ MODULE MCDeploy ------------------------------
(* Small instances of Deploy for TLC. *)
EXTENDS Deploy, TLC

CONSTANTS v1, v2, s1, s2
MCSize == [v \in Versions |-> IF v = v2 THEN 2 ELSE 1]
OneChunk == [v \in Versions |-> 1]

\* A call of syncScript is told from another by what it is for only.
Symmetry == Permutations(Slots)
=============================================================================
