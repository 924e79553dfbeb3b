--------------------------- MODULE MCScriptStore ---------------------------
(* A small instance of ScriptStore for TLC. *)
EXTENDS ScriptStore, TLC

CONSTANTS b1, b2, b3
\* A body with a program is its own hash; b2 has none.
MCSha == [b \in Bodies |-> IF b = b2 THEN None ELSE b]
Symmetry == Permutations(Requests)
=============================================================================
