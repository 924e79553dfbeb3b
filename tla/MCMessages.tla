----------------------------- MODULE MCMessages -----------------------------
(* Constants for TLC.                                                      *)
EXTENDS Messages, TLC

CONSTANTS f1, f2

\* With a limit of 3, {} (1 byte) is sent; that of f1 (2) and that of f2 (3)
\* are accepted and, with their topic, dropped; that of both (4) is too big.
SmallAndBig == f1 :> 1 @@ f2 :> 2

Symmetry == Permutations(Uplinks) \cup Permutations(Downlinks) \cup Permutations(Conns)
=============================================================================
