---------------------------- MODULE MCAssignment ----------------------------
(* A small instance of Assignment for TLC.                                 *)
EXTENDS Assignment, TLC

CONSTANTS b1, b2, b3

\* The sha index is no part of this: it is as if no body had a program.
NoSha == [b \in Bodies |-> None]

Symmetry == Permutations(Requests) \cup Permutations(Bodies \ Oversize)
=============================================================================
