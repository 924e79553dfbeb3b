---------------------------- MODULE MCForwarding ----------------------------
(* Small instances of Forwarding for TLC. *)
EXTENDS Forwarding, TLC

CONSTANTS v1, v2, v3

Symmetry == Permutations(DevFwd)
=============================================================================
