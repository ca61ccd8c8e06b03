---------------------------- MODULE MCStreaming ----------------------------
(* Small instances of Streaming for TLC. *)
EXTENDS Streaming, TLC

CONSTANTS k1, k2, k3, loop, caller

ThreeKeys == {k1, k2, k3}
Symmetry == Permutations(ThreeKeys)
=============================================================================
