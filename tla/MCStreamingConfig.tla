------------------------- MODULE MCStreamingConfig -------------------------
(* Small instances of StreamingConfig for TLC. *)
EXTENDS StreamingConfig, TLC

CONSTANTS k1, k2, k3, loop, caller

Symmetry == Permutations({k1, k2, k3})
=============================================================================
