--------------------------- MODULE MCFullReload ---------------------------
(* Small instances of FullReload for TLC. *)
EXTENDS FullReload, TLC

CONSTANTS r1, r2, loop, caller, x1, x2, x3

Symmetry == Permutations({r1, r2}) \cup Permutations({x1, x2, x3})
=============================================================================
