----------------------------- MODULE MCMatview -----------------------------
(* Small instances of Matview for TLC. *)
EXTENDS Matview, TLC

CONSTANTS m1, m2, a, b, c1, c2, admin, other, loop

\* Models and names are interchangeable; used without liveness properties only.
Symmetry == Permutations(Models) \cup Permutations(Names)
=============================================================================
