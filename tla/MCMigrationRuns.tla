-------------------------- MODULE MCMigrationRuns --------------------------
(* Small instances of MigrationRuns for TLC. *)
EXTENDS MigrationRuns

CONSTANTS r1, r2, r3, a1, a2
=============================================================================
