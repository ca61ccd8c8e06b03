------------------------------ MODULE MCVerify ------------------------------
(* Model checking of Verify: the batches and the bounds of its runs. *)
EXTENDS Verify
CONSTANTS t1, ghost, q1, q2, worker, loop

MCBatches == <<<<t1, ghost, t1>>, <<ghost>>>>
MCCounts == 0..1
=============================================================================
