---------------------------- MODULE MCBatchInput ----------------------------
(***************************************************************************)
(* The instance of BatchInput for TLC: the scheduler's, with workers.      *)
(***************************************************************************)
EXTENDS MCScheduler, BatchInput
=============================================================================
