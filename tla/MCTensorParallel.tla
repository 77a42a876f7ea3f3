--------------------------- MODULE MCTensorParallel ---------------------------
(***************************************************************************)
(* The instance of TensorParallel for TLC: all values are in the .cfg.     *)
(***************************************************************************)
EXTENDS TensorParallel
=============================================================================
