--------------------------- MODULE MCWeightLoading ---------------------------
(***************************************************************************)
(* The instance of WeightLoading for TLC: all values are in the .cfg.      *)
(***************************************************************************)
EXTENDS WeightLoading
=============================================================================
