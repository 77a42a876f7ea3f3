------------------------------- MODULE MCEngine -------------------------------
(***************************************************************************)
(* The instance of Engine for TLC.                                         *)
(***************************************************************************)
EXTENDS Engine

ThreeSeqs == 1 .. 3
Nobody == {}

TwoTokens == {1, 2}
MixedPrompts == {<<1>>, <<1, 1, 1, 1>>}
ExactDigest(p) == p
=============================================================================
