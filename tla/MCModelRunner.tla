---------------------------- MODULE MCModelRunner ----------------------------
(***************************************************************************)
(* The instance of ModelRunner for TLC.                                    *)
(***************************************************************************)
EXTENDS ModelRunner

CONSTANTS s1, s2, s3

TwoSeqs == {s1, s2}
Nobody == {}

TwoTokens == {1, 2}
MixedPrompts == {<<1>>, <<1, 1, 2, 1>>}
ExactDigest(p) == p
=============================================================================
