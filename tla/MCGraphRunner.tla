---------------------------- MODULE MCGraphRunner ----------------------------
(***************************************************************************)
(* The instance of GraphRunner for TLC.                                    *)
(***************************************************************************)
EXTENDS GraphRunner

CONSTANTS s1, s2, s3

ThreeSeqs == {s1, s2, s3}
Nobody == {}

TwoTokens == {1, 2}
ShortPrompts == {<<1>>, <<1, 2, 1>>}
ExactDigest(p) == p
=============================================================================
