----------------------------- MODULE MCOversized -----------------------------
(***************************************************************************)
(* An instance of Scheduler with a request larger than the whole cache:    *)
(* nothing in add_request or in Config refuses it.                         *)
(***************************************************************************)
EXTENDS Scheduler

CONSTANTS s1, s2, s3

TwoSeqs == {s1, s2}
Nobody == {}
TwoTokens == {1, 2}
OversizedPrompts == {<<1>>, <<1, 1, 1, 1, 1, 1, 1>>}
ExactDigest(p) == p
=============================================================================
