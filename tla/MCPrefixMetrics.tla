---------------------------- MODULE MCPrefixMetrics ----------------------------
(***************************************************************************)
(* The instance of PrefixMetrics for TLC: prompts that share a block, and  *)
(* a cache too small for two of them.                                      *)
(***************************************************************************)
EXTENDS PrefixMetrics

CONSTANTS s1, s2

TwoSeqs == {s1, s2}
Nobody == {}

OneToken == {1}
LongPrompts == {<<1, 1, 1, 1, 1>>}
ExactDigest(p) == p
=============================================================================
