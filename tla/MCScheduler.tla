----------------------------- MODULE MCScheduler -----------------------------
(***************************************************************************)
(* Instances of Scheduler for TLC.  Every prompt fits the cache alone;     *)
(* MCOversized drops that.                                                 *)
(***************************************************************************)
EXTENDS Scheduler

CONSTANTS s1, s2, s3

TwoSeqs == {s1, s2}
ThreeSeqs == {s1, s2, s3}
Nobody == {}
OnlyS1 == {s1}

TwoTokens == {1, 2}

(* Prompts that share a first block, and end inside a block or at its end. *)
MixedPrompts == {<<1>>, <<1, 1, 2, 1>>}
TightPrompts == {<<1>>, <<1, 2, 1>>}

ExactDigest(p) == p

(* The most blocks a request asks for: with reserve_decode_kv all of them  *)
(* at once, otherwise the last token is never computed.                    *)
Footprint(p) ==
  IF Reserve THEN BlocksFor(Len(p) + MaxTokens)
  ELSE BlocksFor(Len(p) + MaxTokens - 1)

ASSUME \A p \in Prompts : Footprint(p) <= NumBlocks
=============================================================================
