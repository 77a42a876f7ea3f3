---------------------------- MODULE PrefixMetrics ----------------------------
(***************************************************************************)
(* metrics["token_hits"] of nanovllm/engine/block_manager.py, which        *)
(* can_allocate counts, beside the tokens of prefill the prefix cache has  *)
(* saved.                                                                  *)
(***************************************************************************)
EXTENDS Scheduler

VARIABLES
  token_hits,  \* metrics["token_hits"]
  saved        \* history: tokens that were found cached when admitted

(* can_allocate counts the hits of a lookup that allocate then uses.       *)
CountedAdmission ==
  /\ PrefillAdmit
  /\ LET s == Head(waiting)
     IN  /\ token_hits' = token_hits + numCached'[s]
         /\ saved' = saved + numCached'[s]

(* It has counted them, too, when it returns -1.                           *)
CountedRejection ==
  /\ PrefillReject
  /\ \E c \in 0 .. num_blocks(Head(waiting)) - 1 :
       /\ CachedBlocks(Head(waiting), c)
       /\ token_hits' = token_hits + c * BlockSize
  /\ UNCHANGED saved

NotCounted ==
  /\ SchedNext
  /\ ~PrefillAdmit /\ ~PrefillReject
  /\ UNCHANGED <<token_hits, saved>>

MetricsInit == SchedInit /\ token_hits = 0 /\ saved = 0

MetricsNext == CountedAdmission \/ CountedRejection \/ NotCounted

MetricsSpec == MetricsInit /\ [][MetricsNext]_<<schedVars, token_hits, saved>>

-----------------------------------------------------------------------------
(* The prefix cache records the prefill tokens it saves: a hit that is     *)
(* counted is a token that need not be computed.                           *)
HitsAreSaved == token_hits = saved
=============================================================================
