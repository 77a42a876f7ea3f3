----------------------------- MODULE ModelRunner -----------------------------
(***************************************************************************)
(* What nanovllm/engine/model_runner.py and layers/attention.py do to the  *)
(* paged KV cache when a batch runs: the slot each computed token's key    *)
(* and value are stored in, and the slots attention then reads.            *)
(*                                                                         *)
(* The key and value of a position depend on the tokens up to it, so the   *)
(* content of a slot is that prefix.  (A value computed from a wrong read  *)
(* would itself be wrong; ReadsWritten is about the first such read.)      *)
(***************************************************************************)
EXTENDS BatchInput

CONSTANT
  QkNormRope  \* qk_norm_rope_backend, resolved: "torch" or "sm120"

ASSUME QkNormRopeAssumption == QkNormRope \in {"torch", "sm120"}

VARIABLE kv   \* k_cache and v_cache: block -> offset -> what was stored

runnerVars == <<schedVars, kv>>

-----------------------------------------------------------------------------
(* Which kernel stores the keys and values of the rows of a launch.        *)

(* Qwen3Attention.forward: a decode of one row takes the fused kernel.     *)
kv_already_stored(rows) == QkNormRope = "sm120" /\ ~is_prefill /\ rows = 1

FusedRows(rows) == IF kv_already_stored(rows) THEN 1 .. rows ELSE {}

(* Slip: attention takes the rows of every decode for stored.              *)
AttentionRowsOfPrefills(rows) ==
  IF QkNormRope = "sm120" /\ ~is_prefill THEN {} ELSE 1 .. rows

(* Attention.forward: store_kvcache, unless it is told they are stored.    *)
AttentionRows(rows) == IF kv_already_stored(rows) THEN {} ELSE 1 .. rows

StoredRows(rows) == FusedRows(rows) \cup AttentionRows(rows)

-----------------------------------------------------------------------------
(* run: the whole batch is stored before attention reads.                  *)
RunModel ==
  LET stored == {batch[i] : i \in StoredRows(Len(batch))}
  IN  kv' = [b \in Blocks |-> [o \in Offsets |->
              IF \E s \in stored : \E w \in Stores(s) : w[1] = <<b, o>>
              THEN LET s == CHOOSE s \in stored :
                              \E w \in Stores(s) : w[1] = <<b, o>>
                       w == CHOOSE w \in Stores(s) : w[1] = <<b, o>>
                   IN  Prefixed(s, w[2])
              ELSE kv[b][o]]]

RunnerInit ==
  /\ SchedInit
  /\ kv = [b \in Blocks |-> [o \in Offsets |-> <<>>]]

RunnerNext ==
  \/ Dispatch /\ RunModel
  \/ phase # "dispatch" /\ SchedNext /\ UNCHANGED kv

RunnerSpec == RunnerInit /\ [][RunnerNext]_runnerVars

-----------------------------------------------------------------------------
(* Properties.                                                             *)

(* Every slot attention reads for a sequence of the batch holds the key    *)
(* and value of that sequence's own tokens up to that position, also in    *)
(* blocks computed by others or left by an earlier owner.                  *)
ReadsWritten ==
  phase = "postprocess" =>
    \A s \in Range(batch) : \A p \in ReadPositions(s) :
      kv[TableSlot(s, p)[1]][TableSlot(s, p)[2]] = Prefixed(s, p)

(* A block with a hash, which any later request may be given, holds the    *)
(* key and value of exactly the tokens it was hashed for.                  *)
HashedBlocksWritten ==
  \A b \in Blocks : chain[b] # <<>> =>
    \A o \in Offsets :
      kv[b][o] = SubSeq(chain[b], 1, Len(chain[b]) - BlockSize + o + 1)
=============================================================================
