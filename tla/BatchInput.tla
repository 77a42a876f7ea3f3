----------------------------- MODULE BatchInput -----------------------------
(***************************************************************************)
(* What nanovllm/engine/model_runner.py prepares for a batch: the tokens,  *)
(* their positions, the slots their keys and values are stored in, and how *)
(* much attention reads; on rank 0, and on a tensor-parallel worker that   *)
(* prepares the same batch from pickled sequences.                         *)
(***************************************************************************)
EXTENDS Scheduler

CONSTANT
  ClassBlockSize  \* Sequence.block_size in a worker's process

(* 16 (sequence.py:15), which config.py:29 makes the least there is, or    *)
(* the configured one.                                                     *)
ASSUME ClassBlockSizeAssumption == ClassBlockSize \in 1 .. BlockSize

Offsets == 0 .. BlockSize - 1

last_block_num_tokens(s) == Len(tok[s]) - (num_blocks(s) - 1) * BlockSize

(* Where attention finds position p (counted from 0) of s.                 *)
TableSlot(s, p) == <<table[s][(p \div BlockSize) + 1], p % BlockSize>>

(* prepare_prefill: the positions of the chunk, and their slots through    *)
(* the block table.                                                        *)
ChunkPositions(s) == numCached[s] .. numCached[s] + numScheduled[s] - 1

(* prepare_decode: the last token, in the last block of the table.         *)
DecodeSlot(s) == <<Last(table[s]), last_block_num_tokens(s) - 1>>

(* slot_mapping: the pairs of a slot and the position stored there.        *)
Stores(s) ==
  IF is_prefill
  THEN {<<TableSlot(s, p), p>> : p \in ChunkPositions(s)}
  ELSE {<<DecodeSlot(s), Len(tok[s]) - 1>>}

Prefixed(s, p) == SubSeq(tok[s], 1, p + 1)

(* The positions attention reads for s: seqlen_k, or context_lens.         *)
ReadPositions(s) ==
  0 .. (IF is_prefill THEN numCached[s] + numScheduled[s] ELSE Len(tok[s])) - 1

-----------------------------------------------------------------------------
(* A worker's sequences (Sequence.__getstate__ and __setstate__).          *)

(* prepare_prefill and prepare_decode on rank 0: token_ids by position.    *)
InputIds(s) ==
  IF is_prefill
  THEN SubSeq(tok[s], numCached[s] + 1, numCached[s] + numScheduled[s])
  ELSE <<Last(tok[s])>>

(* The tokens a pickled sequence arrives with: none once it decodes, when  *)
(* only its last token is sent.                                            *)
PickledTokens(s) == IF isPrefill[s] THEN tok[s] ELSE <<>>

(* last_token: sent, or the last of the tokens sent.                       *)
PickledLast(s) == Last(tok[s])

(* A slice of a list ends with the list.                                   *)
WorkerInputIds(s) ==
  IF is_prefill
  THEN SubSeq(PickledTokens(s), numCached[s] + 1,
              Min({numCached[s] + numScheduled[s], Len(PickledTokens(s))}))
  ELSE <<PickledLast(s)>>

(* last_block_num_tokens goes by the class's block size, the slot in a     *)
(* block by the configured one.                                            *)
WorkerDecodeSlot(s) ==
  LET n == Len(tok[s])
  IN  Last(table[s]) * BlockSize
        + n - (((n + ClassBlockSize - 1) \div ClassBlockSize) - 1)
                * ClassBlockSize - 1

FlatSlot(slot) == slot[1] * BlockSize + slot[2]

-----------------------------------------------------------------------------
(* Properties.                                                             *)

(* No two tokens of a batch are stored in the same slot.                   *)
SlotsDistinct ==
  phase = "dispatch" =>
    \A s, r \in Range(batch) : \A v \in Stores(s), w \in Stores(r) :
      v[1] = w[1] => s = r /\ v = w

(* A request that decodes in a batch prepared as a prefill.                *)
DecodesAmongPrefills(s) == is_prefill /\ ~isPrefill[s]

(* What a worker can prepare, being sent less than rank 0 has.             *)
(* - Tokens: for every sequence that is prefilled, also one that was       *)
(*   preempted while it decoded, and for every one of a decode batch, the  *)
(*   tokens rank 0 prepares.  For a decode that shares a mixed batch with  *)
(*   prefills, none, where rank 0 prepares its last token; without mixed   *)
(*   batching there is no such decode.                                     *)
(* - The slot of a decode: rank 0's, exactly when the last token has the   *)
(*   same place in a block of either size; otherwise still one of the same *)
(*   block, so that no other sequence is overwritten.                      *)
(* (Sequence.__getstate__ against prepare_prefill and prepare_decode.)     *)
WorkersPrepare ==
  phase = "dispatch" => \A s \in Range(batch) :
    LET last == Len(tok[s]) - 1
    IN  /\ ~DecodesAmongPrefills(s) => WorkerInputIds(s) = InputIds(s)
        /\ DecodesAmongPrefills(s) =>
             Mixed /\ WorkerInputIds(s) = <<>> /\ InputIds(s) = <<Last(tok[s])>>
        /\ ~is_prefill =>
             /\ WorkerDecodeSlot(s) = FlatSlot(DecodeSlot(s))
                  <=> last % ClassBlockSize = last % BlockSize
             /\ WorkerDecodeSlot(s) \div BlockSize = Last(table[s])
=============================================================================
