------------------------------ MODULE Scheduler ------------------------------
(***************************************************************************)
(* nanovllm/engine/scheduler.py over the block manager, driven as          *)
(* LLMEngine.step does: schedule() builds a batch of decodes and prefill   *)
(* chunks, the model runs it, postprocess() applies the sampled tokens.    *)
(*                                                                         *)
(* The program is one thread; phase is the program counter inside step().  *)
(* One action is one iteration of a loop of schedule() or postprocess(),   *)
(* so that every state a loop body can see is a state of the model.        *)
(* Requests arrive between two steps.  The effects on the cache are        *)
(* BlockManager's operations without their guards: that the guards hold    *)
(* when the scheduler calls is what the property Spec (BlockManager's      *)
(* specification) says of this module.                                     *)
(***************************************************************************)
EXTENDS BlockManager

CONSTANTS
  MaxNumSeqs,        \* max_num_seqs
  MaxBatchedTokens,  \* max_num_batched_tokens
  MaxChunk,          \* max_prefill_chunk_size
  Mixed,             \* enable_mixed_batching
  Eos,               \* the end-of-sequence token
  IgnoreEos          \* the sequences with SamplingParams.ignore_eos

ASSUME MaxNumSeqsAssumption == MaxNumSeqs \in Nat \ {0}
ASSUME MaxBatchedTokensAssumption == MaxBatchedTokens \in Nat \ {0}
ASSUME MaxChunkAssumption == MaxChunk \in Nat \ {0}
ASSUME MixedAssumption == Mixed \in BOOLEAN
ASSUME IgnoreEosAssumption == IgnoreEos \subseteq Seqs

VARIABLES
  waiting,        \* Scheduler.waiting
  running,        \* Scheduler.running
  status,         \* Sequence.status, "NONE" before the request exists
  isPrefill,      \* Sequence.is_prefill
  numScheduled,   \* Sequence.num_scheduled_tokens
  phase,          \* where step() is
  batch,          \* scheduled_seqs; what is left of it in postprocess()
  todo,           \* iterations left of the loop over waiting
  decodeTokens,   \* decode_tokens of the batch
  prefillTokens   \* prefill_tokens of the batch

queueVars == <<waiting, running, status, isPrefill>>
batchVars == <<numScheduled, batch, todo, decodeTokens, prefillTokens>>
schedVars == <<vars, waiting, running, status, isPrefill, numScheduled,
               phase, batch, todo, decodeTokens, prefillTokens>>

-----------------------------------------------------------------------------
(* LLMEngine                                                               *)

AddRequest(s, p) ==
  /\ phase = "idle"
  /\ tok[s] = <<>>
  /\ NewSequence(s, p)
  /\ status' = [status EXCEPT ![s] = "WAITING"]
  /\ waiting' = Append(waiting, s)
  /\ UNCHANGED <<running, isPrefill, phase, batchVars>>

(* generate's loop calls step() while a sequence waits or runs.            *)
StartStep ==
  /\ phase = "idle"
  /\ waiting # <<>> \/ running # <<>>
  /\ phase' = IF Mixed THEN "decode" ELSE "prefill"
  /\ batch' = <<>>
  /\ todo' = Len(waiting)
  /\ decodeTokens' = 0
  /\ prefillTokens' = 0
  /\ UNCHANGED <<vars, queueVars, numScheduled>>

-----------------------------------------------------------------------------
(* _schedule_decode                                                        *)

DecodeMayTakeMore ==
  /\ phase = "decode"
  /\ Len(batch) < MaxNumSeqs
  /\ running # <<>>

(* Slip: the preempted sequence stays RUNNING.                             *)
PreemptStatusKept(s) ==
  /\ Deallocate(s)
  /\ UNCHANGED <<chain, hashToBlock, tok, numPrompt, status>>
  /\ isPrefill' = [isPrefill EXCEPT ![s] = TRUE]
  /\ waiting' = <<s>> \o waiting

(* Slip: the preempted sequence still counts as one that decodes.          *)
PreemptStillDecoding(s) ==
  /\ Deallocate(s)
  /\ UNCHANGED <<chain, hashToBlock, tok, numPrompt, isPrefill>>
  /\ status' = [status EXCEPT ![s] = "WAITING"]
  /\ waiting' = <<s>> \o waiting

(* preempt(s), the queue it was taken from excepted.                       *)
Preempt(s) ==
  /\ Deallocate(s)
  /\ UNCHANGED <<chain, hashToBlock, tok, numPrompt>>
  /\ status' = [status EXCEPT ![s] = "WAITING"]
  /\ isPrefill' = [isPrefill EXCEPT ![s] = TRUE]
  /\ waiting' = <<s>> \o waiting

(* Slip: a sequence already in the batch is the victim.                    *)
PreemptScheduled ==
  /\ DecodeMayTakeMore
  /\ ~CanAppend(Head(running))
  /\ IF batch # <<>>
     THEN Preempt(Last(batch)) /\ UNCHANGED running
     ELSE Preempt(Last(running)) /\ running' = Front(running)
  /\ UNCHANGED <<phase, batchVars>>

(* The sequence to decode next lacks a block: the last running one goes,   *)
(* and when no other is left the sequence itself.                          *)
PreemptLast ==
  /\ DecodeMayTakeMore
  /\ ~CanAppend(Head(running))
  /\ Preempt(Last(running))
  /\ running' = Front(running)
  /\ UNCHANGED <<phase, batchVars>>

ScheduleDecode ==
  /\ DecodeMayTakeMore
  /\ LET s == Head(running)
     IN  /\ CanAppend(s)
         /\ MayAppend(s)
         /\ numScheduled' = [numScheduled EXCEPT ![s] = 1]
         /\ isPrefill' = [isPrefill EXCEPT ![s] = FALSE]
         /\ batch' = Append(batch, s)
         /\ running' = Tail(running)
         /\ decodeTokens' = decodeTokens + 1
  /\ UNCHANGED <<waiting, status, phase, todo, prefillTokens>>

(* Slip: the scheduled sequences are not put back into running.            *)
DecodeDoneForgets ==
  /\ phase = "decode"
  /\ ~DecodeMayTakeMore
  /\ phase' = IF Mixed THEN "prefill" ELSE "dispatch"
  /\ todo' = Len(waiting)
  /\ UNCHANGED <<vars, queueVars, numScheduled, batch, decodeTokens, prefillTokens>>

DecodeDone ==
  /\ phase = "decode"
  /\ ~DecodeMayTakeMore
  /\ running' = running \o batch
  /\ phase' = IF Mixed THEN "prefill" ELSE "dispatch"
  /\ todo' = Len(waiting)
  /\ UNCHANGED <<vars, waiting, status, isPrefill,
                 numScheduled, batch, decodeTokens, prefillTokens>>

-----------------------------------------------------------------------------
(* _schedule_prefill                                                       *)

(* Slip: the decodes of a mixed batch are not counted.                     *)
remainingForPrefills == MaxBatchedTokens - prefillTokens

remaining == MaxBatchedTokens - decodeTokens - prefillTokens

PrefillMayTakeMore ==
  /\ phase = "prefill"
  /\ todo > 0
  /\ Len(batch) < MaxNumSeqs
  /\ remaining > 0

(* Slip: the first request without blocks ends the loop.                   *)
PrefillRejectBreaks ==
  /\ PrefillMayTakeMore
  /\ LET s == Head(waiting)
     IN  /\ table[s] = <<>>
         /\ \E c \in 0 .. num_blocks(s) - 1 :
              CachedBlocks(s, c) /\ ~CanAllocate(s, c) /\ RejectedLookup(s, c)
         /\ waiting' = Append(Tail(waiting), s)
  /\ todo' = 0
  /\ UNCHANGED <<running, status, isPrefill, phase,
                 numScheduled, batch, decodeTokens, prefillTokens>>

(* Slip: a request without blocks is not put back into the queue.          *)
PrefillRejectDrops ==
  /\ PrefillMayTakeMore
  /\ LET s == Head(waiting)
     IN  /\ table[s] = <<>>
         /\ \E c \in 0 .. num_blocks(s) - 1 :
              CachedBlocks(s, c) /\ ~CanAllocate(s, c) /\ RejectedLookup(s, c)
         /\ waiting' = Tail(waiting)
  /\ todo' = todo - 1
  /\ UNCHANGED <<running, status, isPrefill, phase,
                 numScheduled, batch, decodeTokens, prefillTokens>>

(* No blocks for it: to the end of the queue.                              *)
PrefillReject ==
  /\ PrefillMayTakeMore
  /\ LET s == Head(waiting)
     IN  /\ table[s] = <<>>
         /\ \E c \in 0 .. num_blocks(s) - 1 :
              CachedBlocks(s, c) /\ ~CanAllocate(s, c) /\ RejectedLookup(s, c)
         /\ waiting' = Append(Tail(waiting), s)
  /\ todo' = todo - 1
  /\ UNCHANGED <<running, status, isPrefill, phase,
                 numScheduled, batch, decodeTokens, prefillTokens>>

(* Slip: a preempted sequence has no more to compute than its prompt.      *)
PromptChunk(s, done) == Min({numPrompt[s] - done, remaining, MaxChunk})

ChunkSize(s, done) == Min({Len(tok[s]) - done, remaining, MaxChunk})

(* A chunk of s after its first done tokens: a sequence whose last chunk   *)
(* it is runs from now on, the others wait for their next turn.            *)
ScheduleChunk(s, done) ==
  LET chunk == ChunkSize(s, done)
  IN  /\ numScheduled' = [numScheduled EXCEPT ![s] = chunk]
      /\ prefillTokens' = prefillTokens + chunk
      /\ batch' = Append(batch, s)
      /\ IF done + chunk = Len(tok[s])
         THEN /\ status' = [status EXCEPT ![s] = "RUNNING"]
              /\ running' = Append(running, s)
              /\ waiting' = Tail(waiting)
         ELSE /\ waiting' = Append(Tail(waiting), s)
              /\ UNCHANGED <<status, running>>
      /\ todo' = todo - 1
      /\ UNCHANGED <<isPrefill, phase, decodeTokens>>

PrefillAdmit ==
  /\ PrefillMayTakeMore
  /\ LET s == Head(waiting)
     IN  /\ table[s] = <<>>
         /\ \E c \in 0 .. num_blocks(s) - 1 :
              /\ CachedBlocks(s, c)
              /\ CanAllocate(s, c)
              /\ Allocate(s, c)
              /\ ScheduleChunk(s, c * BlockSize)

PrefillContinue ==
  /\ PrefillMayTakeMore
  /\ LET s == Head(waiting)
     IN  /\ table[s] # <<>>
         /\ ScheduleChunk(s, numCached[s])
  /\ UNCHANGED vars

(* Slip: the step ends although nothing could be prefilled.                *)
PrefillDoneNoDecode ==
  /\ phase = "prefill"
  /\ ~PrefillMayTakeMore
  /\ phase' = "dispatch"
  /\ UNCHANGED <<vars, queueVars, batchVars>>

(* Without mixed batching decodes are for a step with nothing to prefill.  *)
PrefillDone ==
  /\ phase = "prefill"
  /\ ~PrefillMayTakeMore
  /\ phase' = IF Mixed \/ prefillTokens > 0 THEN "dispatch" ELSE "decode"
  /\ UNCHANGED <<vars, queueVars, batchVars>>

-----------------------------------------------------------------------------
(* The end of schedule() and the model                                     *)

(* assert scheduled_seqs; the model then computes the batch.               *)
Dispatch ==
  /\ phase = "dispatch"
  /\ phase' = IF batch # <<>> THEN "postprocess" ELSE "failed"
  /\ UNCHANGED <<vars, queueVars, batchVars>>

-----------------------------------------------------------------------------
(* postprocess: one sequence of the batch after the other                  *)

is_prefill == prefillTokens > 0

(* Slip: every chunk yields a token.                                       *)
NeverMorePrompt(s) == FALSE

(* After its scheduled tokens some of the prompt is still to do.           *)
MorePrompt(s) == is_prefill /\ numCached[s] + numScheduled[s] < Len(tok[s])

(* Slip: one token more than max_tokens.                                   *)
FinishesLate(s, t) ==
  \/ s \notin IgnoreEos /\ t = Eos
  \/ num_completion_tokens(s) = MaxTokens

Finishes(s, t) ==
  \/ s \notin IgnoreEos /\ t = Eos
  \/ num_completion_tokens(s) + 1 = MaxTokens

Postprocessed(s) ==
  /\ batch' = Tail(batch)
  /\ numScheduled' = [numScheduled EXCEPT ![s] = 0]
  /\ UNCHANGED <<waiting, isPrefill, phase, todo, decodeTokens, prefillTokens>>

PostprocessChunk ==
  /\ phase = "postprocess" /\ batch # <<>>
  /\ LET s == Head(batch)
     IN  /\ MorePrompt(s)
         /\ ComputeChunk(s, numScheduled[s])
         /\ Postprocessed(s)
  /\ UNCHANGED <<running, status>>

PostprocessToken(t) ==
  /\ phase = "postprocess" /\ batch # <<>>
  /\ LET s == Head(batch)
     IN  /\ ~MorePrompt(s)
         /\ ~Finishes(s, t)
         /\ ComputeToken(s, numScheduled[s], t)
         /\ Postprocessed(s)
  /\ UNCHANGED <<running, status>>

(* Slip: a finished sequence keeps its blocks.                             *)
PostprocessLastLeaks(t) ==
  /\ phase = "postprocess" /\ batch # <<>>
  /\ LET s == Head(batch)
     IN  /\ ~MorePrompt(s)
         /\ Finishes(s, t)
         /\ ComputeToken(s, numScheduled[s], t)
         /\ status' = [status EXCEPT ![s] = "FINISHED"]
         /\ running' = Without(running, {s})
         /\ Postprocessed(s)

PostprocessLast(t) ==
  /\ phase = "postprocess" /\ batch # <<>>
  /\ LET s == Head(batch)
     IN  /\ ~MorePrompt(s)
         /\ Finishes(s, t)
         /\ ComputeLast(s, numScheduled[s], t)
         /\ status' = [status EXCEPT ![s] = "FINISHED"]
         /\ running' = Without(running, {s})
         /\ Postprocessed(s)

EndStep ==
  /\ phase = "postprocess" /\ batch = <<>>
  /\ phase' = "idle"
  /\ UNCHANGED <<vars, queueVars, batchVars>>

-----------------------------------------------------------------------------
SchedInit ==
  /\ Init
  /\ waiting = <<>>
  /\ running = <<>>
  /\ status = [s \in Seqs |-> "NONE"]
  /\ isPrefill = [s \in Seqs |-> TRUE]
  /\ numScheduled = [s \in Seqs |-> 0]
  /\ phase = "idle"
  /\ batch = <<>>
  /\ todo = 0
  /\ decodeTokens = 0
  /\ prefillTokens = 0

Step ==
  \/ StartStep
  \/ PreemptLast \/ ScheduleDecode \/ DecodeDone
  \/ PrefillReject \/ PrefillAdmit \/ PrefillContinue \/ PrefillDone
  \/ Dispatch
  \/ PostprocessChunk
  \/ \E t \in Tokens : PostprocessToken(t) \/ PostprocessLast(t)
  \/ EndStep

SchedNext ==
  \/ \E s \in Seqs, p \in Prompts : AddRequest(s, p)
  \/ Step

SchedSpec == SchedInit /\ [][SchedNext]_schedVars

(* The caller keeps calling step() while there is work, and step() runs to *)
(* its end; nobody need send another request.                              *)
FairSpec == SchedSpec /\ WF_schedVars(Step)

-----------------------------------------------------------------------------
(* Properties.                                                             *)

(* The scheduler's variables have their types.                             *)
SchedTypeOK ==
  /\ waiting \in Seq(Seqs)
  /\ running \in Seq(Seqs)
  /\ status \in [Seqs -> {"NONE", "WAITING", "RUNNING", "FINISHED"}]
  /\ isPrefill \in [Seqs -> BOOLEAN]
  /\ numScheduled \in [Seqs -> Nat]
  /\ phase \in {"idle", "decode", "prefill", "dispatch", "postprocess", "failed"}
  /\ batch \in Seq(Seqs)
  /\ todo \in Nat
  /\ decodeTokens \in Nat
  /\ prefillTokens \in Nat

(* In _schedule_decode the sequences already taken are in neither deque.   *)
allRunning == IF phase = "decode" THEN running \o batch ELSE running

(* Every unfinished request is in exactly one of the deques, once, and in  *)
(* the one its status says: preemption, rejection, rotation and finishing  *)
(* neither lose nor duplicate a request, and running.remove finds its      *)
(* sequence.                                                               *)
QueuesExact ==
  /\ IsInjective(waiting) /\ IsInjective(allRunning)
  /\ Range(waiting) = {s \in Seqs : status[s] = "WAITING"}
  /\ Range(allRunning) = {s \in Seqs : status[s] = "RUNNING"}

(* A scheduled sequence is scheduled once and keeps, until it is           *)
(* postprocessed, blocks for every token the model will write: nothing     *)
(* done for a later sequence of the batch preempts it or takes a block.    *)
ScheduledHaveRoom ==
  phase \in {"decode", "prefill", "dispatch", "postprocess"} =>
    /\ IsInjective(batch)
    /\ \A s \in Range(batch) :
         /\ numScheduled[s] > 0
         /\ HasRoom(s, numScheduled[s])
         /\ table[s] # <<>>

(* The sequences outside a batch are where the next step expects them: a   *)
(* running one has exactly one token that was not computed, a waiting one  *)
(* with blocks is in the middle of its prompt and has blocks for all of    *)
(* it.                                                                     *)
BetweenBatches ==
  \A s \in Seqs : s \notin Range(batch) =>
    /\ status[s] = "RUNNING" => numCached[s] + 1 = Len(tok[s]) /\ table[s] # <<>>
    /\ status[s] = "WAITING" /\ table[s] # <<>> =>
         numCached[s] < Len(tok[s]) /\ num_blocks(s) <= Len(table[s])

(* Blocks are held by queued requests only: a finished one leaves none     *)
(* behind, so an idle engine has its whole cache free.                     *)
OnlyQueuedHoldBlocks ==
  \A s \in Seqs : table[s] # <<>> => status[s] \in {"WAITING", "RUNNING"}

(* A batch keeps to max_num_seqs; one with a prefill chunk, decodes        *)
(* included, keeps to max_num_batched_tokens.                              *)
BatchBudget ==
  /\ Len(batch) <= MaxNumSeqs
  /\ prefillTokens > 0 => decodeTokens + prefillTokens <= MaxBatchedTokens

(* schedule()'s assertion on scheduled_seqs: while requests are left, one  *)
(* of them can be scheduled, however the cache is divided among them.      *)
NoStall == phase # "failed"

(* With reserve_decode_kv a running sequence is never preempted.           *)
NoPreemption ==
  \A s \in Seqs : status[s] = "RUNNING" => status'[s] # "WAITING"

ReserveNeverPreempts == [][NoPreemption]_schedVars

(* Every request finishes, whatever is preempted and recomputed on the way.*)
RequestsFinish ==
  \A s \in Seqs : status[s] = "WAITING" ~> status[s] = "FINISHED"
=============================================================================
