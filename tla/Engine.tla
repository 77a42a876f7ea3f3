-------------------------------- MODULE Engine --------------------------------
(***************************************************************************)
(* nanovllm/engine/llm_engine.py over the scheduler: generate adds its     *)
(* prompts, perhaps in another order, steps until nothing waits or runs,   *)
(* and returns the completions in the order of the prompts.  Between two   *)
(* calls of generate a client may use add_request and step by itself, as   *)
(* benchmarks/e2e/online_batching.py does.                                 *)
(*                                                                         *)
(* Seqs are the numbers Sequence.counter gives out.  The tokenizer and the *)
(* metrics are left out.                                                   *)
(***************************************************************************)
EXTENDS Scheduler

CONSTANT
  PrefixReorderTokens  \* prefix_reorder_tokens

ASSUME SeqIdsAssumption == Seqs = 1 .. Cardinality(Seqs)
ASSUME PrefixReorderAssumption == PrefixReorderTokens \in Nat
ASSUME TokenIdsAssumption == Tokens \subseteq Nat

VARIABLES
  prompts,       \* encoded_prompts of the generate call in progress, or <<>>
  order,         \* the indices of prompts still to add
  sequence_ids,  \* index of a prompt -> its request, 0 before it is added
  stepSeqs,      \* seqs in step()
  outputs,       \* request -> the completions step() returned for it
  results        \* what the last call of generate returned

generateVars == <<prompts, order, sequence_ids>>
engineVars == <<schedVars, generateVars, stepSeqs, outputs, results>>

completion_token_ids(s) == SubSeq(tok[s], numPrompt[s] + 1, Len(tok[s]))

(* Sequence.counter                                                        *)
next_id == Cardinality({s \in Seqs : tok[s] # <<>>}) + 1

-----------------------------------------------------------------------------
(* The order of addition.                                                  *)

PromptPrefix(p) == SubSeq(p, 1, Min({PrefixReorderTokens, Len(p)}))

(* The order of tuples.                                                    *)
LexLess(a, b) ==
  \E n \in 0 .. Min({Len(a), Len(b)}) :
    /\ \A k \in 1 .. n : a[k] = b[k]
    /\ \/ n = Len(a) /\ n < Len(b)
       \/ n < Len(a) /\ n < Len(b) /\ a[n + 1] < b[n + 1]

(* The key of order.sort: the prefix, then the index.                      *)
ComesBefore(ps, i, j) ==
  \/ LexLess(PromptPrefix(ps[i]), PromptPrefix(ps[j]))
  \/ PromptPrefix(ps[i]) = PromptPrefix(ps[j]) /\ i < j

(* Sorted, the k-th index is the one with k - 1 before it.                 *)
ReorderedByPrefix(ps) ==
  [k \in DOMAIN ps |->
     CHOOSE i \in DOMAIN ps :
       Cardinality({j \in DOMAIN ps : ComesBefore(ps, j, i)}) = k - 1]

-----------------------------------------------------------------------------
(* A client's calls                                                        *)

InGenerate == prompts # <<>>

Generate(ps, reorder_by_prefix) ==
  /\ phase = "idle"
  /\ ~InGenerate
  /\ next_id + Len(ps) <= Cardinality(Seqs) + 1
  /\ prompts' = ps
  /\ order' = IF reorder_by_prefix THEN ReorderedByPrefix(ps)
              ELSE [i \in DOMAIN ps |-> i]
  /\ sequence_ids' = [i \in DOMAIN ps |-> 0]
  /\ UNCHANGED <<schedVars, stepSeqs, outputs, results>>

(* add_request, outside of generate.                                       *)
OnlineRequest(p) ==
  /\ ~InGenerate
  /\ next_id \in Seqs
  /\ AddRequest(next_id, p)
  /\ UNCHANGED <<generateVars, stepSeqs, outputs, results>>

-----------------------------------------------------------------------------
(* generate                                                                *)

AddPrompt ==
  /\ order # <<>>
  /\ LET i == Head(order)
     IN  /\ AddRequest(next_id, prompts[i])
         /\ sequence_ids' = [sequence_ids EXCEPT ![i] = next_id]
  /\ order' = Tail(order)
  /\ UNCHANGED <<prompts, stepSeqs, outputs, results>>

(* Slip: the completions in the order their requests were added.           *)
ReturnInAddedOrder ==
  /\ InGenerate /\ order = <<>>
  /\ phase = "idle" /\ waiting = <<>> /\ running = <<>>
  /\ results' = LET ids == SetToSortSeq(Range(sequence_ids), <)
                IN  [i \in DOMAIN prompts |-> Last(outputs[ids[i]])]
  /\ prompts' = <<>>
  /\ sequence_ids' = <<>>
  /\ UNCHANGED <<schedVars, order, stepSeqs, outputs>>

(* is_finished ends the loop.  A prompt without an output is a KeyError.   *)
ReturnResults ==
  /\ InGenerate /\ order = <<>>
  /\ phase = "idle" /\ waiting = <<>> /\ running = <<>>
  /\ \A i \in DOMAIN prompts : outputs[sequence_ids[i]] # <<>>
  /\ results' = [i \in DOMAIN prompts |-> Last(outputs[sequence_ids[i]])]
  /\ prompts' = <<>>
  /\ sequence_ids' = <<>>
  /\ UNCHANGED <<schedVars, order, stepSeqs, outputs>>

-----------------------------------------------------------------------------
(* step: the scheduler's steps, with what schedule() returned and what is  *)
(* returned of it.                                                         *)

StepOutputs ==
  outputs' = [s \in Seqs |-> IF s \in Range(stepSeqs) /\ status[s] = "FINISHED"
                             THEN Append(outputs[s], completion_token_ids(s))
                             ELSE outputs[s]]

EngineStep ==
  /\ order = <<>>
  /\ \/ Dispatch /\ stepSeqs' = batch /\ UNCHANGED outputs
     \/ EndStep /\ StepOutputs /\ stepSeqs' = <<>>
     \/ phase \notin {"dispatch", "failed"} /\ ~(phase = "postprocess" /\ batch = <<>>)
        /\ Step /\ UNCHANGED <<stepSeqs, outputs>>
  /\ UNCHANGED <<generateVars, results>>

EngineInit ==
  /\ SchedInit
  /\ prompts = <<>>
  /\ order = <<>>
  /\ sequence_ids = <<>>
  /\ stepSeqs = <<>>
  /\ outputs = [s \in Seqs |-> <<>>]
  /\ results = <<>>

EngineNext ==
  \/ \E n \in 1 .. Cardinality(Seqs) : \E ps \in [1 .. n -> Prompts] :
       \E reorder \in BOOLEAN : Generate(ps, reorder)
  \/ \E p \in Prompts : OnlineRequest(p)
  \/ AddPrompt
  \/ EngineStep
  \/ ReturnResults

(* generate runs to its end, and a client keeps calling step while there   *)
(* is work; nobody need call anything else.                                *)
EngineSpec ==
  /\ EngineInit /\ [][EngineNext]_engineVars
  /\ WF_engineVars(AddPrompt \/ EngineStep \/ ReturnResults)

-----------------------------------------------------------------------------
(* Properties.                                                             *)

(* The engine answers requests: whatever is chunked, rejected, preempted   *)
(* or recomputed on the way, every request gets a complete completion,     *)
(* which one call of step() returns, once, to whoever called step; and     *)
(* generate ends and returns each of its prompts' own, also when it added  *)
(* them in another order or found requests of others queued (whose         *)
(* completions, if its own steps return them, it drops:                    *)
(* llm_engine.py:124-128).                                                 *)
Service == INSTANCE RequestService
  WITH Requests <- Seqs, Vocabulary <- Tokens, MaxLength <- MaxTokens,
       Stop <- Eos, NeverStopped <- IgnoreEos,
       asked <- {s \in Seqs : tok[s] # <<>>},
       said <- [s \in Seqs |-> completion_token_ids(s)],
       given <- outputs,
       called <- IF order = <<>> THEN sequence_ids ELSE <<>>

ServiceSpec == Service!ServiceSpec
=============================================================================
