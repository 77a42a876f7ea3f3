# Verification of nano-vllm-sm120-optimized

TLA+ models of the inference engine in `src/nanovllm`: the scheduler, the paged
KV cache with its prefix cache, the batches and CUDA graphs of the model runner,
the processes of a tensor-parallel engine, the loading of cut weights, and the
request loop on top; TLC configurations that check them on small instances; and
TLAPS proofs, for every instance, of the safety properties: of the KV cache, the
scheduler, the batches and graphs, the tensor-parallel protocol, the loaded weights
and the answers a client gets.

To repeat the checks, in this directory:

    tlc -config BlockManagerLru.cfg MCBlockManager     # and the other .cfg files
    tlapm DequeProofs.tla
    tlapm BlockManagerProofs.tla                       # and SchedulerProofs, EngineProofs,
                                                       # ModelRunnerProofs, GraphRunnerProofs,
                                                       # TensorParallelProofs, WeightLoadingProofs

`PROJECT.json` lists which module models which lines, every run, every mutated
definition with the property that notices it, and the hazards of the code.

## 1. The system

One process drives everything (`LLMEngine`); with `tensor_parallel_size > 1`
further processes run the same model calls on their share of the weights.

| Component | State | Operations | Talks to |
|---|---|---|---|
| `LLMEngine` (`llm_engine.py`) | scheduler, runner, worker processes | `add_request`, `step`, `generate`, `exit` | calls the other two in turn; nothing overlaps |
| `Scheduler` (`scheduler.py`) | `waiting`, `running`, metrics | `add`, `schedule`, `preempt`, `postprocess`, `is_finished` | calls the block manager, mutates sequences |
| `BlockManager` (`block_manager.py`) | `blocks` (ref count, hash, token ids), `hash_to_block_id`, `free_block_ids`, `used_block_ids`, metrics | `can_allocate`, `allocate`, `can_append`, `may_append`, `deallocate`, `hash_blocks` | writes the sequences' `block_table`, `num_cached_tokens` |
| `Sequence` (`sequence.py`) | tokens, status, counts, `block_table` | sizes, `block(i)`, `append_token`, pickling | shared by all of the above |
| `ModelRunner` (`model_runner.py`) | KV cache tensor, captured graphs, shared memory | `prepare_prefill`, `prepare_decode`, `run`, `capture_cudagraph`, `call`/`loop` | reads sequences, writes the context |
| Context, `Attention` (`context.py`, `attention.py`) | the metadata of the current batch | KV store, paged attention | reads and writes the KV cache by slot |
| `FlashInferRuntime` (`flashinfer_backend.py`) | plans, workspaces, per-bucket wrappers | `plan`, `run` | cached by context object |
| TP workers (`ModelRunner.loop`) | event, shared buffer | `read_shm`, `write_shm`, collectives | main process |
| Layers, loader, model, sampler | weights | numerical kernels, shard arithmetic | - |

How the pieces interact in one `step()`: `schedule()` builds a batch of decodes
(one token each) and prefill chunks, growing and freeing blocks as it goes; the
runner writes the keys and values of the batch into the slots of the block
tables and samples one token per sequence; `postprocess()` hashes the blocks
that became full, appends the token or drops it (a chunk in the middle of a
prompt), and finishes sequences. Requests are added between steps.

What makes it hard:

- *Position and value in one deque.* `free_block_ids` is a queue, an LRU list
  and a set at once; blocks leave it from the front (eviction), from the middle
  (a hit on a free block) and come back at the end, while `ref_count`,
  `used_block_ids` and `hash_to_block_id` must follow.
- *Free blocks remember.* A freed block stays findable by its hash until it is
  evicted; meanwhile another block may have taken its entry.
- *Reuse on trust.* A hit compares the hash of the whole prefix but the tokens
  of the last block only.
- *The batch under construction.* A decode that needs a block preempts others
  while the batch that may contain them is being built.
- *Partial states.* A sequence is waiting without blocks, waiting in the middle
  of its prompt with blocks (and cannot be preempted then), running, or
  preempted with generated tokens that must be computed again.
- *One buffer, no lock.* Rank 0 writes a call into shared memory and sets an
  event per worker; nothing tells it that a worker has read the call before it
  writes the next. Only the collectives of the model keep the processes in step,
  and those are launched, not waited for.
- *Buffers that outlive a batch.* A replayed CUDA graph runs on all the rows it
  was captured for, over buffers that still hold earlier batches, and attention
  runs by plans that are cached.
- *Requests and results out of step.* `generate` may add its prompts in another
  order, and they finish in a third.
- *Running out.* Nothing but preemption and rotation of the waiting queue keeps
  requests that together exceed the cache from blocking each other.

What makes each component correct:

- BlockManager: no block lost, freed twice, or shared beyond its count; the map
  never dangles; what is counted as cached is the asker's own prefix; blocks to
  be written are private and not in the cache; `allocate` never runs dry.
- Scheduler: no request lost or duplicated; what is scheduled keeps its blocks
  until postprocessed; budgets hold; a step always schedules something; every
  request finishes; it uses the block manager within its protocol.
- ModelRunner: attention reads for each position what was computed for it,
  whichever path computes the batch; a worker prepares the batch rank 0 prepares.
- TP protocol: calls are a synchronous broadcast; collectives pair up; the shared
  memory is there when it is used; every process ends.
- Layers and loader: cut over the ranks they compute what the uncut ones do.
- LLMEngine: each request gets its own completion, once, whatever happens to it
  inside; `generate` returns them in the order of its prompts.

## 2. Modules

| Module | What it is |
|---|---|
| `Deque` | removal of a set of entries from a deque, without recursion, so that it can be proved about |
| `BlockManager` | `BlockManager` and the parts of `Sequence` it reads; a client that may call the operations in any order the sequences' state allows |
| `Scheduler` | extends `BlockManager`: the iterations of `Scheduler` and of `LLMEngine.step` |
| `RequestService` | abstract: what an engine promises its clients |
| `Engine` | extends `Scheduler`: `add_request`, `step`, `generate`; implements `RequestService` |
| `BatchInput` | extends `Scheduler`: what `prepare_prefill` and `prepare_decode` prepare, on rank 0 and from pickled sequences |
| `ModelRunner` | extends `BatchInput`: the KV store of a batch and the slots attention reads |
| `GraphRunner` | extends `ModelRunner`: eager runs and CUDA graph replays with the FlashInfer backend; implements `ModelRunner` |
| `PrefixMetrics` | extends `Scheduler`: the counter `token_hits` |
| `RemoteCall` | abstract: a synchronous broadcast of calls |
| `TensorParallel` | the processes of a tensor-parallel engine, their shared memory, events and collectives; implements `RemoteCall` |
| `WeightLoading` | the weight loaders over the ranks, and what the parallel layers then compute |
| `MCBlockManager`, `MCScheduler`, `MCOversized`, `MCEngine`, `MCBatchInput`, `MCModelRunner`, `MCGraphRunner`, `MCPrefixMetrics`, `MCTensorParallel`, `MCWeightLoading` | instances for TLC |
| `DequeProofs` | what `Keep` and `Without` return; facts on queues, and on appending, cutting and reversing sequences |
| `BlockManagerProofs` | the inductive invariant of `BlockManager` and its theorems |
| `SchedulerProofs` | the same for `Scheduler`, over `BlockManagerProofs` |
| `ModelRunnerProofs` | `BatchInput` and `ModelRunner`, over `SchedulerProofs` |
| `GraphRunnerProofs` | `GraphRunner`, over `ModelRunnerProofs` |
| `EngineProofs` | `Engine` and `RequestService`, over `SchedulerProofs` |
| `TensorParallelProofs` | the inductive invariant of `TensorParallel` and its theorems |
| `WeightLoadingProofs` | the inductive invariant of `WeightLoading` and its theorems |

Definitions marked `Slip:` are not part of the specifications: each is a
plausible bug in the definition that follows it, used to confirm that a property
would notice (`mutants` in `PROJECT.json`).

### BlockManager

`refCount`, `chain`, `hashToBlock`, `free` and `used` are the manager's fields;
`tok`, `numPrompt`, `table` and `numCached` are `Sequence`'s. `Block.hash` and
`Block.token_ids` are one variable, `chain[b]`: the prefix the block was hashed
for. The stored hash is `Digest(chain[b])`, the stored tokens its last block.
`Digest` is a CONSTANT operator, so a run may choose one that collides.

| Action | Code |
|---|---|
| `Create` | `Sequence.__init__` |
| `Admit`, `RejectAdmission` | `can_allocate` (with the LRU touch it does even when it answers -1), then `allocate` |
| `Grow` | `can_append`, `may_append` |
| `ComputePart`, `ComputeAll`, `ComputeFinal` | `hash_blocks` and the bookkeeping of `postprocess`; the last also deallocates |
| `Release` | `deallocate` by `preempt` |

The loops over a block table are in closed form. Their order survives where it
can be seen: hits before fresh blocks, the freed blocks in reverse table order.
`hash_blocks` and `deallocate` of a finishing sequence are one action, because
the thread cannot be interrupted between them.

### Scheduler

`phase` is the program counter in `step()`. Each iteration of the loops of
`_schedule_decode`, `_schedule_prefill` and `postprocess` is an action, and so is
each turn of the inner `while` that preempts: a property holds of every state a
loop body sees, not only between steps. The sampled token is any token. The cache
operations are `BlockManager`'s effects without its guards; that the guards hold
whenever the scheduler calls is the refinement below.

### BatchInput, ModelRunner and GraphRunner

`Stores(s)` are the slots and positions a batch stores for a sequence,
`ReadPositions` those attention reads. `kv[b][o]` is what slot `o` of block `b`
holds: the prefix the key and value were computed from. `RunModel` is joined to
`Dispatch`: `prepare_*` picks the slots and the store happens for the whole batch
before attention reads. Which rows `store_kvcache` stores and which the fused
kernel does is `kv_already_stored`, as in `Qwen3Attention.forward`.

The worker's side is a set of operators over the same state: `PickledTokens` and
`PickledLast` are what `__getstate__` sends, `WorkerInputIds` and
`WorkerDecodeSlot` what a worker prepares from it, with the block size of its own
class (`ClassBlockSize`).

`GraphRunner` splits `run_model`: `RunEager` is `RunModel` with a plan,
`RunGraph` fills the buffers of `capture_cudagraph` (`graphVars`, one record per
row), re-plans the wrapper of the bucket and replays. `plan` is the last plan made
and for which wrapper, so that a run by an earlier batch's plan is visible.

### TensorParallel

`pc[r]` is where the process of rank `r` is; each access to the shared memory, to
an event and each collective is a step of its own. Two things happen apart from
the processes: `done[r]` is the progress of `r`'s GPU stream through the
collectives in `launched[r]`. A collective ends on a stream when all streams have
come to it; a worker's part in the gather of the logits ends when it is sent. Rank
0 waits for its stream when it turns the sampled tokens into a list
(`RunReturns`); a worker waits only in the two barriers (`LeaveBarrier`).

| Action | Code (`model_runner.py`) |
|---|---|
| `LaunchCollective`, `RunReturns`, `WorkerRunReturns` | `run`, with the collectives of the layers |
| `CreateSharedMemory`, `EnterBarrier`, `LeaveBarrier`, `OpenSharedMemory` | the end of `__init__` |
| `Call`, `WriteLength`, `WriteData`, `SetEvent` | `call` and `write_shm` of rank 0, one event after the other |
| `ReadLength`, `ReadData`, `ClearEvent` | `loop` and `read_shm` of a worker |
| `CloseSharedMemory`, `Unlink`, `Join` | `exit`, and `LLMEngine.exit` |
| `CompleteCollective` | NCCL on the streams |

A message is the number of its call. A length and bytes that belong to different
calls make 0, which is not a call.

### WeightLoading

A parameter is a function from the indices of the dimension it is cut along to the
checkpoint's entries. `LoadWeight` reads one tensor on one rank, in any order;
`AttentionTerm`, `MLPTerm`, `EmbeddingTerms` and `LogitAt` say which entries meet
in a rank's result. The properties compare the sums over the ranks with the uncut
layers.

### Engine

`Generate` starts a call of `generate`, `AddPrompt` and `ReturnResults` are its
first and last loops, `EngineStep` the scheduler's steps with what `step()` keeps
of them (`seqs`, and the outputs of those finished). `OnlineRequest` and
`EngineStep` outside of a call are a client that drives the engine by itself, as
`benchmarks/e2e/online_batching.py` does. `order.sort` by prefix and index is in
closed form: the k-th index of the sorted order is the one with k - 1 before it.
Token ids are naturals here (`TokenIdsAssumption`), because they are compared.

### Abstract specifications

- `BlockManager`'s `Spec` is the protocol a client of the cache must keep to.
  `scheduler_mixed` checks it as a PROPERTY of `SchedSpec`: every scheduler step is
  a step of the block manager's client or leaves its variables alone. The variables
  have the same names, so that the refinement mapping is the identity.
- `RequestService` knows requests, the tokens said so far, the completions given
  out and the calls of `generate`; nothing of blocks, chunks or preemption. `Engine`
  implements it, its liveness included: a request has been `asked` once its tokens
  exist, `said` is its completion, `given` what `step` returned for it (to whoever
  called `step`: `generate` drops what its steps return of requests it did not add,
  so a request is *given* out even if its client never sees it), and a call
  of `generate` happens when its last prompt has been added (`ServiceSpec`).
- `ModelRunner`'s `RunnerSpec`, the batch stored by sequences, is implemented by
  `GraphRunner`, the batch stored by rows of a padded graph.
- `RemoteCall` is a broadcast with one call at a time. `TensorParallel` implements
  it, liveness included; a call has returned (`Answered`) when rank 0 is idle again
  or has ended (`BroadcastSpec`).

## 3. What is checked

| Run | Instance | What it shows |
|---|---|---|
| `block_manager_lru` | 2 sequences, prompts of 3 and 4 tokens that share a first block, 4 blocks of 2, LRU, colliding digest; 86,465 states | the nine cache properties, sibling collisions included |
| `block_manager_reserve` | 3 sequences (symmetry), prompts of 2 and 4 tokens, 4 blocks, FIFO, `reserve_decode_kv`; 199,875 states (with symmetry) | the same with tables longer than the tokens; an admitted sequence never grows |
| `scheduler_mixed` | 3 sequences, prompts of 1 and 4, 4 blocks, batch of 2, 2 tokens per step, chunks of 2, one sequence ignoring EOS, workers with a class block size of 1; 264,430 states | queues, batches, budgets, `assert scheduled_seqs`, the refinement, and what a worker can and cannot prepare of a mixed batch |
| `scheduler_prefill_first` | 3 sequences, prompts of 1 and 4, 4 blocks, 4 tokens per step, chunks of 3, `enable_mixed_batching` off, FIFO | queues and batches when more sequences run than a batch holds |
| `scheduler_reserve` | 3 sequences, 5 blocks, `reserve_decode_kv` | no running sequence is preempted |
| `scheduler_liveness` | 3 requests over `generate` and `add_request`, 3 blocks, prefix reordering on and off, weak fairness; 109,512 states | every request finishes, `step()` returns each completion once, `generate` those of its prompts: the engine implements `RequestService` |
| `model_runner` | 3 sequences, 4 blocks, batches of up to 4 (so that 3 rows are padded to a bucket of 4), eager and graphs, fused KV store; 315,280 states | attention reads its own sequence's keys, hashed blocks hold what they say, graphs fit, slots are distinct, and graphs store what eager runs store |
| `tensor_parallel` | 4 ranks, 1 all_reduce per run, 3 calls; 66,299 states | collectives pair up, the shared memory is live, calls are a broadcast, exit ends all processes |
| `weight_loading` | 2 ranks, 8 query and 4 key heads, tied head, every order of loading; 65,536 states | layers and vocabulary cut over the ranks equal the dense ones |
| `scheduler_oversized` | a prompt larger than the cache | violated: the assertion of `schedule` fails |
| `model_runner_reserve` | `reserve_decode_kv`, prefill-first | violated: the decode slot is wrong |
| `metrics_hits` | 2 prompts of 5 tokens, 4 blocks, `reserve_decode_kv` | violated: `token_hits` counts hits that saved nothing |

Deadlock is not checked: with all requests finished the engine stops, with all
processes ended so does `TensorParallel`, and loading ends. That the systems do not
stop earlier is what the liveness properties say.

**Bounds.** `BlockSize = 2` is the smallest with positions inside a block and at
its end. Four blocks are fewer than the sequences need together, so eviction,
hits on free and used blocks, rejection and preemption all occur; the liveness
run has three, where two requests in progress already compete. Two sequences
suffice for sharing, three for a third to evict what two shared, and for a victim,
a beneficiary and a bystander of preemption. `MaxTokens` 2 or 3 makes decoding
cross a block boundary. The token budget (3) is smaller than a prompt (4), so
that chunks are cut by budget and by `MaxChunk`. The prompts, of which
several requests may ask the same, share a first block, end inside a block and at a
boundary, and have tokens that differ by position, so that a slice that starts at
the wrong place shows. No counter needs a bound: the number of sequences and `MaxTokens` bound every behaviour except the
repetition of admissions, whose states recur.

`MaxCalls = 3` has a call after one whose reading may still lag, and `exit` after
both; the broadcast, once idle, is as it was after the warm-up. Four ranks give a
worker that is neither the first nor the last to be told and to be late. One
all_reduce is enough for a run whose collectives are of two kinds; the theorems of
section 4 hold for any number. `MaxModelLen = 5` is the longest a request of the
`model_runner` instance gets, with a last block that is not full, so that a table
one column short would show. Four sequences per batch allow, of three sequences, a
bucket with a padding row, and one row takes the fused store. Eight heads over two
ranks with four key heads leave two heads of each kind per rank and two query heads
per key head, so that a wrong offset, a wrong group and a wrong rank differ.
`PrefixReorderTokens = 2` is shorter than the long prompts.

**Fairness.** `EngineSpec` asks weak fairness of the engine's own steps only,
`AddPrompt \/ EngineStep \/ ReturnResults`: `generate` calls
`step()` in a loop while `is_finished()` is false, and `step()` is straight-line
code, so a step that can be taken is taken (a client that drives the engine itself is
assumed to do the same). `TPFairSpec` asks weak fairness of each process and of each
GPU stream; nobody need make a call. Nothing forces requests to arrive and
nothing is assumed about which token is sampled; `MaxTokens` ends a request.

**Assumptions of the scheduler instances.** `MCScheduler` assumes that each
prompt alone fits the cache (`Footprint`), which the code does not enforce; the
run `scheduler_oversized` drops that and shows the consequence.

### Findings

1. `scheduler.py:121`, `assert scheduled_seqs`, can fail: neither `add_request`
   nor `Config` compares a request with the size of the cache. A request that
   needs more blocks than exist is rejected in every step, and once nothing else
   is schedulable the assertion raises out of `generate()`.
2. `model_runner.py:205` stores a decoded token in the last block *of the table*.
   With `reserve_decode_kv` the table is longer than the tokens, so a decode-only
   batch stores into the wrong block and attention reads a slot that was never
   written. The slots of a mixed batch (`prepare_prefill`) are right.
3. `block_manager.py:91` counts `token_hits` while looking a prompt up, before
   `can_allocate` knows whether it returns -1. A prompt that must wait is counted
   again in every step, so that the counter exceeds the prefill tokens saved, which
   is what `src/README.md:72-73` says is recorded.

## 4. What is proved

### The KV cache

These theorems are about `BlockManager`'s `Spec` for any finite set of requests, any
tokens and prompts, any block size, cache size and `max_tokens`, both policies,
with and without reservation.

| Theorem (`BlockManagerProofs`) | Property |
|---|---|
| `TypeCorrect` | `TypeOK`: counts stay natural numbers; deque, map and tables name blocks |
| `CachedBoundsHolds` | `CachedBounds`: no more tokens count as cached than exist or fit the table |
| `FreeExactHolds`, `RefExactHolds` | `FreeExact`, `RefExact` |
| `MapSoundHolds` | `MapSound` |
| `CachedPrefixHolds`, `WritesPrivateHolds` | `CachedPrefixCorrect`, `WritesPrivate` |
| `AdmissionHolds` | `AdmissionSuffices` |
| `ContentsStableHolds` | `ContentsStable` (an action property) |
| `ReserveHolds` | `ReserveCovers` |
| `KeepProperties` (`DequeProofs`) | the closed filter keeps exactly the entries of the set and no duplicates |

**Assumptions.** The named `ASSUME`s of `BlockManager` (finite `Seqs`, positive
block size, and so on), which TLC evaluates in each run, and `DigestSound`, a
hypothesis of each theorem: two block-aligned prefixes with the same digest and
the same last block are equal. A 64-bit chained hash gives that with high
probability only; it is exactly the trust the code places in it
(`block_manager.py:86` compares one block). Nothing less will do for
`CachedPrefixCorrect`, and the accounting depends on it too: two prefixes of one
request that hit the same block would put that block into its table twice.
`MCBlockManager` evaluates the same condition for its own digests up to six tokens.

**The argument.** None of the properties is inductive alone. Writing into private
blocks needs exact reference counts; exact counts need tables without duplicates;
that needs hits to be distinct, hence a map that is sound and chains that are the
right prefixes; right chains need the block hashed last to be right and not
overwritten since, which needs private writes. `IInv` joins them with three
auxiliary facts (`CachedBounds`, `BlocksAfterCreation`, `ChainsWhole`). The proof
goes by effect rather than by action:

- `Took` is what admission and growth have in common (hits shared, fresh blocks
  from the free deque); `TookAccounting`, `TookMap`, `TookHeld`, `TookFresh` say
  what it preserves, `AllocateTook` and `GrowTook` that the operations do it.
  `AllocateTook` rests on `EnoughBlocks`, the counting argument behind
  `can_allocate`: free blocks that are hit are at most the hits not in use.
- `HashEffect` and `HashOthers` describe `hash_blocks`: each newly full block gets
  its whole prefix (`NewChainIsPrefix`) and no other block in a table changes.
- `DeallocateEffect` describes `deallocate`.
- One lemma per action puts these together, `NextIInv` collects them, and each
  theorem follows from `IInv`.

`ReserveCovers` has an invariant of its own, `ReservedAhead`, on top of `IInv`.
`DequeProofs` numbers the kept positions by their rank and shows that rank is a
bijection, which is what makes the non-recursive filter provable.

### The tensor-parallel protocol

`TensorParallelProofs` is about `TPSpec` for any number of ranks above one, any
number of all_reduces in a run above zero and any number of calls.

| Theorem | Property |
|---|---|
| `TypeCorrect` | `TPTypeOK`: in particular no worker reads a torn message |
| `CollectivesAgree` | `CollectivesMatch` |
| `MemoryLive` | `SharedMemoryLive` |
| `CallsBroadcast` | `TensorParallel` implements the safety part of `RemoteCall` |

**Assumptions.** `TPSizeAssumption` and `AllReducesAssumption`. The embedding
alone makes one all_reduce in every run.

**The argument.** The invariant is `TPInv`. It says for each rank where it can be
(`ZeroPlaced`, `WorkerPlaced`), for each worker how far behind it is (`UpToDate`,
`Untold`, `Told` or `HasRead`, by `Received`), what the buffer holds
(`BufferWritten`), who has the shared memory open (`Memory`), and, the part that
carries the rest, how many collectives a rank has launched: as many as the calls
before (`Start`) and its place in the current one (`InCall`) come to (`Lengths`),
numbered accordingly (`Numbered`). Rank 0's stream is never ahead of what any rank
has launched (`ZeroIsLast`). So when rank 0 has waited for its stream at the end of
a run, every worker has launched a collective of that run; hence it has read the
call and cleared its event (`AllUpToDate`), and the buffer may be overwritten. That
is the only thing that protects it. In `exit` there is no run; the barrier does the
same for the removal of the shared memory (`FirstBarrier` for its creation). One
lemma per action keeps `TPInv`. `CollectivesAgree` follows because a number belongs
to one call only (`StartUnique`), and `CallsBroadcast` maps `Call`, `ReadData` and
the steps on which rank 0 becomes idle or ends to the three actions of `RemoteCall`.

### The scheduler

`SchedulerProofs` is about `SchedSpec`: the block manager's constants as above, and
any limits on a batch, mixed or not, any end-of-sequence token and any requests that
ignore it.

| Theorem | Property |
|---|---|
| `SchedulerKeepsProtocol` | the refinement `Spec`: the scheduler calls the block manager within its protocol, so what is proved of `BlockManager` holds of the scheduler |
| `SchedTypeCorrect` | `SchedTypeOK` |
| `QueuesExactHolds` | `QueuesExact` |
| `ScheduledHaveRoomHolds`, `BetweenBatchesHolds` | `ScheduledHaveRoom`, `BetweenBatches` |
| `OnlyQueuedHold` | `OnlyQueuedHoldBlocks` |
| `BatchBudgetHolds` | `BatchBudget` |
| `SchedCachedPrefix` | `CachedPrefixCorrect` under the scheduler |
| `ReserveHoldsRunning` | `ReserveNeverPreempts`, with `Reserve` |
| `NoStallHolds` | `NoStall`, with `PromptsFit` |

**Assumptions.** `DigestSound`, and for `NoStall` that each prompt, with all its
completion and alone, fits the cache (`PromptsFit`): `scheduler_oversized` shows that
`NoStall` is false without it.

**The argument.** The two modules are proved together, `JInv == IInv /\ SInv`. The
guard of `deallocate` holds because the victim of a preemption is running, and a
running request holds blocks; that a scheduled chunk fits its table holds because
`allocate` gave what the cache's accounts promised. `SInv` follows a request around the
loops: in the deque its status says (`Queues`, with the decodes already taken from
`running` counted by phase), expected by the next step when it is outside the batch
(`Rests`), and inside it with room for what is scheduled (`InBatch`, from which
`postprocess` tells the middle of a prompt from its end). `Ahead` is why a batch holds
nobody twice: what the loop over `waiting` still visits is in front of what it has put
back. One lemma per action keeps `SInv` and shows the action to be a step of
`BlockManager` or none (`NextJInv`). For `NoStall`, `Progress` says what is left to
schedule while the batch is empty: who holds blocks is in front of those rejected; if
nobody does, the cache is empty and the next request fits (`EmptyCacheAdmits`); and a
lone holder can always grow (`LoneHolderGrows`).

### The model runner

`ModelRunnerProofs` is about `SchedSpec` (the batches) and `RunnerSpec` (the cache they
are stored in).

| Theorem | Property | Beyond `DigestSound` |
|---|---|---|
| `SlotsDistinctHolds` | `SlotsDistinct` | - |
| `WorkersPrepareHolds` | `WorkersPrepare`: what a worker can prepare from pickled sequences, and what it cannot | - |
| `HashedBlocksWrittenHolds` | `HashedBlocksWritten` | `~Reserve` |
| `ReadsWrittenHolds` | `ReadsWritten`: what attention reads was written for the reader's own tokens | `~Reserve` |

The hypothesis is a limit of the code, not of the proof: with `Reserve` the decode
slot is wrong (finding 2, `model_runner_reserve`).

`WorkersPrepare` has no hypothesis on mixed batching or on the worker's block size; it
says what they cost. A worker prepares rank 0's tokens for every sequence except a
decode that shares a batch with prefills: that one is pickled without its tokens
(`sequence.py:77`) while `prepare_prefill` slices them, so the worker prepares none and
rank 0 one. The slot of a decode is rank 0's exactly when the last token has the same
place in a block of the class's size and of the configured one; when it has not, the
slot is still in the sequence's own last block, which nobody else holds
(`WritesPrivate`), so no other sequence's slot is overwritten (what the block then
holds is offered by the prefix cache once it is full). That the class's size
(16, `sequence.py:15`) is at most the configured one is what `config.py:29` asserts
(`ClassBlockSizeAssumption`). Two facts are added to `JInv`: `PrefillFlags` (who waits has `is_prefill` set, so a
preempted sequence is sent with its tokens) and `DecodersSingle` (a decode is scheduled
for one token in whatever batch).

**The argument.** `RunnerInv` adds to `JInv` that a batch without prefill schedules one
token each (`DecodesSingly`) and that, without reservation, no table is longer than its
tokens need (`TablesExact`), so that the last block of the table is the block of the
last position. `KVInv` then says of the cache's contents that a block with a hash
holds what its chain says, a cached position holds its own prefix (`CachedWritten`), and
so does a scheduled one once the model has run (`ScheduledWritten`). Each alone is not
inductive: `hash_blocks` makes the first from the third, admission the second from the
first, `postprocess` the second from the third. A batch is stored without damage
because its slots are in private blocks that carry no hash, which is `JInv`.

### Graphs and attention

`GraphRunnerProofs` is about `GraphSpec`, for any captured sizes and either path of the
fused kernel.

| Theorem | Property | Beyond `DigestSound` |
|---|---|---|
| `GraphIsRunner` | the refinement `RunnerSpec`: a replay stores what an eager run stores | - |
| `GraphFitsHolds` | `GraphFits` | `PromptsFitModel` |
| `AttendsOwnHolds` | `AttendsOwn` | `~Reserve`, `PromptsFitModel` |

`PromptsFitModel` is that the table of a prompt with all its completion, reservation
included, has no more blocks than one of `max_model_len`. The code does not enforce it: `add_request` compares nothing with
`max_model_len`, and a longer request would outgrow the captured tables.

**The argument.** A graph's rows are filled for the whole bucket, so those after the
batch are padding whatever the buffers held before (`GraphIsRunner` needs no more).
That a table fits needs that it stays below a bound its prompt determines
(`TablesBounded`). `AttInv` joins `RunnerInv`, `KVInv`, the sizes and `AttendsOwn`: the
pages a plan gives a row are the entries of the row's own table, and their slots hold
what `ReadsWritten` says.

### Weight loading

`WeightLoadingProofs` is about `LoadSpec` for any number of ranks and any sizes that
`SizesAssumption` admits, which is what the code's assertions demand (the ranks divide
heads, key heads, intermediate size and vocabulary), a tied head or not, and every
order of loading on every rank.

| Theorem | Property |
|---|---|
| `LayersMatch` | `LayersMatchDense` |
| `VocabularyMatches` | `VocabularyMatchesDense` |

**The argument.** `LoadInv`: the shapes stay, what has been read stays in its place
(`LoadedInPlace`), and a tied head is the embedding (`HeadTied`). It is kept because
the shards of the tensors that share a parameter (`qkv_proj`, `gate_up_proj`) are
disjoint. When all is loaded each rank holds the rows and columns `r * size + i`, and a
sum over the ranks of sums over a rank is the uncut sum because quotient and remainder
by `size` are one bijection between the ranks' places and the uncut dimension; for
`o_proj` the same holds of heads, with the key head of a query head on the same rank.

### The engine

`EngineProofs` is about `EngineSpec`, for any prompts, any order of addition, and online
requests between the calls of `generate`. It assumes `DigestSound` only.

| Theorem | What it says |
|---|---|
| `EngineIsScheduler` | `EngineSpec => SchedSpec`: all theorems about the scheduler hold of the engine |
| `EveryPromptAnswered` | when the loop of `generate` ends, each of its prompts has an output, so `outputs[seq_id]` is no `KeyError` |
| `AddingNeverStops` | while prompts are left to add, the next number is one no request has |
| `AnswersRequests` | the safety part of `ServiceSpec`: every step of the engine is one of `RequestService` or none |

**The argument.** The invariant is `JInv` with `EngineOnly`. The scheduler finishes a
request exactly when its completion is complete as `RequestService` has it
(`Answered`), which takes that no step but `postprocess` moves a request in or out of
`FINISHED` (`ScheduleQuiet`). What was returned for a request is its completion, once; a
finished request not returned yet is in the step's `seqs`, and a request in the batch
was not finished before (`GivenOut`, `InStep`): so the end of a step gives out exactly
what is complete and was not given out. `Adding` follows `order`: an index no longer in
it has its request, and the counter has numbers for those left. That sorting leaves
each index in one place is `ReorderedIsOrder`: the order of tuples is a strict total
order (`LexTransitive`, `LexTotal`), so the numbers of indices before an index are all
different.

**Only model-checked.** Liveness, which is out of the prover's reach: `RequestsFinish`,
`ProcessesEnd`, and the parts of `ServiceSpec` and `BroadcastSpec` that say a
completion is finished and a call returns. That the digests of the instances satisfy
`DigestSound` is evaluated by TLC. What is false of the code (section 3, findings)
is shown by runs, and nothing is proved about the metrics.

## 5. What is not modelled

- Metrics other than `token_hits` (`Scheduler.metrics`, `last_batch_stats`,
  `last_metrics` and timings): counters nothing reads back.
- The tokenizer, the progress bar, benchmarks, examples and scripts.
- Sizes in bytes: `warmup_model`, `allocate_kv_cache` and the FlashInfer workspace
  take what GPU memory allows, a pickled call must fit the 1 MiB buffer.
- Kernels, norms, rotary embedding, activation, the sampler's distribution: numerical,
  without control state. A sampled token is any token; the KV of a position is its
  prefix. Biases, `ReplicatedLinear` and norm weights are loaded as plain copies.
- Output buffers of FlashInfer (overwritten whole by each run), the signature of its
  plans (constant in one engine), `reset` (called by tests only).
- Exceptions other than the assertion of `schedule`: what a client that catches one
  finds afterwards.
- The collectives of graph capture, which every rank launches alike between the
  warm-up and the barrier.
- What a worker computes from a batch it could not prepare like rank 0. With mixed
  batching a decode reaches it without a token, and with a `kvcache_block_size`
  other than the class's (`sequence.py:15`) some slots differ. `WorkersPrepare` says
  exactly when; the kernels, which would then be launched with shapes that do not
  match, are not modelled. `src/README.md:203` declares multi-GPU not implemented,
  so this is not listed as a finding.
- `max_tokens = 0`, which `SamplingParams` does not refuse: the model assumes at
  least one (`MaxTokensAssumption`).

## 6. Plan

1. `Deque`, `BlockManager` with TLC runs, then `BlockManagerProofs`. *Done.*
2. `Scheduler` over it, the refinement, liveness; `SchedulerProofs`. *Done.*
3. `BatchInput`, `ModelRunner`, `GraphRunner`; `ModelRunnerProofs` and
   `GraphRunnerProofs`. *Done.*
4. `TensorParallel` over `RemoteCall`, and its proofs. *Done.*
5. `WeightLoading` and `WeightLoadingProofs`. *Done.*
6. `Engine` over `RequestService`, and `EngineProofs`. *Done.*
7. `PrefixMetrics`. *Done; nothing to prove, its property is false of the code.*
8. The workers' batch with mixed batching and another block size. *Done.*
9. Remaining: what a client that catches the assertion of `schedule` finds.
