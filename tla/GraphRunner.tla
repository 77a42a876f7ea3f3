----------------------------- MODULE GraphRunner -----------------------------
(***************************************************************************)
(* How ModelRunner.run_model computes a batch with the FlashInfer backend: *)
(* eagerly, or, a decode, by replaying a CUDA graph captured for a larger  *)
(* number of rows, over buffers that live as long as the engine            *)
(* (nanovllm/engine/model_runner.py, layers/flashinfer_backend.py).  The   *)
(* attention of a batch reads the pages its wrapper was planned for.       *)
(*                                                                         *)
(* Abstractions.  The graph buffers are one, of rows.  An entry past the   *)
(* tables of a batch is NoBlock.  Of the wrappers' plans the last one made *)
(* is kept, with the wrapper it was made for: a stale plan shows as one    *)
(* that is not this batch's.  All layers of a run are planned for once.    *)
(***************************************************************************)
EXTENDS ModelRunner

CONSTANT
  MaxModelLen  \* max_model_len

ASSUME MaxModelLenAssumption == MaxModelLen \in Nat \ {0}

VARIABLES
  enforceEager,  \* enforce_eager, fixed when the engine is made
  graphVars,     \* row -> slot_mapping, context_lens and block_tables
  plan           \* the last plan: its wrapper, its batch, its rows' pages

graphRunnerVars == <<runnerVars, enforceEager, graphVars, plan>>

NoSlot == <<>>
NoBlock == -1

-----------------------------------------------------------------------------
(* capture_cudagraph: the captured sizes, and the buffers.                 *)

max_bs == Min({MaxNumSeqs, 512})

(* Slip: the blocks max_model_len fills.                                   *)
FullBlocks == MaxModelLen \div BlockSize

max_num_blocks_captured == BlocksFor(MaxModelLen)

graph_bs ==
  {b \in {1, 2, 4, 8} \cup {16 * i : i \in 1 .. max_bs \div 16} : b <= max_bs}
    \cup {max_bs}

bucket(bs) == Min({b \in graph_bs : b >= bs})

PaddedTo(t, n) == [i \in 1 .. n |-> IF i <= Len(t) THEN t[i] ELSE NoBlock]

(* Slip: slot_mapping is not reset before the batch is copied in.          *)
PaddingRowStale(i) ==
  [slot |-> graphVars[i].slot, len |-> 1, pages |-> [c \in 1 .. max_num_blocks_captured |-> 0]]

(* A row of the bucket that is no sequence: it stores nothing and reads    *)
(* one token of block 0.                                                   *)
PaddingRow(i) ==
  [slot |-> NoSlot, len |-> 1, pages |-> [c \in 1 .. max_num_blocks_captured |-> 0]]

-----------------------------------------------------------------------------
(* The batch: prepare_block_tables, and the lengths attention is told.     *)

TableColumns == Max({Len(table[s]) : s \in Range(batch)})

block_tables == [i \in DOMAIN batch |-> PaddedTo(table[batch[i]], TableColumns)]

(* cu_seqlens_k's differences, or context_lens.                            *)
seq_lens ==
  [i \in DOMAIN batch |->
     IF is_prefill THEN numCached[batch[i]] + numScheduled[batch[i]]
     ELSE Len(tok[batch[i]])]

(* cu_seqlens_k[-1] > cu_seqlens_q[-1]: some sequence has cached tokens.   *)
SomeCached == \E s \in Range(batch) : numCached[s] > 0

(* run_model: the batch is computed by a graph.                            *)
UsesGraph == ~is_prefill /\ ~enforceEager /\ Len(batch) <= 512

-----------------------------------------------------------------------------
(* FlashInferRuntime.                                                      *)

(* _page_metadata: the pages of each row and the tokens of its last one.   *)
PageMetadata(tables, lens) ==
  [i \in DOMAIN lens |->
     [pages |-> SubSeq(tables[i], 1, BlocksFor(lens[i])),
      last  |-> ((lens[i] - 1) % BlockSize) + 1]]

mode == IF ~is_prefill THEN "decode"
        ELSE IF SomeCached THEN "paged_prefill" ELSE "ragged_prefill"

(* Slip: a plan made for the same wrapper is taken for this batch's.       *)
PlannedForWrapper(wrapper) == plan.wrapper = wrapper

(* _plan keeps the plan of planned_context.  prepare_prefill and           *)
(* prepare_decode have just made a new context, so that at the first layer *)
(* of a batch no plan is its own.                                          *)
Planned(wrapper) == FALSE

NewPlan(wrapper, rows) == [wrapper |-> wrapper, bs |-> Len(batch), rows |-> rows]

-----------------------------------------------------------------------------
(* run_model                                                               *)

(* The keys and values stored are the batch's, whatever the rows' order.   *)
RunEager ==
  /\ ~UsesGraph
  /\ RunModel
  /\ plan' = IF Planned(<<mode, 0>>) THEN plan
             ELSE NewPlan(<<mode, 0>>, IF mode = "ragged_prefill" THEN <<>>
                                       ELSE PageMetadata(block_tables, seq_lens))
  /\ UNCHANGED graphVars

(* The buffers before the replay: the bucket's rows are reset and the      *)
(* batch's copied over them; the rows after the bucket stay as they were.  *)
FilledGraphVars(bs, b) ==
  [i \in 1 .. max_bs |->
     IF i <= bs
     THEN [slot  |-> DecodeSlot(batch[i]),
           len   |-> Len(tok[batch[i]]),
           pages |-> [c \in 1 .. max_num_blocks_captured |->
                        IF c <= TableColumns THEN block_tables[i][c] ELSE 0]]
     ELSE IF i <= b THEN PaddingRow(i)
     ELSE graphVars[i]]

(* What a row's key and value are: a row that is no sequence computes a    *)
(* token 0 at position 0.                                                  *)
RowContent(i) == IF i <= Len(batch) THEN tok[batch[i]] ELSE <<0>>

(* The replayed graph: the rows with a slot are stored (the last one, had  *)
(* two the same), attention reads by the bucket's re-planned wrapper.      *)
RunGraph ==
  /\ UsesGraph
  /\ LET bs   == Len(batch)
         b    == bucket(bs)
         rows == SubSeq(FilledGraphVars(bs, b), 1, b)
         writers(slot) == {i \in StoredRows(b) : rows[i].slot = slot}
     IN  /\ graphVars' = FilledGraphVars(bs, b)
         /\ plan' = NewPlan(<<"graph", b>>,
                            PageMetadata([i \in 1 .. b |-> rows[i].pages],
                                         [i \in 1 .. b |-> rows[i].len]))
         /\ kv' = [x \in Blocks |-> [o \in Offsets |->
                     IF writers(<<x, o>>) = {} THEN kv[x][o]
                     ELSE RowContent(Max(writers(<<x, o>>)))]]

GraphInit ==
  /\ RunnerInit
  /\ enforceEager \in BOOLEAN
  /\ graphVars = [i \in 1 .. max_bs |->
                    [slot |-> <<0, 0>>, len |-> 1,
                     pages |-> [c \in 1 .. max_num_blocks_captured |-> 0]]]
  /\ plan = [wrapper |-> <<"none", 0>>, bs |-> 0, rows |-> <<>>]

GraphNext ==
  \/ /\ Dispatch /\ batch # <<>>
     /\ RunEager \/ RunGraph
     /\ UNCHANGED enforceEager
  \/ /\ phase # "dispatch" /\ SchedNext
     /\ UNCHANGED <<kv, enforceEager, graphVars, plan>>

GraphSpec == GraphInit /\ [][GraphNext]_graphRunnerVars

-----------------------------------------------------------------------------
(* Properties.                                                             *)

(* What attention reads for row i of the batch, sequence s: in a ragged    *)
(* prefill the keys of the batch itself, else the planned pages.           *)
Attended(i, s) ==
  IF plan.wrapper = <<"ragged_prefill", 0>>
  THEN [p \in 0 .. numScheduled[s] - 1 |-> Prefixed(s, numCached[s] + p)]
  ELSE LET row == plan.rows[i]
           len == (Len(row.pages) - 1) * BlockSize + row.last
       IN  [p \in 0 .. len - 1 |->
              LET b == row.pages[(p \div BlockSize) + 1]
              IN  IF b = NoBlock THEN <<>> ELSE kv[b][p % BlockSize]]

(* Attention reads, for every sequence of a batch, exactly the keys and    *)
(* values of that sequence's tokens so far: not an earlier batch's plan,   *)
(* another row's pages, a padding row or a block's earlier contents.       *)
AttendsOwn ==
  phase = "postprocess" =>
    \A j \in DOMAIN batch :
      LET s == batch[j]
      IN  Attended(plan.bs - Len(batch) + j, s)
            = [p \in ReadPositions(s) |-> Prefixed(s, p)]

(* A decode always has a captured graph of at least its size, whose block  *)
(* tables are wide enough for it.                                          *)
GraphFits ==
  phase = "dispatch" /\ batch # <<>> /\ UsesGraph =>
    /\ Len(batch) <= max_bs
    /\ TableColumns <= max_num_blocks_captured
=============================================================================
