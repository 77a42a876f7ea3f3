------------------------- MODULE GraphRunnerProofs ---------------------------
(***************************************************************************)
(* Computing a batch eagerly or by a captured CUDA graph, for any number   *)
(* of requests, any prompts, any cache, any captured sizes and either      *)
(* backend of the fused kernel: a replay stores what an eager run stores,  *)
(* the captured buffers are large enough, and attention reads for every    *)
(* sequence what was stored for that sequence.                             *)
(*                                                                         *)
(* The invariant of ModelRunnerProofs says what the KV cache holds; added  *)
(* to it is a bound on the tables, which grow until their request is       *)
(* finished, and what attention read for those of the batch that           *)
(* postprocess has not reached.                                            *)
(*                                                                         *)
(* Assumed beyond the modules' own assumptions: DigestSound (see           *)
(* BlockManagerProofs); for the sizes PromptsFitModel; for what attention  *)
(* reads ~Reserve as well (see ModelRunnerProofs).                         *)
(***************************************************************************)
EXTENDS GraphRunner, ModelRunnerProofs

(***************************************************************************)
(* The captured sizes                                                      *)
(***************************************************************************)

(* A bounded set of numbers that is not empty has a least one.             *)
LEMMA LeastOf ==
  ASSUME NEW a \in Int, NEW c \in Int, NEW S \in SUBSET (a .. c), S # {}
  PROVE  Min(S) \in S /\ \A y \in S : Min(S) <= y
<1> DEFINE N == {0 - x : x \in S}
<1>1. \A x \in S : x \in Int /\ a <= x /\ x <= c
  OBVIOUS
<1>2. N \in SUBSET ((0 - c) .. (0 - a))
  BY <1>1
<1>3. N # {}
  <2>1. PICK x : x \in S
    OBVIOUS
  <2>2. 0 - x \in N
    BY <2>1
  <2> QED
    BY <2>2
<1>4. IsFiniteSet(N)
  <2>1. 0 - c \in Int /\ 0 - a \in Int
    OBVIOUS
  <2>2. IsFiniteSet((0 - c) .. (0 - a))
    BY <2>1, FS_Interval
  <2> QED
    BY <1>2, <2>2, FS_Subset
<1>5. N \in SUBSET Int
  BY <1>1
<1>6. PICK m \in N : \A y \in N : y <= m
  BY <1>3, <1>4, <1>5, Greatest
<1>7. PICK x \in S : m = 0 - x
  BY <1>6
<1>8. \A y \in S : x <= y
  <2> TAKE y \in S
  <2>1. 0 - y \in N
    OBVIOUS
  <2>2. 0 - y <= 0 - x
    BY <1>6, <1>7, <2>1
  <2> QED
    BY <1>1, <2>2
<1> QED
  BY <1>8 DEF Min

(* A finite set of numbers that is not empty has a greatest.               *)
LEMMA GreatestOf ==
  ASSUME NEW S \in SUBSET Int, IsFiniteSet(S), S # {}
  PROVE  Max(S) \in S /\ \A y \in S : y <= Max(S)
BY Greatest DEF Max

(* The captured sizes: the largest is as many rows as a decode that is     *)
(* replayed can have.                                                      *)
LEMMA Sizes ==
  /\ max_bs \in Nat \ {0} /\ max_bs <= MaxNumSeqs
  /\ \A n \in Nat : n <= MaxNumSeqs /\ n <= 512 => n <= max_bs
  /\ graph_bs \in SUBSET Int /\ max_bs \in graph_bs
  /\ \A b \in graph_bs : b <= max_bs
<1>1. /\ max_bs \in {MaxNumSeqs, 512} /\ max_bs <= MaxNumSeqs /\ max_bs <= 512
  <2>1. \E x \in {MaxNumSeqs, 512} : \A y \in {MaxNumSeqs, 512} : x <= y
    BY MaxNumSeqsAssumption
  <2> QED
    BY <2>1 DEF max_bs, Min
<1>2. max_bs \in Nat \ {0}
  BY <1>1, MaxNumSeqsAssumption
<1>3. graph_bs \in SUBSET Int
  <2>1. \A i \in 1 .. max_bs \div 16 : 16 * i \in Int
    OBVIOUS
  <2> QED
    BY <1>2, <2>1 DEF graph_bs
<1>4. max_bs \in graph_bs /\ \A b \in graph_bs : b <= max_bs
  BY <1>2 DEF graph_bs
<1> QED
  BY <1>1, <1>2, <1>3, <1>4, MaxNumSeqsAssumption

(* Every such decode has a bucket, at least as large as it is.             *)
LEMMA BucketFits ==
  ASSUME NEW n \in Nat, n <= max_bs
  PROVE  bucket(n) \in Nat /\ n <= bucket(n) /\ bucket(n) <= max_bs
<1> DEFINE S == {b \in graph_bs : b >= n}
<1>1. S \in SUBSET Int /\ max_bs \in S /\ \A b \in S : b <= max_bs
  BY Sizes
<1>2. S \subseteq n .. max_bs
  BY <1>1, Sizes
<1>3. Min(S) \in S
  <2>1. max_bs \in Int /\ n \in Int
    BY Sizes
  <2>2. S \in SUBSET (n .. max_bs) /\ S # {}
    BY <1>1, <1>2
  <2> HIDE DEF S
  <2> QED
    BY <2>1, <2>2, LeastOf
<1>4. Min(S) \in Int /\ n <= Min(S) /\ Min(S) <= max_bs
  BY <1>1, <1>2, <1>3
<1>5. bucket(n) = Min(S)
  BY DEF bucket
<1> HIDE DEF S
<1> QED
  BY <1>4, <1>5

(* prepare_block_tables makes the tables as wide as the longest of the     *)
(* batch.                                                                  *)
LEMMA ColumnsOf ==
  ASSUME JInv, batch # <<>>
  PROVE  /\ TableColumns \in Nat
         /\ \A s \in Range(batch) : Len(table[s]) <= TableColumns
         /\ \E s \in Range(batch) : TableColumns = Len(table[s])
<1> DEFINE S == {Len(table[s]) : s \in Range(batch)}
<1>1. batch \in Seq(Seqs)
  BY DEF JInv, SInv, SchedTypeOK
<1>2. IsFiniteSet(Range(batch)) /\ Range(batch) # {}
  <2>1. Range(batch) \subseteq Seqs
    BY <1>1, RangeOfSeq
  <2> QED
    BY <1>1, <2>1, SeqsAssumption, FS_Subset, NonemptyQueue
<1>3. \A s \in Range(batch) : Len(table[s]) \in Nat
  BY BatchSizes
<1>4. IsFiniteSet(S)
  <2> DEFINE R == Range(batch)
             f == [s \in R |-> Len(table[s])]
  <2>1. f \in [R -> S] /\ \A y \in S : \E x \in R : f[x] = y
    OBVIOUS
  <2> HIDE DEF R, S, f
  <2>2. f \in Surjection(R, S)
    BY <2>1, Fun_IsSurj
  <2> QED
    BY <1>2, <2>2, FS_Surjection DEF R
<1>5. S \in SUBSET Int /\ S # {}
  <2>1. PICK s : s \in Range(batch)
    BY <1>2
  <2>2. Len(table[s]) \in S
    BY <2>1
  <2>3. \A y \in S : y \in Int
    BY <1>3
  <2> HIDE DEF S
  <2> QED
    BY <2>2, <2>3
<1>6. Max(S) \in S /\ \A y \in S : y <= Max(S)
  BY <1>4, <1>5, GreatestOf
<1>7. TableColumns = Max(S)
  BY DEF TableColumns
<1> QED
  BY <1>3, <1>6, <1>7

(***************************************************************************)
(* Replaying a graph                                                       *)
(***************************************************************************)

(* A decode stores one row for each sequence.                              *)
LEMMA DecodeStores ==
  ASSUME ~is_prefill, NEW s
  PROVE  Stores(s) = {<<DecodeSlot(s), Len(tok[s]) - 1>>}
BY DEF Stores

(* A batch that is replayed: it is not empty and has a bucket.             *)
LEMMA GraphBatch ==
  ASSUME JInv, batch # <<>>, UsesGraph
  PROVE  /\ Len(batch) \in Nat /\ Len(batch) > 0 /\ Len(batch) <= max_bs
         /\ batch \in Seq(Seqs) /\ DOMAIN batch = 1 .. Len(batch)
         /\ ~is_prefill
         /\ bucket(Len(batch)) \in Nat
         /\ Len(batch) <= bucket(Len(batch)) /\ bucket(Len(batch)) <= max_bs
<1>1. batch \in Seq(Seqs) /\ BatchBudget
  BY DEF JInv, SInv, SchedTypeOK, Counters
<1>2. /\ Len(batch) \in Nat /\ Len(batch) > 0 /\ DOMAIN batch = 1 .. Len(batch)
  BY <1>1, LenProperties, EmptySeq
<1>3. Len(batch) <= MaxNumSeqs /\ Len(batch) <= 512 /\ ~is_prefill
  BY <1>1 DEF BatchBudget, UsesGraph
<1>4. Len(batch) <= max_bs
  BY <1>2, <1>3, Sizes
<1> QED
  BY <1>1, <1>2, <1>3, <1>4, BucketFits

(* The bucket of the batch, the buffers as the replay finds them, and the  *)
(* row of a sequence in them.                                              *)
Bucket == bucket(Len(batch))

Filled == FilledGraphVars(Len(batch), Bucket)

BatchRow(i) ==
  [slot  |-> DecodeSlot(batch[i]),
   len   |-> Len(tok[batch[i]]),
   pages |-> [c \in 1 .. max_num_blocks_captured |->
                IF c <= TableColumns THEN block_tables[i][c] ELSE 0]]

(* The rows of the bucket are those of the batch, then padding: the rows   *)
(* of earlier batches are all overwritten.                                 *)
LEMMA FilledRows ==
  ASSUME JInv, batch # <<>>, UsesGraph
  PROVE  \A i \in 1 .. Bucket :
           /\ SubSeq(Filled, 1, Bucket)[i] = Filled[i]
           /\ i <= Len(batch) => Filled[i] = BatchRow(i)
           /\ ~(i <= Len(batch)) => Filled[i] = PaddingRow(i)
<1> DEFINE T == {Filled[i] : i \in 1 .. max_bs}
<1>1. /\ Bucket \in Nat /\ Bucket <= max_bs /\ max_bs \in Nat
  BY GraphBatch, Sizes DEF Bucket
<1>2. Filled \in Seq(T) /\ Len(Filled) = max_bs
  <2>1. Filled = [i \in 1 .. max_bs |-> Filled[i]]
    BY DEF Filled, FilledGraphVars
  <2>2. Filled \in [1 .. max_bs -> T]
    BY <2>1
  <2> HIDE DEF T
  <2> QED
    BY <1>1, <2>2
<1>3. \A i \in 1 .. Bucket : SubSeq(Filled, 1, Bucket)[i] = Filled[i]
  <2> HIDE DEF T
  <2> QED
    BY <1>1, <1>2
<1>4. ASSUME NEW i \in 1 .. Bucket
      PROVE  /\ i <= Len(batch) => Filled[i] = BatchRow(i)
             /\ ~(i <= Len(batch)) => Filled[i] = PaddingRow(i)
  <2>1. i \in 1 .. max_bs /\ i <= Bucket
    BY <1>1
  <2> QED
    BY <2>1 DEF Filled, FilledGraphVars, BatchRow
<1> QED
  BY <1>3, <1>4

(* max() of one number.                                                    *)
LEMMA OneMax ==
  ASSUME NEW i \in Int
  PROVE  Max({i}) = i
<1>1. \E x \in {i} : \A y \in {i} : y <= x
  OBVIOUS
<1> QED
  BY <1>1 DEF Max

(* A replayed graph stores what an eager run stores: padding rows store    *)
(* nothing, and no two rows of the batch share a slot, so that it does not *)
(* matter which of them the kernel writes last.                            *)
LEMMA GraphStores ==
  ASSUME JInv, batch # <<>>, RunGraph
  PROVE  RunModel
<1> DEFINE bs == Len(batch)
           b == Bucket
           rows == SubSeq(Filled, 1, b)
           writers(slot) == {i \in StoredRows(b) : rows[i].slot = slot}
           stored == {batch[i] : i \in StoredRows(Len(batch))}
           writer(x, o) ==
             CHOOSE s \in stored : \E w \in Stores(s) : w[1] = <<x, o>>
           store(x, o) == CHOOSE w \in Stores(writer(x, o)) : w[1] = <<x, o>>
           old(x, o) == IF \E s \in stored : \E w \in Stores(s) : w[1] = <<x, o>>
                        THEN Prefixed(writer(x, o), store(x, o)[2])
                        ELSE kv[x][o]
           new(x, o) == IF writers(<<x, o>>) = {} THEN kv[x][o]
                        ELSE RowContent(Max(writers(<<x, o>>)))
<1>1. kv' = [x \in Blocks |-> [o \in Offsets |-> new(x, o)]]
  BY DEF RunGraph, Filled, Bucket
<1>2. UsesGraph
  BY DEF RunGraph
<1>3. /\ bs \in Nat /\ bs > 0 /\ batch \in Seq(Seqs) /\ DOMAIN batch = 1 .. bs
      /\ ~is_prefill /\ b \in Nat /\ bs <= b
  BY <1>2, GraphBatch DEF Bucket
<1>4. StoredRows(b) = 1 .. b
  BY <1>3, AllRowsStored
<1>5. stored = Range(batch)
  BY <1>3, StoredBatch
<1>6. \A i \in 1 .. b : /\ i <= bs => rows[i].slot = DecodeSlot(batch[i])
                        /\ ~(i <= bs) => rows[i].slot = NoSlot
  <2> TAKE i \in 1 .. b
  <2>1. /\ rows[i] = Filled[i]
        /\ i <= bs => Filled[i] = BatchRow(i)
        /\ ~(i <= bs) => Filled[i] = PaddingRow(i)
    BY <1>2, FilledRows
  <2>2. PaddingRow(i).slot = NoSlot /\ BatchRow(i).slot = DecodeSlot(batch[i])
    BY DEF PaddingRow, BatchRow
  <2> HIDE DEF rows
  <2> QED
    BY <2>1, <2>2
<1>7. IsInjective(batch)
  BY DEF JInv, SInv, Queues
<1>8. ASSUME NEW x \in Blocks, NEW o \in Offsets
      PROVE  new(x, o) = old(x, o)
  <2>1. \A i \in writers(<<x, o>>) :
          i \in 1 .. bs /\ DecodeSlot(batch[i]) = <<x, o>>
    <3> TAKE i \in writers(<<x, o>>)
    <3>1. i \in 1 .. b /\ rows[i].slot = <<x, o>>
      BY <1>4
    <3>2. NoSlot # <<x, o>>
      BY DEF NoSlot
    <3> HIDE DEF b, rows
    <3>3. i <= bs
      BY <1>6, <3>1, <3>2
    <3>4. i \in 1 .. bs
      BY <1>3, <3>1, <3>3
    <3> QED
      BY <1>6, <3>1, <3>3, <3>4
  <2>2. \A i \in 1 .. bs :
          DecodeSlot(batch[i]) = <<x, o>> => i \in writers(<<x, o>>)
    <3> TAKE i \in 1 .. bs
    <3>1. i \in 1 .. b /\ i <= bs
      BY <1>3
    <3> QED
      BY <1>4, <1>6, <3>1
  <2> HIDE DEF writers, stored, b, rows
  <2>3. CASE writers(<<x, o>>) = {}
    <3>1. ASSUME NEW s \in stored, NEW w \in Stores(s), w[1] = <<x, o>>
          PROVE  FALSE
      <4>1. PICK i \in 1 .. bs : batch[i] = s
        BY <1>3, <1>5 DEF Range
      <4>2. DecodeSlot(s) = <<x, o>>
        BY <1>3, <3>1, DecodeStores
      <4> QED
        BY <2>2, <2>3, <4>1, <4>2
    <3> QED
      BY <2>3, <3>1
  <2>4. CASE writers(<<x, o>>) # {}
    <3>1. PICK i \in writers(<<x, o>>) : TRUE
      BY <2>4
    <3>2. i \in 1 .. bs /\ DecodeSlot(batch[i]) = <<x, o>>
      BY <2>1
    <3> DEFINE s == batch[i]
               v == <<DecodeSlot(s), Len(tok[s]) - 1>>
    <3>3. s \in Range(batch) /\ v \in Stores(s) /\ v[1] = <<x, o>>
      BY <1>3, <3>2, DecodeStores DEF Range
    <3>4. writers(<<x, o>>) = {i}
      <4> SUFFICES ASSUME NEW j \in writers(<<x, o>>)
                   PROVE  j = i
        BY <3>1
      <4>1. j \in 1 .. bs /\ DecodeSlot(batch[j]) = <<x, o>>
        BY <2>1
      <4> DEFINE r == batch[j]
                 w == <<DecodeSlot(r), Len(tok[r]) - 1>>
      <4>2. r \in Range(batch) /\ w \in Stores(r) /\ w[1] = <<x, o>>
        BY <1>3, <4>1, DecodeStores DEF Range
      <4>3. s = r
        <5> HIDE DEF s, v, r, w
        <5> QED
          BY <3>3, <4>2, SlotsDistinctFromInv
      <4> QED
        BY <1>3, <1>7, <3>2, <4>1, <4>3 DEF IsInjective
    <3>5. new(x, o) = tok[s]
      <4>1. Max({i}) = i
        BY <3>2, OneMax
      <4>2. RowContent(i) = tok[s]
        BY <3>2 DEF RowContent
      <4> QED
        BY <3>4, <4>1, <4>2
    <3>6. old(x, o) = Prefixed(s, v[2])
      <4> HIDE DEF s, v
      <4>1. \E r \in stored : \E w \in Stores(r) : w[1] = <<x, o>>
        BY <1>5, <3>3
      <4>2. /\ writer(x, o) \in stored
            /\ \E w \in Stores(writer(x, o)) : w[1] = <<x, o>>
        BY <4>1
      <4> HIDE DEF writer
      <4>3. store(x, o) \in Stores(writer(x, o)) /\ store(x, o)[1] = <<x, o>>
        BY <4>2
      <4> HIDE DEF store
      <4>4. writer(x, o) = s /\ store(x, o) = v
        BY <1>5, <3>3, <4>2, <4>3, SlotsDistinctFromInv
      <4>5. old(x, o) = Prefixed(writer(x, o), store(x, o)[2])
        BY <4>1
      <4> QED
        BY <4>4, <4>5
    <3>7. Prefixed(s, v[2]) = tok[s]
      <4>1. tok[s] \in Seq(Tokens) /\ Len(tok[s]) \in Nat
        BY <3>3, BatchSizes
      <4>2. v[2] + 1 = Len(tok[s])
        BY <4>1
      <4> HIDE DEF s, v
      <4>3. SubSeq(tok[s], 1, Len(tok[s])) = tok[s]
        BY <4>1
      <4> QED
        BY <4>2, <4>3 DEF Prefixed
    <3> QED
      BY <3>5, <3>6, <3>7
  <2> QED
    BY <2>3, <2>4
<1>9. kv' = [x \in Blocks |-> [o \in Offsets |-> old(x, o)]]
  <2> HIDE DEF new, old
  <2> QED
    BY <1>1, <1>8
<1> QED
  BY <1>9 DEF RunModel

(***************************************************************************)
(* The refinement, and the sizes                                           *)
(***************************************************************************)

(* Every step is one of ModelRunner.                                       *)
LEMMA GraphStepIsRunner ==
  ASSUME JInv, [GraphNext]_graphRunnerVars
  PROVE  [RunnerNext]_runnerVars
<1>1. CASE Dispatch /\ batch # <<>> /\ RunEager
  BY <1>1 DEF RunEager, RunnerNext
<1>2. CASE Dispatch /\ batch # <<>> /\ RunGraph
  BY <1>2, GraphStores DEF RunnerNext
<1>3. CASE phase # "dispatch" /\ SchedNext /\ UNCHANGED kv
  BY <1>3 DEF RunnerNext
<1>4. CASE UNCHANGED graphRunnerVars
  BY <1>4 DEF graphRunnerVars
<1> QED
  BY <1>1, <1>2, <1>3, <1>4 DEF GraphNext

(* So its invariant holds, at every step it takes.                         *)
LEMMA GraphInvariance ==
  ASSUME DigestSound
  PROVE  GraphSpec => []RunnerInv /\ [][RunnerNext]_runnerVars
<1>1. GraphInit => RunnerInv
  BY InitRunnerInv DEF GraphInit, RunnerInit
<1>2. RunnerInv /\ [GraphNext]_graphRunnerVars => [RunnerNext]_runnerVars
  BY GraphStepIsRunner DEF RunnerInv
<1>3. RunnerInv /\ [RunnerNext]_runnerVars => RunnerInv'
  BY NextRunnerInv, RunnerNextIsSched
<1> QED
  BY <1>1, <1>2, <1>3, PTL DEF GraphSpec

(* GraphRunner implements ModelRunner (RunnerSpec, run_model against the   *)
(* eager forward, model_runner.py:222-251): however many graphs are        *)
(* captured and whatever an earlier batch left in their buffers, a replay  *)
(* leaves the KV cache as an eager run of the same batch does.             *)
THEOREM GraphIsRunner ==
  ASSUME DigestSound
  PROVE  GraphSpec => RunnerSpec
<1>1. GraphInit => RunnerInit
  BY DEF GraphInit
<1> QED
  BY <1>1, GraphInvariance, PTL DEF GraphSpec, RunnerSpec

(* The most blocks a request with n prompt tokens is ever given.           *)
MostFor(n) ==
  IF Reserve THEN BlocksFor(n + MaxTokens) ELSE BlocksFor(n + MaxTokens - 1)

(* No table grows beyond that.                                             *)
TablesBounded ==
  \A s \in Seqs : table[s] # <<>> => Len(table[s]) <= MostFor(numPrompt[s])

(* Nor does what an unfinished request asks for.                           *)
LEMMA NeedsAtMost ==
  ASSUME TypeOK, NEW s \in Seqs, Unfinished(s)
  PROVE  /\ num_blocks(s) \in Nat /\ allocation_target(s) \in Nat
         /\ MostFor(numPrompt[s]) \in Nat
         /\ num_blocks(s) <= MostFor(numPrompt[s])
         /\ allocation_target(s) <= MostFor(numPrompt[s])
<1>1. numPrompt[s] \in Nat /\ Len(tok[s]) \in Nat /\ MaxTokens \in Nat \ {0}
  BY MaxTokensAssumption, LenProperties DEF TypeOK
<1>2. Len(tok[s]) < numPrompt[s] + MaxTokens
  BY <1>1 DEF Unfinished, num_completion_tokens
<1>3. /\ allocation_target(s) \in Nat /\ num_blocks(s) \in Nat
      /\ allocation_target(s) >= num_blocks(s)
  BY TargetProperties
<1>4. /\ numPrompt[s] + MaxTokens \in Nat /\ numPrompt[s] + MaxTokens - 1 \in Nat
      /\ Len(tok[s]) <= numPrompt[s] + MaxTokens - 1
  BY <1>1, <1>2
<1>5. MostFor(numPrompt[s]) \in Nat
  BY <1>4, BlocksForBounds DEF MostFor
<1>6. allocation_target(s) <= MostFor(numPrompt[s])
  <2>1. CASE Reserve
    <3>1. allocation_target(s) = MostFor(numPrompt[s])
      BY <2>1 DEF allocation_target, max_num_blocks, MostFor
    <3> QED
      BY <1>5, <3>1
  <2>2. CASE ~Reserve
    <3>1. /\ allocation_target(s) = BlocksFor(Len(tok[s]))
          /\ MostFor(numPrompt[s]) = BlocksFor(numPrompt[s] + MaxTokens - 1)
      BY <2>2 DEF allocation_target, num_blocks, MostFor
    <3> QED
      BY <1>1, <1>4, <3>1, BlocksForMonotone
  <2> QED
    BY <2>1, <2>2
<1> QED
  BY <1>3, <1>5, <1>6

(* Every step keeps the tables bounded.                                    *)
LEMMA TablesBoundedStep ==
  ASSUME DigestSound, JInv, TablesBounded, [Next]_vars
  PROVE  TablesBounded'
<1>0. /\ TypeOK /\ BlocksAfterCreation /\ IInv
      /\ \A x \in Seqs : table[x] # <<>> => Unfinished(x)
  BY DEF JInv, IInv, SInv, RequestOK
<1>1. ASSUME NEW x \in Seqs, numPrompt'[x] = numPrompt[x],
             table'[x] = table[x] \/ table'[x] = <<>>
      PROVE  table'[x] # <<>> => Len(table'[x]) <= MostFor(numPrompt'[x])
  BY <1>1 DEF TablesBounded
<1>2. ASSUME numPrompt' = numPrompt,
             \A x \in Seqs : table'[x] = table[x] \/ table'[x] = <<>>
      PROVE  TablesBounded'
  BY <1>1, <1>2 DEF TablesBounded, MostFor
<1>3. CASE UNCHANGED vars
  BY <1>2, <1>3 DEF vars
<1>4. ASSUME NEW s \in Seqs, NEW p \in Prompts, Create(s, p)
      PROVE  TablesBounded'
  <2>1. /\ \A x \in Seqs : x # s => numPrompt'[x] = numPrompt[x]
        /\ table' = table /\ table[s] = <<>>
    BY <1>0, <1>4 DEF Create, NewSequence, TypeOK, BlocksAfterCreation
  <2> QED
    BY <1>1, <2>1 DEF TablesBounded, MostFor
<1>5. ASSUME NEW s \in Seqs, numPrompt' = numPrompt, Unfinished(s),
             \A x \in Seqs : x # s => table'[x] = table[x],
             \/ Len(table'[s]) = allocation_target(s)
             \/ Len(table'[s]) \in Nat /\ Len(table'[s]) <= num_blocks(s)
      PROVE  TablesBounded'
  <2>1. Len(table'[s]) <= MostFor(numPrompt[s])
    <3>1. /\ num_blocks(s) \in Nat /\ allocation_target(s) \in Nat
          /\ MostFor(numPrompt[s]) \in Nat
          /\ num_blocks(s) <= MostFor(numPrompt[s])
          /\ allocation_target(s) <= MostFor(numPrompt[s])
      BY <1>0, <1>5, NeedsAtMost
    <3> QED
      BY <1>5, <3>1
  <2> QED
    BY <1>1, <1>5, <2>1 DEF TablesBounded, MostFor
<1>6. ASSUME NEW s \in Seqs, Admit(s)
      PROVE  TablesBounded'
  <2>1. PICK c \in 0 .. num_blocks(s) - 1 :
          CachedBlocks(s, c) /\ CanAllocate(s, c) /\ Allocate(s, c)
    BY <1>6 DEF Admit
  <2>2. PICK hits, fresh :
          /\ Took(s, hits, fresh)
          /\ Len(hits) = c /\ Len(fresh) = allocation_target(s) - c
          /\ table' = [table EXCEPT ![s] = hits \o fresh]
          /\ UNCHANGED <<tok, numPrompt>>
    BY <1>0, <1>6, <2>1, AllocateTook DEF IInv, Contents, Accounting, Admit
  <2>3. hits \in Seq(Blocks) /\ fresh \in Seq(Blocks)
    BY <2>2 DEF Took
  <2>4. Len(hits \o fresh) = Len(hits) + Len(fresh)
    BY <2>3, ConcatProperties
  <2>5. Unfinished(s) /\ allocation_target(s) \in Nat
    BY <1>0, <1>6, NeedsAtMost DEF Admit
  <2>6. Len(hits \o fresh) = allocation_target(s)
    BY <2>1, <2>2, <2>4, <2>5
  <2>7. /\ table'[s] = hits \o fresh
        /\ \A x \in Seqs : x # s => table'[x] = table[x]
    BY <1>0, <2>2 DEF TypeOK
  <2> QED
    BY <1>5, <2>2, <2>5, <2>6, <2>7
<1>7. ASSUME NEW s \in Seqs, RejectAdmission(s)
      PROVE  TablesBounded'
  BY <1>2, <1>7 DEF RejectAdmission, RejectedLookup, seqVars
<1>8. ASSUME NEW s \in Seqs, Grow(s)
      PROVE  TablesBounded'
  <2>1. /\ table' = [table EXCEPT ![s] = Append(table[s], Head(free))]
        /\ numPrompt' = numPrompt /\ num_blocks(s) > Len(table[s])
        /\ table[s] # <<>>
    BY <1>0, <1>8, GrowTook DEF Grow, MayAppend, IInv
  <2>2. /\ \A x \in Seqs : x # s => table'[x] = table[x]
        /\ Len(table'[s]) = Len(table[s]) + 1 /\ Len(table[s]) \in Nat
    BY <1>0, <2>1 DEF TypeOK
  <2>3. Unfinished(s) /\ num_blocks(s) \in Nat
    BY <1>0, <2>1, NeedsAtMost
  <2>4. Len(table'[s]) \in Nat /\ Len(table'[s]) <= num_blocks(s)
    BY <2>1, <2>2, <2>3
  <2> QED
    BY <1>5, <2>1, <2>2, <2>3, <2>4
<1>9. ASSUME NEW s \in Seqs, Deallocate(s)
      PROVE  \A x \in Seqs : table'[x] = table[x] \/ table'[x] = <<>>
  BY <1>0, <1>9 DEF Deallocate, TypeOK
<1>10. ASSUME NEW s \in Seqs, NEW n \in 1 .. Len(tok[s]), ComputePart(s, n)
       PROVE  TablesBounded'
  BY <1>2, <1>10 DEF ComputePart, ComputeChunk
<1>11. ASSUME NEW s \in Seqs, NEW n \in 1 .. Len(tok[s]), NEW t \in Tokens,
              ComputeAll(s, n, t)
       PROVE  TablesBounded'
  BY <1>2, <1>11 DEF ComputeAll, ComputeToken
<1>12. ASSUME NEW s \in Seqs, NEW n \in 1 .. Len(tok[s]), NEW t \in Tokens,
              ComputeFinal(s, n, t)
       PROVE  TablesBounded'
  BY <1>2, <1>9, <1>12 DEF ComputeFinal, ComputeLast
<1>13. ASSUME NEW s \in Seqs, Release(s)
       PROVE  TablesBounded'
  BY <1>2, <1>9, <1>13 DEF Release
<1> QED
  BY <1>3, <1>4, <1>6, <1>7, <1>8, <1>10, <1>11, <1>12, <1>13 DEF Next

(* No request asks for more blocks than a captured table has columns.      *)
(* That is what max_model_len is for, but add_request compares no prompt   *)
(* with it, so that it is an assumption on the requests.                   *)
PromptsFitModel ==
  \A p \in Prompts : MostBlocks(p) <= max_num_blocks_captured

(* The part of the invariant about sizes.                                  *)
SizesInv == PromptSizes /\ TablesBounded

(* So the tables of a batch fit the captured ones.                         *)
LEMMA TablesFit ==
  ASSUME PromptsFitModel, JInv, SizesInv, NEW s \in Range(batch)
  PROVE  Len(table[s]) <= max_num_blocks_captured
<1>1. /\ s \in Seqs /\ table[s] # <<>> /\ Len(table[s]) \in Nat
      /\ TypeOK /\ BlocksAfterCreation
  BY BatchSizes DEF JInv, IInv
<1>2. tok[s] # <<>>
  BY <1>1 DEF BlocksAfterCreation
<1>3. PICK p \in Prompts : numPrompt[s] = Len(p)
  BY <1>1, <1>2 DEF SizesInv, PromptSizes
<1>4. MostFor(numPrompt[s]) = MostBlocks(p)
  BY <1>3 DEF MostFor, MostBlocks
<1>5. MostBlocks(p) <= max_num_blocks_captured
  BY DEF PromptsFitModel
<1>6. Len(table[s]) <= MostFor(numPrompt[s])
  BY <1>1 DEF SizesInv, TablesBounded
<1>7. Len(p) \in Nat
  BY <1>1, <1>3 DEF TypeOK
<1>8. MostBlocks(p) \in Nat
  <2>1. Len(p) + MaxTokens \in Nat /\ Len(p) + MaxTokens - 1 \in Nat
    BY <1>7, MaxTokensAssumption
  <2> QED
    BY <2>1, BlocksForBounds DEF MostBlocks
<1>9. max_num_blocks_captured \in Nat
  BY MaxModelLenAssumption, BlocksForBounds DEF max_num_blocks_captured
<1> QED
  BY <1>1, <1>4, <1>5, <1>6, <1>8, <1>9

(* And the batch fits the largest bucket.                                  *)
LEMMA FitsFromInv ==
  ASSUME PromptsFitModel, JInv, SizesInv
  PROVE  GraphFits
<1> SUFFICES ASSUME batch # <<>>, UsesGraph
             PROVE  /\ Len(batch) <= max_bs
                    /\ TableColumns <= max_num_blocks_captured
  BY DEF GraphFits
<1>1. Len(batch) <= max_bs
  BY GraphBatch
<1>2. TableColumns <= max_num_blocks_captured
  BY ColumnsOf, TablesFit
<1> QED
  BY <1>1, <1>2

(* Every step keeps the sizes.                                             *)
LEMMA NextSizes ==
  ASSUME DigestSound
  PROVE  JInv /\ SizesInv /\ [SchedNext]_schedVars => SizesInv'
<1> SUFFICES ASSUME JInv, SizesInv, [SchedNext]_schedVars PROVE SizesInv'
  OBVIOUS
<1>1. [Next]_vars /\ TypeOK
  BY NextJInv DEF JInv, IInv
<1> QED
  BY <1>1, PromptSizesStep, TablesBoundedStep DEF SizesInv

(* So they always hold.                                                    *)
LEMMA SizesInvariance ==
  ASSUME DigestSound
  PROVE  GraphSpec => []SizesInv
<1>1. GraphInit => SizesInv
  BY DEF GraphInit, RunnerInit, SchedInit, Init, SizesInv, PromptSizes,
         TablesBounded
<1>2. /\ RunnerInv /\ [RunnerNext]_runnerVars
      /\ SizesInv
      => SizesInv'
  BY NextSizes, RunnerNextIsSched DEF RunnerInv
<1> QED
  BY <1>1, <1>2, GraphInvariance, PTL DEF GraphSpec

(* A decode that is replayed always has a captured graph of at least its   *)
(* size, whose tables are wide enough (GraphRunner.GraphFits: graph_bs,    *)
(* graph_vars, model_runner.py:222-251), for any max_num_seqs and any      *)
(* max_model_len the requests fit, with reserve_decode_kv or without.      *)
THEOREM GraphFitsHolds ==
  ASSUME DigestSound, PromptsFitModel
  PROVE  GraphSpec => []GraphFits
<1>1. RunnerInv /\ SizesInv => GraphFits
  BY FitsFromInv DEF RunnerInv
<1> QED
  BY <1>1, GraphInvariance, SizesInvariance, PTL

(***************************************************************************)
(* Reading pages                                                           *)
(***************************************************************************)

(* What attention reads through a row of a plan, in a given cache.         *)
PageRead(row, cache) ==
  [p \in 0 .. ((Len(row.pages) - 1) * BlockSize + row.last) - 1 |->
     LET b == row.pages[(p \div BlockSize) + 1]
     IN  IF b = NoBlock THEN <<>> ELSE cache[b][p % BlockSize]]

(* What a cache holds of the first n positions of a sequence with table t. *)
Contained(t, n, cache) ==
  [p \in 0 .. n - 1 |-> cache[t[(p \div BlockSize) + 1]][p % BlockSize]]

(* A row that lists the blocks of n positions, and how many are in the     *)
(* last, reads exactly those.                                              *)
LEMMA PagesRead ==
  ASSUME NEW t \in Seq(Blocks), NEW n \in Nat \ {0}, BlocksFor(n) <= Len(t),
         NEW row, Len(row.pages) = BlocksFor(n),
         \A c \in 1 .. BlocksFor(n) : row.pages[c] = t[c],
         row.last = ((n - 1) % BlockSize) + 1,
         NEW cache
  PROVE  PageRead(row, cache) = Contained(t, n, cache)
<1> DEFINE k == BlocksFor(n)
<1>1. /\ k \in Nat /\ k > 0 /\ k = ((n - 1) \div BlockSize) + 1
      /\ n - ((k - 1) * BlockSize) - 1 = (n - 1) % BlockSize
      /\ (n - 1) % BlockSize \in Nat
  BY LastPlace DEF Offsets
<1>2. (k - 1) * BlockSize + row.last = n
  <2> DEFINE m == (k - 1) * BlockSize
  <2>1. m \in Nat
    BY <1>1, BlockSizeAssumption
  <2>2. n - m - 1 = (n - 1) % BlockSize /\ row.last = ((n - 1) % BlockSize) + 1
    BY <1>1
  <2> HIDE DEF m, k
  <2>3. m + row.last = n
    BY <1>1, <2>1, <2>2
  <2> QED
    BY <2>3 DEF m
<1>3. ASSUME NEW p \in 0 .. n - 1
      PROVE  /\ (p \div BlockSize) + 1 \in 1 .. k
             /\ row.pages[(p \div BlockSize) + 1] = t[(p \div BlockSize) + 1]
             /\ t[(p \div BlockSize) + 1] # NoBlock
  <2>1. p \in Nat /\ p <= n - 1 /\ n - 1 \in Nat
    OBVIOUS
  <2>2. p \div BlockSize <= (n - 1) \div BlockSize
    BY <2>1, DivMonotone, BlockSizeAssumption
  <2>3. p \div BlockSize \in Nat
    BY <2>1, BlockSizeAssumption, PlaceParts
  <2>4. (n - 1) \div BlockSize \in Nat
    BY <2>1, BlockSizeAssumption, PlaceParts
  <2>5. (p \div BlockSize) + 1 \in 1 .. k
    BY <1>1, <2>2, <2>3, <2>4
  <2> DEFINE c == (p \div BlockSize) + 1
  <2>6. c \in 1 .. k /\ Len(t) \in Nat
    BY <2>5
  <2> HIDE DEF c
  <2>7. c \in 1 .. Len(t)
    BY <1>1, <2>6
  <2>8. t[c] \in Blocks
    BY <2>7
  <2>9. t[c] # NoBlock
    BY <2>8, NumBlocksAssumption DEF Blocks, NoBlock
  <2> QED
    BY <2>6, <2>9 DEF c
<1> QED
  <2>1. PageRead(row, cache)
          = [p \in 0 .. n - 1 |->
               LET b == row.pages[(p \div BlockSize) + 1]
               IN  IF b = NoBlock THEN <<>> ELSE cache[b][p % BlockSize]]
    BY <1>2 DEF PageRead
  <2>2. \A p \in 0 .. n - 1 :
          (LET b == row.pages[(p \div BlockSize) + 1]
           IN  IF b = NoBlock THEN <<>> ELSE cache[b][p % BlockSize])
            = cache[t[(p \div BlockSize) + 1]][p % BlockSize]
    BY <1>3
  <2> QED
    BY <2>1, <2>2 DEF Contained

(* The lengths attention is told are what is cached and what is scheduled, *)
(* and the tables cover them.                                              *)
LEMMA SeqLens ==
  ASSUME JInv, NEW i \in DOMAIN batch, NEW s, s = batch[i]
  PROVE  /\ s \in Range(batch)
         /\ seq_lens[i] = numCached[s] + numScheduled[s]
         /\ seq_lens[i] \in Nat \ {0} /\ seq_lens[i] <= Len(tok[s])
         /\ BlocksFor(seq_lens[i]) <= Len(table[s])
         /\ DOMAIN seq_lens = DOMAIN batch
<1>1. s \in Range(batch)
  BY DEF Range
<1>2. /\ Roomy(s) /\ Len(tok[s]) \in Nat /\ Len(table[s]) \in Nat
      /\ numCached[s] \in Nat /\ numScheduled[s] \in Nat /\ numScheduled[s] > 0
      /\ numCached[s] + numScheduled[s] <= Len(tok[s])
      /\ ~is_prefill => numCached[s] + numScheduled[s] = Len(tok[s])
  BY <1>1, BatchSizes
<1>3. seq_lens[i] = numCached[s] + numScheduled[s]
  BY <1>2 DEF seq_lens
<1>4. seq_lens[i] \in Nat \ {0} /\ seq_lens[i] <= Len(tok[s])
  BY <1>2, <1>3
<1>5. BlocksFor(seq_lens[i]) <= Len(table[s])
  <2>1. /\ BlocksFor(seq_lens[i]) <= num_blocks(s)
        /\ num_blocks(s) \in Nat /\ BlocksFor(seq_lens[i]) \in Nat
    BY <1>2, <1>4, BlocksForMonotone, BlocksForBounds DEF num_blocks
  <2>2. num_blocks(s) <= Len(table[s])
    BY <1>2 DEF Roomy
  <2> QED
    BY <1>2, <2>1, <2>2
<1> QED
  BY <1>1, <1>3, <1>4, <1>5 DEF seq_lens

(* _page_metadata takes the blocks of the positions from a table that      *)
(* starts with them.                                                       *)
LEMMA MetadataRow ==
  ASSUME NEW tables, NEW lens, NEW i \in DOMAIN lens,
         NEW t \in Seq(Blocks), NEW T, tables[i] \in Seq(T),
         lens[i] \in Nat \ {0}, BlocksFor(lens[i]) <= Len(t),
         BlocksFor(lens[i]) <= Len(tables[i]),
         \A c \in 1 .. BlocksFor(lens[i]) : tables[i][c] = t[c]
  PROVE  /\ Len(PageMetadata(tables, lens)[i].pages) = BlocksFor(lens[i])
         /\ \A c \in 1 .. BlocksFor(lens[i]) :
              PageMetadata(tables, lens)[i].pages[c] = t[c]
         /\ PageMetadata(tables, lens)[i].last = ((lens[i] - 1) % BlockSize) + 1
<1> DEFINE n == lens[i]
           k == BlocksFor(n)
           r == tables[i]
<1>1. k \in Nat /\ Len(r) \in Nat
  <2>1. n \in Nat /\ n > 0
    OBVIOUS
  <2>2. k \in Nat
    <3> HIDE DEF n
    <3> QED
      BY <2>1, LastPlace
  <2>3. Len(r) \in Nat
    BY LenProperties
  <2> QED
    BY <2>2, <2>3
<1>2. PageMetadata(tables, lens)[i]
        = [pages |-> SubSeq(r, 1, k), last |-> ((n - 1) % BlockSize) + 1]
  BY DEF PageMetadata
<1>3. Len(SubSeq(r, 1, k)) = k /\ \A c \in 1 .. k : SubSeq(r, 1, k)[c] = r[c]
  <2>1. r \in Seq(T) /\ k <= Len(r)
    OBVIOUS
  <2> HIDE DEF k, r
  <2> QED
    BY <1>1, <2>1
<1>4. /\ PageMetadata(tables, lens)[i].pages = SubSeq(r, 1, k)
      /\ PageMetadata(tables, lens)[i].last = ((n - 1) % BlockSize) + 1
  <2> DEFINE q == SubSeq(r, 1, k)
             l == ((n - 1) % BlockSize) + 1
  <2>1. PageMetadata(tables, lens)[i] = [pages |-> q, last |-> l]
    BY <1>2
  <2> HIDE DEF q, l
  <2>2. /\ PageMetadata(tables, lens)[i].pages = q
        /\ PageMetadata(tables, lens)[i].last = l
    BY <2>1
  <2> QED
    BY <2>2 DEF q, l
<1>5. \A c \in 1 .. k : r[c] = t[c]
  OBVIOUS
<1>6. /\ Len(PageMetadata(tables, lens)[i].pages) = k
      /\ \A c \in 1 .. k : PageMetadata(tables, lens)[i].pages[c] = t[c]
  <2> HIDE DEF k, r, n
  <2> QED
    BY <1>3, <1>4, <1>5
<1> QED
  BY <1>4, <1>6

(***************************************************************************)
(* The rows of a plan                                                      *)
(***************************************************************************)

(* The row of a plan is right for the first n positions of s.              *)
RowFor(row, s, n) ==
  /\ Len(row.pages) = BlocksFor(n)
  /\ \A c \in 1 .. BlocksFor(n) : row.pages[c] = table[s][c]
  /\ row.last = ((n - 1) % BlockSize) + 1

(* The row of prepare_block_tables starts with the table of the sequence.  *)
LEMMA PaddedRow ==
  ASSUME JInv, batch # <<>>, NEW i \in DOMAIN batch, NEW s, s = batch[i]
  PROVE  /\ block_tables[i] \in Seq(Blocks \cup {NoBlock})
         /\ Len(block_tables[i]) = TableColumns
         /\ Len(table[s]) <= TableColumns /\ TableColumns \in Nat
         /\ table[s] \in Seq(Blocks)
         /\ \A c \in 1 .. Len(table[s]) : block_tables[i][c] = table[s][c]
<1>1. s \in Range(batch)
  BY DEF Range
<1>2. /\ TableColumns \in Nat /\ Len(table[s]) <= TableColumns
      /\ table[s] \in Seq(Blocks) /\ Len(table[s]) \in Nat
  BY <1>1, ColumnsOf, BatchSizes
<1> DEFINE t == table[s]
           w == TableColumns
           r == [c \in 1 .. w |-> IF c <= Len(t) THEN t[c] ELSE NoBlock]
<1>3. block_tables[i] = r
  BY DEF block_tables, PaddedTo
<1> HIDE DEF t, w
<1>4. r \in Seq(Blocks \cup {NoBlock}) /\ Len(r) = w
  <2>1. t \in Seq(Blocks) /\ w \in Nat
    BY <1>2 DEF t, w
  <2>2. r \in [1 .. w -> Blocks \cup {NoBlock}]
    <3>1. \A c \in 1 .. w : c <= Len(t) => t[c] \in Blocks
      BY <2>1
    <3> QED
      BY <3>1
  <2> QED
    BY <2>1, <2>2
<1>5. \A c \in 1 .. Len(t) : r[c] = t[c]
  BY <1>2 DEF t, w
<1> QED
  BY <1>2, <1>3, <1>4, <1>5 DEF t, w

(* The plan of an eager run has the right row for every sequence.          *)
LEMMA EagerRow ==
  ASSUME JInv, batch # <<>>, NEW i \in DOMAIN batch, NEW s, s = batch[i]
  PROVE  RowFor(PageMetadata(block_tables, seq_lens)[i], s, seq_lens[i])
<1>1. /\ i \in DOMAIN seq_lens /\ seq_lens[i] \in Nat \ {0}
      /\ BlocksFor(seq_lens[i]) <= Len(table[s])
  BY SeqLens
<1>2. /\ block_tables[i] \in Seq(Blocks \cup {NoBlock})
      /\ Len(block_tables[i]) = TableColumns
      /\ Len(table[s]) <= TableColumns /\ TableColumns \in Nat
      /\ table[s] \in Seq(Blocks)
      /\ \A c \in 1 .. Len(table[s]) : block_tables[i][c] = table[s][c]
  BY PaddedRow
<1>3. BlocksFor(seq_lens[i]) \in Nat /\ Len(table[s]) \in Nat
  <2>1. seq_lens[i] \in Nat /\ seq_lens[i] > 0
    BY <1>1
  <2> QED
    BY <1>2, <2>1, LastPlace, LenProperties
<1>4. /\ BlocksFor(seq_lens[i]) <= Len(block_tables[i])
      /\ \A c \in 1 .. BlocksFor(seq_lens[i]) : block_tables[i][c] = table[s][c]
  BY <1>1, <1>2, <1>3
<1> HIDE DEF block_tables, seq_lens
<1> QED
  BY <1>1, <1>2, <1>4, MetadataRow DEF RowFor

(* The lengths and the tables of the rows of a bucket.                     *)
GraphLens == [i \in 1 .. Bucket |-> SubSeq(Filled, 1, Bucket)[i].len]

GraphTables == [i \in 1 .. Bucket |-> SubSeq(Filled, 1, Bucket)[i].pages]

(* The plan of a replayed graph has them too, whatever the padding.        *)
LEMMA GraphRow ==
  ASSUME JInv, batch # <<>>, UsesGraph, TableColumns <= max_num_blocks_captured,
         NEW i \in DOMAIN batch, NEW s, s = batch[i]
  PROVE  /\ RowFor(PageMetadata(GraphTables, GraphLens)[i], s, seq_lens[i])
<1>1. /\ i \in DOMAIN seq_lens /\ seq_lens[i] \in Nat \ {0}
      /\ BlocksFor(seq_lens[i]) <= Len(table[s])
  BY SeqLens
<1>2. /\ block_tables[i] \in Seq(Blocks \cup {NoBlock})
      /\ Len(block_tables[i]) = TableColumns
      /\ Len(table[s]) <= TableColumns /\ TableColumns \in Nat
      /\ table[s] \in Seq(Blocks)
      /\ \A c \in 1 .. Len(table[s]) : block_tables[i][c] = table[s][c]
  BY PaddedRow
<1>3. BlocksFor(seq_lens[i]) \in Nat /\ Len(table[s]) \in Nat
  <2>1. seq_lens[i] \in Nat /\ seq_lens[i] > 0
    BY <1>1
  <2> QED
    BY <1>2, <2>1, LastPlace, LenProperties
<1>4. i \in 1 .. Bucket /\ i <= Len(batch) /\ ~is_prefill
  BY GraphBatch DEF Bucket
<1>5. SubSeq(Filled, 1, Bucket)[i] = BatchRow(i)
  BY <1>4, FilledRows
<1>6. i \in DOMAIN GraphLens /\ GraphLens[i] = seq_lens[i]
  <2>1. seq_lens[i] = Len(tok[s])
    BY <1>4 DEF seq_lens
  <2>2. BatchRow(i).len = Len(tok[s])
    BY DEF BatchRow
  <2> QED
    BY <1>4, <1>5, <2>1, <2>2 DEF GraphLens
<1> DEFINE m == max_num_blocks_captured
           r == [c \in 1 .. m |->
                   IF c <= TableColumns THEN block_tables[i][c] ELSE 0]
<1>7. GraphTables[i] = r
  <2>1. BatchRow(i).pages = r
    BY DEF BatchRow
  <2> QED
    BY <1>4, <1>5, <2>1 DEF GraphTables
<1>8. m \in Nat
  BY MaxModelLenAssumption, BlocksForBounds DEF max_num_blocks_captured
<1> DEFINE T == Blocks \cup {NoBlock} \cup {0}
<1>9. r \in Seq(T) /\ Len(r) = m
  <2>1. \A c \in 1 .. m : c <= TableColumns => block_tables[i][c] \in T
    BY <1>2
  <2>2. r \in [1 .. m -> T]
    BY <2>1
  <2> HIDE DEF r, m, T
  <2> QED
    BY <1>8, <2>2
<1>10. \A c \in 1 .. BlocksFor(seq_lens[i]) : r[c] = table[s][c]
  <2> TAKE c \in 1 .. BlocksFor(seq_lens[i])
  <2>1. c \in 1 .. Len(table[s]) /\ c <= TableColumns /\ c \in 1 .. m
    BY <1>1, <1>2, <1>3, <1>8
  <2> QED
    BY <1>2, <2>1
<1>11. BlocksFor(seq_lens[i]) <= Len(r)
  BY <1>1, <1>2, <1>3, <1>8, <1>9
<1> HIDE DEF r, T
<1> QED
  <2>1. /\ GraphTables[i] \in Seq(T)
        /\ GraphLens[i] \in Nat \ {0} /\ BlocksFor(GraphLens[i]) <= Len(table[s])
        /\ BlocksFor(GraphLens[i]) <= Len(GraphTables[i])
        /\ \A c \in 1 .. BlocksFor(GraphLens[i]) : GraphTables[i][c] = table[s][c]
    BY <1>1, <1>6, <1>7, <1>9, <1>10, <1>11
  <2>2. RowFor(PageMetadata(GraphTables, GraphLens)[i], s, GraphLens[i])
    BY <1>2, <1>6, <2>1, MetadataRow DEF RowFor
  <2> QED
    BY <1>6, <2>2

(***************************************************************************)
(* Running the model                                                       *)
(***************************************************************************)

(* Attention reads what it should for what is now the j-th of the batch.   *)
RowAttends(j) ==
  Attended(plan.bs - Len(batch) + j, batch[j])
    = [p \in ReadPositions(batch[j]) |-> Prefixed(batch[j], p)]

(* Either way a batch is planned for afresh; a ragged prefill has no       *)
(* pages, and no sequence with cached tokens.                              *)
LEMMA PlannedRows ==
  ASSUME JInv, batch # <<>>, RunEager \/ RunGraph, GraphFits, phase = "dispatch",
         NEW i \in DOMAIN batch
  PROVE  /\ plan'.bs = Len(batch)
         /\ \/ /\ plan'.wrapper = <<"ragged_prefill", 0>>
               /\ is_prefill /\ ~SomeCached
            \/ /\ plan'.wrapper # <<"ragged_prefill", 0>>
               /\ RowFor(plan'.rows[i], batch[i], seq_lens[i])
<1>1. CASE RunEager
  <2> DEFINE R == IF mode = "ragged_prefill" THEN <<>>
                  ELSE PageMetadata(block_tables, seq_lens)
  <2>1. plan' = [wrapper |-> <<mode, 0>>, bs |-> Len(batch), rows |-> R]
    BY <1>1 DEF RunEager, Planned, NewPlan
  <2>2. plan'.wrapper = <<mode, 0>> /\ plan'.bs = Len(batch) /\ plan'.rows = R
    BY <2>1
  <2>3. CASE mode = "ragged_prefill"
    <3>1. is_prefill /\ ~SomeCached
      BY <2>3 DEF mode
    <3> QED
      BY <2>2, <2>3, <3>1
  <2>4. CASE mode # "ragged_prefill"
    <3>1. RowFor(PageMetadata(block_tables, seq_lens)[i], batch[i], seq_lens[i])
      BY EagerRow
    <3>2. <<mode, 0>> # <<"ragged_prefill", 0>>
      BY <2>4
    <3> QED
      BY <2>2, <2>4, <3>1, <3>2
  <2> QED
    BY <2>3, <2>4
<1>2. CASE RunGraph
  <2>1. UsesGraph /\ TableColumns <= max_num_blocks_captured
    BY <1>2 DEF RunGraph, GraphFits
  <2>2. plan' = [wrapper |-> <<"graph", Bucket>>, bs |-> Len(batch),
                 rows |-> PageMetadata(GraphTables, GraphLens)]
    BY <1>2 DEF RunGraph, NewPlan, Bucket, Filled, GraphTables, GraphLens
  <2>3. RowFor(PageMetadata(GraphTables, GraphLens)[i], batch[i], seq_lens[i])
    BY <2>1, GraphRow
  <2>4. <<"graph", Bucket>> # <<"ragged_prefill", 0>>
    OBVIOUS
  <2>5. /\ plan'.wrapper = <<"graph", Bucket>> /\ plan'.bs = Len(batch)
        /\ plan'.rows = PageMetadata(GraphTables, GraphLens)
    BY <2>2
  <2> QED
    BY <2>3, <2>4, <2>5
<1> QED
  BY <1>1, <1>2

(* Running the model reads what it should.                                 *)
LEMMA RunAttends ==
  ASSUME JInv, GraphFits, KVInv', Dispatch, batch # <<>>, RunEager \/ RunGraph
  PROVE  AttendsOwn'
<1>1. /\ batch' = batch /\ tok' = tok /\ table' = table
      /\ numCached' = numCached /\ numScheduled' = numScheduled
      /\ prefillTokens' = prefillTokens
      /\ phase = "dispatch" /\ phase' = "postprocess"
  BY DEF Dispatch, vars, batchVars
<1> SUFFICES ASSUME NEW j \in DOMAIN batch
             PROVE  RowAttends(j)'
  BY <1>1 DEF AttendsOwn, RowAttends
<1>2. PICK s : s = batch[j]
  OBVIOUS
<1>3. PICK n : n = seq_lens[j]
  OBVIOUS
<1>4. /\ s \in Range(batch) /\ n = numCached[s] + numScheduled[s]
      /\ n \in Nat \ {0} /\ n <= Len(tok[s]) /\ BlocksFor(n) <= Len(table[s])
  BY <1>2, <1>3, SeqLens
<1>5. /\ s \in Seqs /\ numCached[s] \in Nat /\ numScheduled[s] \in Nat
      /\ Len(tok[s]) \in Nat /\ table[s] \in Seq(Blocks)
      /\ ~is_prefill => numCached[s] + numScheduled[s] = Len(tok[s])
  BY <1>4, BatchSizes
<1>6. ReadPositions(s)' = 0 .. n - 1
  BY <1>1, <1>4, <1>5 DEF ReadPositions, is_prefill
<1>7. \A p \in 0 .. n - 1 :
        kv'[table[s][(p \div BlockSize) + 1]][p % BlockSize] = Prefixed(s, p)'
  <2>1. WrittenUpTo(s, numCached[s] + numScheduled[s])'
    BY <1>1, <1>4 DEF KVInv, ScheduledWritten
  <2> QED
    BY <1>1, <1>4, <2>1 DEF WrittenUpTo, Written, TableSlot
<1>8. j \in Nat /\ Len(batch) \in Nat
  <2>1. batch \in Seq(Seqs)
    BY DEF JInv, SInv, SchedTypeOK
  <2> QED
    BY <2>1, LenProperties
<1>9. /\ plan'.bs - Len(batch') + j = j
      /\ \/ /\ plan'.wrapper = <<"ragged_prefill", 0>>
            /\ is_prefill /\ ~SomeCached
         \/ /\ plan'.wrapper # <<"ragged_prefill", 0>>
            /\ RowFor(plan'.rows[j], s, n)
  <2>1. /\ plan'.bs = Len(batch)
        /\ \/ /\ plan'.wrapper = <<"ragged_prefill", 0>>
              /\ is_prefill /\ ~SomeCached
           \/ /\ plan'.wrapper # <<"ragged_prefill", 0>>
              /\ RowFor(plan'.rows[j], s, n)
    BY <1>1, <1>2, <1>3, PlannedRows
  <2>2. plan'.bs - Len(batch') + j = j
    BY <1>1, <1>8, <2>1
  <2> QED
    BY <2>1, <2>2
<1>10. Attended(j, s)' = [p \in 0 .. n - 1 |-> Prefixed(s, p)']
  <2>1. CASE plan'.wrapper = <<"ragged_prefill", 0>> /\ ~SomeCached
    <3>1. numCached[s] = 0
      <4>1. ~(numCached[s] > 0)
        BY <1>4, <2>1 DEF SomeCached
      <4> QED
        BY <1>5, <4>1
    <3>2. numScheduled'[s] = n /\ numCached'[s] = 0
      BY <1>1, <1>4, <1>5, <3>1
    <3>3. Attended(j, s)'
            = [p \in 0 .. numScheduled'[s] - 1 |->
                 SubSeq(tok'[s], 1, numCached'[s] + p + 1)]
      BY <2>1 DEF Attended, Prefixed
    <3>4. \A p \in 0 .. n - 1 : numCached'[s] + p + 1 = p + 1
      BY <3>2
    <3>5. \A p \in 0 .. n - 1 :
            SubSeq(tok'[s], 1, numCached'[s] + p + 1) = Prefixed(s, p)'
      BY <3>4 DEF Prefixed
    <3> QED
      BY <3>2, <3>3, <3>5
  <2>2. CASE /\ plan'.wrapper # <<"ragged_prefill", 0>>
             /\ RowFor(plan'.rows[j], s, n)
    <3>1. Attended(j, s)' = PageRead(plan'.rows[j], kv')
      BY <2>2 DEF Attended, PageRead
    <3>2. PageRead(plan'.rows[j], kv')
            = [p \in 0 .. n - 1 |->
                 kv'[table[s][(p \div BlockSize) + 1]][p % BlockSize]]
      <4>1. PICK row : row = plan'.rows[j]
        OBVIOUS
      <4>2. PICK cache : cache = kv'
        OBVIOUS
      <4>3. PICK t : t = table[s]
        OBVIOUS
      <4>4. /\ t \in Seq(Blocks) /\ n \in Nat \ {0} /\ BlocksFor(n) <= Len(t)
            /\ Len(row.pages) = BlocksFor(n)
            /\ \A c \in 1 .. BlocksFor(n) : row.pages[c] = t[c]
            /\ row.last = ((n - 1) % BlockSize) + 1
        BY <1>4, <1>5, <2>2, <4>1, <4>3 DEF RowFor
      <4>5. PageRead(row, cache) = Contained(t, n, cache)
        BY <4>4, PagesRead
      <4> QED
        BY <4>1, <4>2, <4>3, <4>5 DEF Contained
    <3> QED
      BY <1>7, <3>1, <3>2
  <2> QED
    BY <1>9, <2>1, <2>2
<1>11. batch'[j] = s
  BY <1>1, <1>2
<1> QED
  BY <1>6, <1>9, <1>10, <1>11 DEF RowAttends

(***************************************************************************)
(* The rest of a step                                                      *)
(***************************************************************************)

(* A step of postprocess leaves every sequence but the head of the batch.  *)
LEMMA PostprocessOthers ==
  ASSUME JInv, SchedNext, phase = "postprocess", phase' = "postprocess"
  PROVE  /\ batch # <<>> /\ batch' = Tail(batch)
         /\ prefillTokens' = prefillTokens
         /\ \A x \in Seqs : x # Head(batch) =>
              /\ tok'[x] = tok[x] /\ numCached'[x] = numCached[x]
              /\ numScheduled'[x] = numScheduled[x]
<1>1. /\ tok \in [Seqs -> Seq(Tokens)] /\ numCached \in [Seqs -> Nat]
      /\ numScheduled \in [Seqs -> Nat]
  BY DEF JInv, IInv, SInv, SchedTypeOK, TypeOK
<1>2. PICK s : s = Head(batch)
  OBVIOUS
<1>3. ASSUME batch # <<>>, Postprocessed(s),
             \A x \in Seqs : x # s => /\ tok'[x] = tok[x]
                                      /\ numCached'[x] = numCached[x]
      PROVE  /\ batch # <<>> /\ batch' = Tail(batch)
             /\ prefillTokens' = prefillTokens
             /\ \A x \in Seqs : x # s =>
                  /\ tok'[x] = tok[x] /\ numCached'[x] = numCached[x]
                  /\ numScheduled'[x] = numScheduled[x]
  BY <1>1, <1>3 DEF Postprocessed
<1>4. CASE PostprocessChunk
  <2>1. /\ batch # <<>> /\ Postprocessed(s)
        /\ numCached' = [numCached EXCEPT ![s] = @ + numScheduled[s]]
        /\ tok' = tok
    BY <1>2, <1>4 DEF PostprocessChunk, ComputeChunk
  <2>2. \A x \in Seqs : x # s => /\ tok'[x] = tok[x]
                                 /\ numCached'[x] = numCached[x]
    BY <1>1, <2>1
  <2> QED
    BY <1>2, <1>3, <2>1, <2>2
<1>5. ASSUME NEW t \in Tokens, PostprocessToken(t)
      PROVE  /\ batch # <<>> /\ batch' = Tail(batch)
             /\ prefillTokens' = prefillTokens
             /\ \A x \in Seqs : x # s =>
                  /\ tok'[x] = tok[x] /\ numCached'[x] = numCached[x]
                  /\ numScheduled'[x] = numScheduled[x]
  <2>1. /\ batch # <<>> /\ Postprocessed(s)
        /\ numCached' = [numCached EXCEPT ![s] = @ + numScheduled[s]]
        /\ tok' = [tok EXCEPT ![s] = Append(@, t)]
    BY <1>2, <1>5 DEF PostprocessToken, ComputeToken
  <2>2. \A x \in Seqs : x # s => /\ tok'[x] = tok[x]
                                 /\ numCached'[x] = numCached[x]
    BY <1>1, <2>1
  <2> QED
    BY <1>3, <2>1, <2>2
<1>6. ASSUME NEW t \in Tokens, PostprocessLast(t)
      PROVE  /\ batch # <<>> /\ batch' = Tail(batch)
             /\ prefillTokens' = prefillTokens
             /\ \A x \in Seqs : x # s =>
                  /\ tok'[x] = tok[x] /\ numCached'[x] = numCached[x]
                  /\ numScheduled'[x] = numScheduled[x]
  <2>1. /\ batch # <<>> /\ Postprocessed(s)
        /\ numCached' = [numCached EXCEPT ![s] = 0]
        /\ tok' = [tok EXCEPT ![s] = Append(@, t)]
    BY <1>2, <1>6 DEF PostprocessLast, ComputeLast, Deallocate
  <2>2. \A x \in Seqs : x # s => /\ tok'[x] = tok[x]
                                 /\ numCached'[x] = numCached[x]
    BY <1>1, <2>1
  <2> QED
    BY <1>3, <2>1, <2>2
<1>7. \/ PostprocessChunk
      \/ \E t \in Tokens : PostprocessToken(t) \/ PostprocessLast(t)
  BY DEF SchedNext, Step, AddRequest, StartStep, PreemptLast, ScheduleDecode,
         DecodeMayTakeMore, DecodeDone, PrefillReject, PrefillAdmit,
         PrefillContinue, PrefillMayTakeMore, PrefillDone, Dispatch, EndStep
<1> QED
  BY <1>2, <1>4, <1>5, <1>6, <1>7

(* So what was read for the others is still right when their turn comes.   *)
LEMMA PostAttends ==
  ASSUME JInv, AttendsOwn, SchedNext, phase = "postprocess",
         phase' = "postprocess", plan.bs \in Nat, UNCHANGED <<kv, plan>>
  PROVE  AttendsOwn'
<1>1. /\ batch # <<>> /\ batch' = Tail(batch)
      /\ prefillTokens' = prefillTokens
      /\ \A x \in Seqs : x # Head(batch) =>
           /\ tok'[x] = tok[x] /\ numCached'[x] = numCached[x]
           /\ numScheduled'[x] = numScheduled[x]
  BY PostprocessOthers
<1>2. batch \in Seq(Seqs) /\ IsInjective(batch)
  BY DEF JInv, SInv, SchedTypeOK, Queues
<1>3. /\ Len(batch) \in Nat \ {0} /\ Len(Tail(batch)) = Len(batch) - 1
      /\ Head(batch) = batch[1]
      /\ DOMAIN batch = 1 .. Len(batch)
      /\ DOMAIN Tail(batch) = 1 .. Len(batch) - 1
      /\ \A i \in 1 .. Len(batch) - 1 : Tail(batch)[i] = batch[i + 1]
  BY <1>1, <1>2
<1> SUFFICES ASSUME NEW j \in DOMAIN batch'
             PROVE  RowAttends(j)'
  BY DEF AttendsOwn, RowAttends
<1>4. /\ j \in 1 .. Len(batch) - 1 /\ j + 1 \in 1 .. Len(batch) /\ j \in Nat
      /\ j + 1 # 1 /\ 1 \in 1 .. Len(batch)
  BY <1>1, <1>3
<1>5. PICK x : x = batch[j + 1]
  OBVIOUS
<1>6. x \in Seqs /\ batch'[j] = x
  BY <1>1, <1>2, <1>3, <1>4, <1>5
<1>7. x # Head(batch)
  BY <1>2, <1>3, <1>4, <1>5 DEF IsInjective
<1>8. plan'.bs - Len(batch') + j = plan.bs - Len(batch) + (j + 1)
  BY <1>1, <1>3, <1>4
<1>9. RowAttends(j + 1)
  BY <1>3, <1>4 DEF AttendsOwn, RowAttends
<1>10. PICK i : i = plan.bs - Len(batch) + (j + 1)
  OBVIOUS
<1>11. Attended(i, x) = [p \in ReadPositions(x) |-> Prefixed(x, p)]
  BY <1>5, <1>9, <1>10 DEF RowAttends
<1>12. /\ tok'[x] = tok[x] /\ numCached'[x] = numCached[x]
       /\ numScheduled'[x] = numScheduled[x]
  BY <1>1, <1>6, <1>7
<1>13. ReadPositions(x)' = ReadPositions(x)
  BY <1>1, <1>12 DEF ReadPositions, is_prefill
<1>14. Attended(i, x)' = Attended(i, x)
  BY <1>12 DEF Attended, Prefixed
<1>15. [p \in ReadPositions(x) |-> Prefixed(x, p)]'
         = [p \in ReadPositions(x) |-> Prefixed(x, p)]
  BY <1>12, <1>13 DEF Prefixed
<1>16. Attended(i, x)' = [p \in ReadPositions(x) |-> Prefixed(x, p)]'
  BY <1>11, <1>14, <1>15
<1> QED
  BY <1>6, <1>8, <1>10, <1>16 DEF RowAttends

(* The inductive invariant: what the cache holds, what the tables need,    *)
(* and what was read.                                                      *)
AttInv == RunnerInv /\ KVInv /\ SizesInv /\ plan.bs \in Nat /\ AttendsOwn

(* Every step keeps it.                                                    *)
LEMMA NextAttInv ==
  ASSUME DigestSound, ~Reserve, PromptsFitModel
  PROVE  AttInv /\ [GraphNext]_graphRunnerVars => AttInv'
<1> SUFFICES ASSUME AttInv, [GraphNext]_graphRunnerVars PROVE AttInv'
  OBVIOUS
<1>1. JInv /\ RunnerInv /\ KVInv /\ SizesInv /\ GraphFits
  BY FitsFromInv DEF AttInv, RunnerInv
<1>2. [RunnerNext]_runnerVars /\ [SchedNext]_schedVars
  BY <1>1, GraphStepIsRunner, RunnerNextIsSched
<1>3. RunnerInv' /\ KVInv' /\ SizesInv'
  BY <1>1, <1>2, NextRunnerInv, NextKVInv, NextSizes
<1>4. CASE Dispatch /\ batch # <<>> /\ (RunEager \/ RunGraph)
  <2>1. AttendsOwn'
    BY <1>1, <1>3, <1>4, RunAttends
  <2>2. batch \in Seq(Seqs)
    BY <1>1 DEF JInv, SInv, SchedTypeOK
  <2>3. PICK n : n = Len(batch)
    OBVIOUS
  <2>4. n \in Nat
    BY <2>2, <2>3, LenProperties
  <2>5. plan'.bs = n
    BY <1>4, <2>3 DEF RunEager, RunGraph, NewPlan, Planned
  <2> QED
    BY <1>3, <2>1, <2>4, <2>5 DEF AttInv
<1>5. CASE phase # "dispatch" /\ SchedNext /\ UNCHANGED <<kv, plan>>
  <2>1. AttendsOwn'
    <3>1. CASE phase' # "postprocess"
      BY <3>1 DEF AttendsOwn
    <3>2. CASE phase' = "postprocess"
      <4>1. phase = "postprocess"
        BY <1>5, <3>2
           DEF SchedNext, Step, AddRequest, StartStep, PreemptLast,
               ScheduleDecode, DecodeMayTakeMore, DecodeDone, PrefillReject,
               PrefillAdmit, PrefillContinue, PrefillMayTakeMore, PrefillDone,
               Dispatch, EndStep, PostprocessChunk, PostprocessToken,
               PostprocessLast, ScheduleChunk, batchVars
      <4> QED
        BY <1>1, <1>5, <3>2, <4>1, PostAttends DEF AttInv
    <3> QED
      BY <3>1, <3>2
  <2> QED
    BY <1>3, <1>5, <2>1 DEF AttInv
<1>6. CASE UNCHANGED graphRunnerVars
  <2>1. AttendsOwn'
    <3>1. /\ batch' = batch /\ tok' = tok /\ numCached' = numCached
          /\ numScheduled' = numScheduled /\ prefillTokens' = prefillTokens
          /\ phase' = phase /\ kv' = kv /\ plan' = plan
      BY <1>6 DEF graphRunnerVars, runnerVars, schedVars, vars
    <3> SUFFICES ASSUME phase = "postprocess", NEW j \in DOMAIN batch
                 PROVE  RowAttends(j)'
      BY <3>1 DEF AttendsOwn, RowAttends
    <3>2. RowAttends(j)
      BY DEF AttInv, AttendsOwn, RowAttends
    <3>3. PICK i : i = plan.bs - Len(batch) + j
      OBVIOUS
    <3>4. PICK x : x = batch[j]
      OBVIOUS
    <3>5. Attended(i, x) = [p \in ReadPositions(x) |-> Prefixed(x, p)]
      BY <3>2, <3>3, <3>4 DEF RowAttends
    <3>6. Attended(i, x)' = Attended(i, x)
      BY <3>1 DEF Attended, Prefixed
    <3>7. [p \in ReadPositions(x) |-> Prefixed(x, p)]'
            = [p \in ReadPositions(x) |-> Prefixed(x, p)]
      BY <3>1 DEF ReadPositions, is_prefill, Prefixed
    <3>8. Attended(i, x)' = [p \in ReadPositions(x) |-> Prefixed(x, p)]'
      BY <3>5, <3>6, <3>7
    <3> QED
      BY <3>1, <3>3, <3>4, <3>8 DEF RowAttends
  <2> QED
    BY <1>3, <1>6, <2>1 DEF AttInv, graphRunnerVars
<1> QED
  BY <1>4, <1>5, <1>6 DEF GraphNext

(* Attention reads, for every sequence of every batch, exactly the keys    *)
(* and values of that sequence's own tokens (GraphRunner.AttendsOwn: the   *)
(* plans of flashinfer_backend.py over the tables of model_runner.py),     *)
(* ragged, paged, decoded eagerly or replayed in a larger bucket; never an *)
(* earlier plan, another row's pages, padding or a block's earlier         *)
(* contents.                                                               *)
THEOREM AttendsOwnHolds ==
  ASSUME DigestSound, ~Reserve, PromptsFitModel
  PROVE  GraphSpec => []AttendsOwn
<1>1. GraphInit => AttInv
  <2>1. GraphInit => RunnerInv
    BY InitRunnerInv DEF GraphInit, RunnerInit
  <2>2. GraphInit => KVInv
    BY InitKVInv DEF GraphInit
  <2>3. GraphInit => SizesInv
    BY DEF GraphInit, RunnerInit, SchedInit, Init, SizesInv, PromptSizes,
           TablesBounded
  <2>4. GraphInit => plan.bs \in Nat /\ AttendsOwn
    BY DEF GraphInit, RunnerInit, SchedInit, AttendsOwn
  <2> QED
    BY <2>1, <2>2, <2>3, <2>4 DEF AttInv
<1>2. AttInv => AttendsOwn
  BY DEF AttInv
<1> QED
  BY <1>1, <1>2, NextAttInv, PTL DEF GraphSpec
=============================================================================
