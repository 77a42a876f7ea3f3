------------------------- MODULE ModelRunnerProofs ---------------------------
(***************************************************************************)
(* What is stored where in the KV cache, for any number of requests, any   *)
(* prompts, any cache and any way the batches are formed: slots are not    *)
(* shared, a worker prepares what its pickled sequences allow, the prefix  *)
(* cache only offers blocks that were written with what they are looked up *)
(* by, and attention reads only what was written for the request it        *)
(* computes.                                                               *)
(*                                                                         *)
(* The slots need the scheduler's invariant JInv alone.  What they hold    *)
(* needs an invariant of its own, KVInv: hashing, counting as cached and   *)
(* sharing pass the claim on from one to the other, so the three are only  *)
(* inductive together.                                                     *)
(*                                                                         *)
(* Assumed beyond the modules' own assumptions: DigestSound (see           *)
(* BlockManagerProofs), and for the contents of the cache ~Reserve,        *)
(* without which prepare_decode stores the new token in the reserved block *)
(* (see ModelRunnerReserve.cfg).                                           *)
(***************************************************************************)
EXTENDS ModelRunner, SchedulerProofs

(* A batch without prompt tokens schedules one token for each request, so  *)
(* prepare_decode, which prepares exactly one row for each, prepares what  *)
(* the scheduler scheduled.                                                *)
DecodesSingly ==
  prefillTokens = 0 => \A s \in Range(batch) : numScheduled[s] = 1

(* Without reserve_decode_kv no table is longer than the tokens need, so   *)
(* the last entry of a table, where prepare_decode places the new token,   *)
(* is the block of the last position.                                      *)
TablesExact == ~Reserve => \A s \in Seqs : Len(table[s]) <= num_blocks(s)

(* The slot of position p of s holds the KV of exactly the tokens of s up  *)
(* to p.                                                                   *)
Written(s, p) ==
  kv[TableSlot(s, p)[1]][TableSlot(s, p)[2]] = Prefixed(s, p)

(* The same of the first n positions of s.                                 *)
WrittenUpTo(s, n) == \A p \in 0 .. n - 1 : Written(s, p)

(* What a request counts as cached is in the cache.                        *)
CachedWritten == \A s \in Seqs : WrittenUpTo(s, numCached[s])

(* Once the model has run, so is what the batch scheduled, until           *)
(* postprocess has taken the request out of it.                            *)
ScheduledWritten ==
  phase = "postprocess" =>
    \A s \in Range(batch) : WrittenUpTo(s, numCached[s] + numScheduled[s])

(* Together with HashedBlocksWritten they are inductive: what is hashed    *)
(* was cached or scheduled before, and what is cached was hashed or        *)
(* scheduled before.                                                       *)
KVInv == HashedBlocksWritten /\ CachedWritten /\ ScheduledWritten

(***************************************************************************)
(* Positions, blocks and offsets                                           *)
(***************************************************************************)

(* A position is its block, times the size of a block, plus its offset.    *)
LEMMA PlaceParts ==
  ASSUME NEW p \in Nat, NEW b \in Nat \ {0}
  PROVE  /\ p \div b \in Nat /\ (p \div b) * b \in Nat
         /\ p % b \in 0 .. b - 1
         /\ p = ((p \div b) * b) + (p % b)
OBVIOUS

(* A block and an offset make a position that has them.                    *)
LEMMA PlaceBuilt ==
  ASSUME NEW i \in Nat, NEW b \in Nat \ {0}, NEW o \in 0 .. b - 1
  PROVE  /\ (i * b) + o \in Nat
         /\ ((i * b) + o) \div b = i /\ ((i * b) + o) % b = o
OBVIOUS

(* Division keeps order.                                                   *)
LEMMA DivMonotone ==
  ASSUME NEW m \in Nat, NEW p \in Nat, NEW b \in Nat \ {0}, m <= p
  PROVE  m \div b <= p \div b
<1>1. m \div b \in Nat /\ (m \div b) * b \in Nat /\ (m \div b) * b <= m
  BY DivBounds
<1>2. (m \div b) * b <= p
  BY <1>1
<1> QED
  BY <1>1, <1>2, DivGreatest

(* A position before the end of n blocks is in one of them.                *)
LEMMA DivBelow ==
  ASSUME NEW p \in Nat, NEW b \in Nat \ {0}, NEW n \in Nat, p < b * n
  PROVE  p \div b < n
<1> DEFINE q == p \div b
<1>1. q \in Nat /\ q * b \in Nat /\ q * b <= p
  BY DivBounds
<1> HIDE DEF q
<1>2. b * n = n * b /\ n * b \in Nat
  OBVIOUS
<1>3. n < q => n * b + b <= q * b
  BY <1>1, MulStep
<1>4. ~(n < q) /\ n # q
  BY <1>1, <1>2, <1>3
<1> QED
  BY <1>1, <1>4 DEF q

(* The last of n positions is in the last of the blocks n positions need;  *)
(* last_block_num_tokens counts the positions of that block.               *)
LEMMA LastPlace ==
  ASSUME NEW n \in Nat, n > 0
  PROVE  /\ BlocksFor(n) = ((n - 1) \div BlockSize) + 1
         /\ BlocksFor(n) \in Nat /\ BlocksFor(n) > 0
         /\ n - ((BlocksFor(n) - 1) * BlockSize) - 1 = (n - 1) % BlockSize
         /\ (n - 1) % BlockSize \in Offsets
<1> DEFINE b == BlockSize
           q == (n - 1) \div b
           r == (n - 1) % b
<1>1. b \in Nat \ {0} /\ n - 1 \in Nat
  BY BlockSizeAssumption
<1> HIDE DEF b
<1>2. /\ q \in Nat /\ q * b \in Nat /\ r \in 0 .. b - 1
      /\ n - 1 = (q * b) + r
  BY <1>1, PlaceParts
<1> HIDE DEF q, r
<1>3. (q + 1) * b = (q * b) + b /\ (q + 1) * b \in Nat
  BY <1>1, <1>2
<1>4. (q + 1) * b <= n + b - 1 /\ n + b - 1 < (q + 1) * b + b
  BY <1>1, <1>2, <1>3
<1>5. (n + b - 1) \div b = q + 1
  <2>1. n + b - 1 \in Nat /\ q + 1 \in Nat
    BY <1>1, <1>2
  <2> QED
    BY <1>1, <1>4, <2>1, DivUnique
<1>6. BlocksFor(n) = q + 1
  BY <1>5 DEF BlocksFor, b
<1>7. n - (q * b) - 1 = r
  BY <1>1, <1>2
<1>8. BlocksFor(n) - 1 = q
  BY <1>2, <1>6
<1> QED
  BY <1>2, <1>6, <1>7, <1>8 DEF q, r, b, Offsets

(***************************************************************************)
(* Where the rows of a batch are stored                                    *)
(***************************************************************************)

(* A position for which a request has a block has a slot of that block.    *)
LEMMA TablePlace ==
  ASSUME TypeOK, NEW s \in Seqs, NEW p \in Nat, p < BlockSize * Len(table[s])
  PROVE  /\ (p \div BlockSize) + 1 \in 1 .. Len(table[s])
         /\ TableSlot(s, p)[1] = table[s][(p \div BlockSize) + 1]
         /\ TableSlot(s, p)[2] = p % BlockSize
         /\ TableSlot(s, p)[1] \in Blocks /\ TableSlot(s, p)[2] \in Offsets
<1>1. table[s] \in Seq(Blocks) /\ Len(table[s]) \in Nat
  BY DEF TypeOK
<1>2. /\ p \div BlockSize \in Nat /\ p \div BlockSize < Len(table[s])
      /\ p % BlockSize \in Offsets
  BY <1>1, PlaceParts, DivBelow, BlockSizeAssumption DEF Offsets
<1>3. (p \div BlockSize) + 1 \in 1 .. Len(table[s])
  BY <1>1, <1>2
<1>4. table[s][(p \div BlockSize) + 1] \in Blocks
  BY <1>1, <1>3
<1> QED
  BY <1>2, <1>3, <1>4 DEF TableSlot

(* Two positions of a request have two slots.                              *)
LEMMA PlacesDiffer ==
  ASSUME TypeOK, RefExact, NEW s \in Seqs,
         NEW p \in Nat, p < BlockSize * Len(table[s]),
         NEW q \in Nat, q < BlockSize * Len(table[s]),
         TableSlot(s, p) = TableSlot(s, q)
  PROVE  p = q
<1> DEFINE i == (p \div BlockSize) + 1
           j == (q \div BlockSize) + 1
<1>1. /\ i \in 1 .. Len(table[s]) /\ j \in 1 .. Len(table[s])
  BY TablePlace
<1>2. table[s][i] = table[s][j] /\ p % BlockSize = q % BlockSize
  BY DEF TableSlot
<1>3. i = j
  BY <1>1, <1>2 DEF RefExact, IsInjective
<1>4. p \div BlockSize = q \div BlockSize
  <2>1. p \div BlockSize \in Nat /\ q \div BlockSize \in Nat
    BY PlaceParts, BlockSizeAssumption
  <2> QED
    BY <1>3, <2>1
<1>5. /\ p = ((p \div BlockSize) * BlockSize) + (p % BlockSize)
      /\ q = ((q \div BlockSize) * BlockSize) + (q % BlockSize)
  BY PlaceParts, BlockSizeAssumption
<1> QED
  BY <1>2, <1>4, <1>5

(* The sizes of a request in the batch: what is scheduled of it has        *)
(* blocks, and a chunk that ends at its last token is not one that waits.  *)
LEMMA BatchSizes ==
  ASSUME JInv, NEW s \in Range(batch)
  PROVE  /\ s \in Seqs /\ Roomy(s) /\ table[s] # <<>>
         /\ tok[s] \in Seq(Tokens) /\ table[s] \in Seq(Blocks)
         /\ Len(tok[s]) \in Nat /\ Len(table[s]) \in Nat
         /\ numCached[s] \in Nat /\ numScheduled[s] \in Nat
         /\ numScheduled[s] > 0
         /\ numCached[s] + numScheduled[s] <= Len(tok[s])
         /\ Len(tok[s]) <= BlockSize * Len(table[s])
         /\ ~is_prefill => numCached[s] + numScheduled[s] = Len(tok[s])
<1>1. TypeOK /\ SchedTypeOK /\ RequestOK(s) /\ s \in Seqs
  <2>1. SchedTypeOK /\ TypeOK
    BY DEF JInv, SInv, IInv
  <2>2. s \in Seqs
    BY <2>1, RangeOfSeq DEF SchedTypeOK
  <2> QED
    BY <2>1, <2>2 DEF JInv, SInv
<1>2. InBatch(s)
  BY <1>1 DEF RequestOK
<1>3. /\ tok[s] \in Seq(Tokens) /\ table[s] \in Seq(Blocks)
      /\ Len(tok[s]) \in Nat /\ Len(table[s]) \in Nat
      /\ numCached[s] \in Nat /\ numScheduled[s] \in Nat
      /\ num_blocks(s) \in Nat
  BY <1>1, RequestSizes
<1>4. /\ Roomy(s) /\ table[s] # <<>> /\ numScheduled[s] > 0
      /\ numCached[s] + numScheduled[s] <= Len(tok[s])
      /\ ~is_prefill => numCached[s] + numScheduled[s] = Len(tok[s])
  BY <1>2, <1>3 DEF InBatch, Roomy, is_prefill
<1>5. Len(tok[s]) <= BlockSize * Len(table[s])
  <2>1. Len(tok[s]) - numCached[s] \in Nat
    BY <1>3, <1>4
  <2>2. numCached[s] + (Len(tok[s]) - numCached[s]) = Len(tok[s])
    BY <1>3
  <2>3. HasRoom(s, Len(tok[s]) - numCached[s])
    BY <1>1, <1>3, <1>4, <2>1, <2>2, RoomyHasRoom
  <2> QED
    BY <2>2, <2>3 DEF HasRoom
<1> QED
  BY <1>1, <1>3, <1>4, <1>5

(* What is stored for a request goes to a block of its table that is not   *)
(* one of the blocks it has cached in full.                                *)
LEMMA StorePlace ==
  ASSUME JInv, NEW s \in Range(batch), NEW v \in Stores(s)
  PROVE  /\ v = <<v[1], v[2]>>
         /\ v[2] \in numCached[s] .. numCached[s] + numScheduled[s] - 1
         /\ \E i \in (numCached[s] \div BlockSize) + 1 .. Len(table[s]) :
              \E o \in Offsets : v[1] = <<table[s][i], o>>
<1>1. /\ s \in Seqs /\ Roomy(s) /\ table[s] # <<>>
      /\ tok[s] \in Seq(Tokens) /\ table[s] \in Seq(Blocks)
      /\ Len(tok[s]) \in Nat /\ Len(table[s]) \in Nat
      /\ numCached[s] \in Nat /\ numScheduled[s] \in Nat
      /\ numScheduled[s] > 0
      /\ numCached[s] + numScheduled[s] <= Len(tok[s])
      /\ Len(tok[s]) <= BlockSize * Len(table[s])
      /\ ~is_prefill => numCached[s] + numScheduled[s] = Len(tok[s])
  BY BatchSizes
<1>2. TypeOK /\ BlockSize \in Nat \ {0}
  BY BlockSizeAssumption DEF JInv, IInv
<1>3. CASE is_prefill
  <2>1. PICK p \in ChunkPositions(s) : v = <<TableSlot(s, p), p>>
    BY <1>3 DEF Stores
  <2>2. /\ p \in numCached[s] .. numCached[s] + numScheduled[s] - 1
        /\ p \in Nat /\ numCached[s] <= p
    BY <1>1, <2>1 DEF ChunkPositions
  <2>3. p < BlockSize * Len(table[s])
    <3>1. BlockSize * Len(table[s]) \in Nat
      BY <1>1, <1>2
    <3> QED
      BY <1>1, <2>2, <3>1
  <2>4. /\ (p \div BlockSize) + 1 \in 1 .. Len(table[s])
        /\ p % BlockSize \in Offsets
    BY <1>1, <1>2, <2>2, <2>3, TablePlace
  <2>5. /\ numCached[s] \div BlockSize \in Nat /\ p \div BlockSize \in Nat
        /\ numCached[s] \div BlockSize <= p \div BlockSize
    BY <1>1, <1>2, <2>2, DivMonotone, PlaceParts
  <2>6. (p \div BlockSize) + 1
          \in (numCached[s] \div BlockSize) + 1 .. Len(table[s])
    BY <1>1, <2>4, <2>5
  <2>7. v[1] = <<table[s][(p \div BlockSize) + 1], p % BlockSize>> /\ v[2] = p
    BY <2>1 DEF TableSlot
  <2> QED
    BY <2>1, <2>2, <2>4, <2>6, <2>7
<1>4. CASE ~is_prefill
  <2>1. v = <<DecodeSlot(s), Len(tok[s]) - 1>>
    BY <1>4 DEF Stores
  <2>2. /\ v[2] = Len(tok[s]) - 1 /\ Len(tok[s]) > 0
        /\ v[2] \in numCached[s] .. numCached[s] + numScheduled[s] - 1
    BY <1>1, <1>4, <2>1
  <2>3. last_block_num_tokens(s) - 1 \in Offsets
    BY <1>1, <2>2, LastPlace DEF last_block_num_tokens, num_blocks
  <2>4. Last(table[s]) = table[s][Len(table[s])]
    BY DEF Last
  <2>5. v[1] = <<table[s][Len(table[s])], last_block_num_tokens(s) - 1>>
    BY <2>1, <2>4 DEF DecodeSlot
  <2>6. numCached[s] < BlockSize * Len(table[s])
    <3>1. BlockSize * Len(table[s]) \in Nat
      BY <1>1, <1>2
    <3> QED
      BY <1>1, <3>1
  <2>7. /\ numCached[s] \div BlockSize \in Nat
        /\ numCached[s] \div BlockSize < Len(table[s])
    BY <1>1, <1>2, <2>6, DivBelow, PlaceParts
  <2>8. Len(table[s]) \in (numCached[s] \div BlockSize) + 1 .. Len(table[s])
    BY <1>1, <2>7
  <2> QED
    BY <2>1, <2>2, <2>3, <2>5, <2>8
<1> QED
  BY <1>3, <1>4

(* Such a block is in no other table and not in the prefix cache.          *)
LEMMA StorePrivate ==
  ASSUME JInv, NEW s \in Range(batch), NEW v \in Stores(s),
         NEW b, NEW o, v[1] = <<b, o>>
  PROVE  /\ b \in Blocks /\ o \in Offsets
         /\ Holders(b) = {s} /\ chain[b] = <<>>
<1>1. /\ s \in Seqs /\ table[s] \in Seq(Blocks) /\ Len(table[s]) \in Nat
      /\ numCached[s] \in Nat
  BY BatchSizes
<1>2. PICK i \in (numCached[s] \div BlockSize) + 1 .. Len(table[s]) :
        \E x \in Offsets : v[1] = <<table[s][i], x>>
  BY StorePlace
<1>3. b = table[s][i] /\ o \in Offsets
  BY <1>2
<1>4. refCount[b] = 1 /\ chain[b] = <<>>
  BY <1>1, <1>2, <1>3 DEF JInv, IInv, Contents, WritesPrivate
<1>5. i \in 1 .. Len(table[s])
  <2>1. numCached[s] \div BlockSize \in Nat
    BY <1>1, PlaceParts, BlockSizeAssumption
  <2> QED
    BY <1>1, <1>2, <2>1
<1>6. b \in Blocks /\ s \in Holders(b)
  BY <1>1, <1>3, <1>5 DEF Holders, Range
<1>7. Holders(b) = {s}
  BY <1>4, <1>6, HoldersCounted DEF JInv, IInv, Accounting
<1> QED
  BY <1>3, <1>4, <1>6, <1>7

(* So what two requests of a batch store goes to two blocks, and what one  *)
(* request stores to as many slots as positions.                           *)
LEMMA SlotsDistinctFromInv ==
  ASSUME JInv
  PROVE  \A s, r \in Range(batch) : \A v \in Stores(s), w \in Stores(r) :
           v[1] = w[1] => s = r /\ v = w
<1> SUFFICES ASSUME NEW s \in Range(batch), NEW r \in Range(batch),
                    NEW v \in Stores(s), NEW w \in Stores(r), v[1] = w[1]
             PROVE  s = r /\ v = w
  OBVIOUS
<1>1. PICK b, o : v[1] = <<b, o>>
  BY StorePlace
<1>2. Holders(b) = {s} /\ Holders(b) = {r}
  BY <1>1, StorePrivate
<1>3. s = r
  BY <1>2
<1>4. CASE ~is_prefill
  BY <1>3, <1>4 DEF Stores
<1>5. CASE is_prefill
  <2>1. PICK p \in ChunkPositions(s) : v = <<TableSlot(s, p), p>>
    BY <1>5 DEF Stores
  <2>2. PICK q \in ChunkPositions(s) : w = <<TableSlot(s, q), q>>
    BY <1>3, <1>5 DEF Stores
  <2>3. TableSlot(s, p) = TableSlot(s, q)
    BY <2>1, <2>2
  <2>4. /\ s \in Seqs /\ TypeOK /\ RefExact
        /\ numCached[s] \in Nat /\ numScheduled[s] \in Nat
        /\ Len(tok[s]) \in Nat /\ Len(table[s]) \in Nat
        /\ BlockSize * Len(table[s]) \in Nat
        /\ numCached[s] + numScheduled[s] <= Len(tok[s])
        /\ Len(tok[s]) <= BlockSize * Len(table[s])
    <3>1. TypeOK /\ RefExact
      BY DEF JInv, IInv, Accounting
    <3> QED
      BY <3>1, BatchSizes, BlockSizeAssumption
  <2>5. ASSUME NEW x \in ChunkPositions(s)
        PROVE  x \in Nat /\ x < BlockSize * Len(table[s])
    <3> DEFINE room == BlockSize * Len(table[s])
               from == numCached[s]
               to == numCached[s] + numScheduled[s]
               l == Len(tok[s])
    <3>1. /\ from \in Nat /\ to \in Nat /\ room \in Nat /\ l \in Nat
          /\ to <= l /\ l <= room
      BY <2>4
    <3>2. x \in Int /\ from <= x /\ x <= to - 1
      BY <2>4, <2>5 DEF ChunkPositions
    <3> HIDE DEF room, from, to, l
    <3>3. x \in Nat /\ x < room
      BY <3>1, <3>2
    <3> QED
      BY <3>3 DEF room
  <2>6. p = q
    BY <2>3, <2>4, <2>5, PlacesDiffer
  <2> QED
    BY <1>3, <2>1, <2>2, <2>6
<1> QED
  BY <1>4, <1>5

(* Whatever the requests and the cache, no two rows of a batch are stored  *)
(* in one slot (BatchInput.SlotsDistinct: slot_mapping,                    *)
(* model_runner.py:177-184 and 205, read by store_kvcache), also when      *)
(* reserve_decode_kv makes the decode rows miss their place: even then the *)
(* reserved block is private to its request.                               *)
THEOREM SlotsDistinctHolds ==
  ASSUME DigestSound
  PROVE  SchedSpec => []SlotsDistinct
<1>1. JInv => SlotsDistinct
  BY SlotsDistinctFromInv DEF SlotsDistinct
<1> QED
  BY <1>1, SchedInvariance, PTL

(***************************************************************************)
(* What the workers prepare                                                *)
(***************************************************************************)

(* A request that waits, or was never added, has is_prefill set.           *)
WaitersPrefill ==
  \A s \in Seqs : tok[s] = <<>> \/ status[s] = "WAITING" => isPrefill[s]

(* Without mixed batches a batch with prompt tokens has only requests with *)
(* is_prefill set.                                                         *)
ChunksPrefill ==
  ~Mixed /\ prefillTokens > 0 => \A s \in Range(batch) : isPrefill[s]

(* These two are the inductive part of what the workers can tell from a    *)
(* pickled sequence.                                                       *)
PrefillFlags == WaitersPrefill /\ ChunksPrefill

(* A decode is scheduled for one token, in whatever batch.                 *)
DecodersSingle ==
  \A s \in Range(batch) : ~isPrefill[s] => numScheduled[s] = 1

(* Every step keeps them: is_prefill is cleared only by ScheduleDecode, of *)
(* a running request, in a batch that starts no prompt, and set again by   *)
(* preemption.                                                             *)
LEMMA PrefillFlagsStep ==
  ASSUME JInv, PrefillFlags, [SchedNext]_schedVars
  PROVE  PrefillFlags'
<1>1. /\ SchedTypeOK /\ Queues /\ Counters /\ TypeOK /\ SInv
      /\ \A s \in Seqs : RequestOK(s)
  BY DEF JInv, SInv, IInv
<1>2. /\ batch \in Seq(Seqs) /\ isPrefill \in [Seqs -> BOOLEAN]
      /\ status \in [Seqs -> {"NONE", "WAITING", "RUNNING", "FINISHED"}]
      /\ prefillTokens \in Nat /\ running \in Seq(Seqs) /\ waiting \in Seq(Seqs)
      /\ tok \in [Seqs -> Seq(Tokens)]
      /\ Range(batch) \subseteq Seqs
  BY <1>1, RangeOfSeq DEF SchedTypeOK, TypeOK
<1>3. /\ \A x \in Seqs : tok[x] = <<>> \/ status[x] = "WAITING" => isPrefill[x]
      /\ ~Mixed /\ prefillTokens > 0 => \A x \in Range(batch) : isPrefill[x]
  BY DEF PrefillFlags, WaitersPrefill, ChunksPrefill
<1>4. ASSUME UNCHANGED <<tok, status, isPrefill, batch, prefillTokens>>
      PROVE  PrefillFlags'
  BY <1>3, <1>4 DEF PrefillFlags, WaitersPrefill, ChunksPrefill
<1>5. CASE UNCHANGED schedVars
  BY <1>4, <1>5 DEF schedVars, vars
<1>6. ASSUME NEW s \in Seqs, NEW p \in Prompts, AddRequest(s, p)
      PROVE  PrefillFlags'
  <2>1. /\ tok[s] = <<>> /\ tok' = [tok EXCEPT ![s] = p]
        /\ status' = [status EXCEPT ![s] = "WAITING"]
        /\ UNCHANGED <<isPrefill, batch, prefillTokens>>
    BY <1>6 DEF AddRequest, NewSequence, batchVars
  <2>2. \A x \in Seqs : x # s => tok'[x] = tok[x] /\ status'[x] = status[x]
    BY <1>2, <2>1
  <2> QED
    BY <1>3, <2>1, <2>2 DEF PrefillFlags, WaitersPrefill, ChunksPrefill
<1>7. CASE StartStep
  <2>1. batch' = <<>> /\ UNCHANGED <<tok, status, isPrefill>>
    BY <1>7 DEF StartStep, vars, queueVars
  <2>2. Range(batch') = {}
    BY <2>1 DEF Range
  <2> QED
    BY <1>3, <2>1, <2>2 DEF PrefillFlags, WaitersPrefill, ChunksPrefill
<1>8. CASE PreemptLast
  <2>1. PICK s : s = Last(running)
    OBVIOUS
  <2>2. /\ status' = [status EXCEPT ![s] = "WAITING"]
        /\ isPrefill' = [isPrefill EXCEPT ![s] = TRUE]
        /\ UNCHANGED <<tok, batch, prefillTokens>>
    BY <1>8, <2>1 DEF PreemptLast, Preempt, batchVars
  <2>3. \A x \in Seqs : /\ isPrefill[x] => isPrefill'[x]
                        /\ status'[x] # status[x] => isPrefill'[x]
    BY <1>2, <2>2
  <2>4. WaitersPrefill'
    BY <1>3, <2>2, <2>3 DEF WaitersPrefill
  <2>5. ChunksPrefill'
    BY <1>2, <1>3, <2>2, <2>3 DEF ChunksPrefill
  <2> QED
    BY <2>4, <2>5 DEF PrefillFlags
<1>9. CASE ScheduleDecode
  <2>1. PICK s : s = Head(running)
    OBVIOUS
  <2>2. /\ running # <<>> /\ phase = "decode" /\ MayAppend(s)
        /\ isPrefill' = [isPrefill EXCEPT ![s] = FALSE]
        /\ UNCHANGED <<status, prefillTokens>>
    BY <1>9, <2>1 DEF ScheduleDecode, DecodeMayTakeMore
  <2>3. tok' = tok
    BY <2>2 DEF MayAppend, vars
  <2>4. s \in Seqs /\ s \in Range(running)
    BY <1>2, <2>1, <2>2, TailQueue
  <2>5. status[s] = "RUNNING"
    BY <1>1, <2>2, <2>4 DEF Queues, Runs
  <2>6. tok[s] # <<>>
    BY <1>1, <2>4, <2>5 DEF RequestOK, Unfinished
  <2>7. \A x \in Seqs : x # s => isPrefill'[x] = isPrefill[x]
    BY <1>2, <2>2
  <2>8. WaitersPrefill'
    BY <1>3, <2>2, <2>3, <2>5, <2>6, <2>7 DEF WaitersPrefill
  <2>9. prefillTokens = 0
    BY <1>1, <2>2 DEF Counters
  <2> QED
    BY <2>2, <2>8, <2>9 DEF PrefillFlags, ChunksPrefill
<1>10. CASE DecodeDone
  BY <1>4, <1>10 DEF DecodeDone, vars
<1>11. CASE PrefillReject
  <2>1. tok' = tok
    BY <1>11 DEF PrefillReject, RejectedLookup, seqVars
  <2> QED
    BY <1>4, <1>11, <2>1 DEF PrefillReject
<1>12. ASSUME PrefillMayTakeMore, NEW s, s = Head(waiting), NEW d,
              ScheduleChunk(s, d), tok' = tok
       PROVE  PrefillFlags'
  <2>1. /\ s \in Seqs /\ status[s] = "WAITING" /\ phase = "prefill"
    BY <1>1, <1>12, NextWaiting DEF PrefillMayTakeMore
  <2>2. /\ isPrefill' = isPrefill /\ batch' = Append(batch, s)
        /\ status' = [status EXCEPT ![s] = "RUNNING"] \/ status' = status
    BY <1>12 DEF ScheduleChunk
  <2>3. Range(batch') = Range(batch) \cup {s}
    BY <1>2, <2>1, <2>2, AppendQueue
  <2>4. isPrefill[s]
    BY <1>3, <2>1
  <2>5. \A x \in Seqs : status'[x] = "WAITING" => status[x] = "WAITING"
    BY <1>2, <2>2
  <2>6. WaitersPrefill'
    BY <1>3, <1>12, <2>2, <2>5 DEF WaitersPrefill
  <2>7. ASSUME ~Mixed, NEW x \in Range(batch) PROVE isPrefill[x]
    <3>1. batch # <<>>
      BY <1>2, <2>7, NonemptyQueue
    <3>2. prefillTokens > 0
      BY <1>1, <2>1, <2>7, <3>1 DEF Counters
    <3> QED
      BY <1>3, <2>7, <3>2
  <2>8. ChunksPrefill'
    BY <2>2, <2>3, <2>4, <2>7 DEF ChunksPrefill
  <2> QED
    BY <2>6, <2>8 DEF PrefillFlags
<1>13. CASE PrefillAdmit
  <2>1. PICK s : s = Head(waiting)
    OBVIOUS
  <2>2. PICK c \in 0 .. num_blocks(s) - 1 :
          Allocate(s, c) /\ ScheduleChunk(s, c * BlockSize)
    BY <1>13, <2>1 DEF PrefillAdmit
  <2>3. tok' = tok /\ PrefillMayTakeMore
    BY <1>13, <2>2 DEF Allocate, PrefillAdmit
  <2> QED
    BY <1>12, <2>1, <2>2, <2>3
<1>14. CASE PrefillContinue
  <2>1. PICK s : s = Head(waiting)
    OBVIOUS
  <2>2. ScheduleChunk(s, numCached[s]) /\ PrefillMayTakeMore /\ tok' = tok
    BY <1>14, <2>1 DEF PrefillContinue, vars
  <2> QED
    BY <1>12, <2>1, <2>2
<1>15. CASE PrefillDone
  BY <1>4, <1>15 DEF PrefillDone, batchVars, vars, queueVars
<1>16. CASE Dispatch
  BY <1>4, <1>16 DEF Dispatch, batchVars, vars, queueVars
<1>17. ASSUME NEW s, s = Head(batch), Postprocessed(s),
              phase = "postprocess", batch # <<>>,
              \A x \in Seqs : tok'[x] = <<>> => tok[x] = <<>>,
              \A x \in Seqs : status'[x] = "WAITING" => status[x] = "WAITING"
       PROVE  PrefillFlags'
  <2>1. batch' = Tail(batch) /\ UNCHANGED <<prefillTokens, isPrefill>>
    BY <1>17 DEF Postprocessed
  <2>2. Range(Tail(batch)) = Range(batch) \ {s}
    BY <1>17, Computed DEF JInv, IInv
  <2>3. WaitersPrefill'
    BY <1>3, <1>17, <2>1 DEF WaitersPrefill
  <2>4. ChunksPrefill'
    BY <1>3, <2>1, <2>2 DEF ChunksPrefill
  <2> QED
    BY <2>3, <2>4 DEF PrefillFlags
<1>18. CASE PostprocessChunk
  <2>1. PICK s : s = Head(batch)
    OBVIOUS
  <2>2. /\ Postprocessed(s) /\ phase = "postprocess" /\ batch # <<>>
        /\ tok' = tok /\ status' = status
    BY <1>18, <2>1 DEF PostprocessChunk, ComputeChunk
  <2> QED
    BY <1>17, <2>1, <2>2
<1>19. ASSUME NEW s \in Seqs, NEW t \in Tokens,
              tok' = [tok EXCEPT ![s] = Append(@, t)]
       PROVE  \A x \in Seqs : tok'[x] = <<>> => tok[x] = <<>>
  <2>1. tok[s] \in Seq(Tokens)
    BY <1>2
  <2>2. Append(tok[s], t) # <<>>
    BY <2>1, AppendProperties
  <2>3. tok'[s] = Append(tok[s], t) /\ \A x \in Seqs : x # s => tok'[x] = tok[x]
    BY <1>2, <1>19
  <2> QED
    BY <2>2, <2>3
<1>20. ASSUME NEW t \in Tokens, PostprocessToken(t)
       PROVE  PrefillFlags'
  <2>1. PICK s : s = Head(batch)
    OBVIOUS
  <2>2. /\ Postprocessed(s) /\ phase = "postprocess" /\ batch # <<>>
        /\ tok' = [tok EXCEPT ![s] = Append(@, t)] /\ status' = status
    BY <1>20, <2>1 DEF PostprocessToken, ComputeToken
  <2>3. s \in Seqs
    BY <1>2, <2>1, <2>2, TailQueue
  <2> QED
    BY <1>17, <1>19, <2>1, <2>2, <2>3
<1>21. ASSUME NEW t \in Tokens, PostprocessLast(t)
       PROVE  PrefillFlags'
  <2>1. PICK s : s = Head(batch)
    OBVIOUS
  <2>2. /\ Postprocessed(s) /\ phase = "postprocess" /\ batch # <<>>
        /\ tok' = [tok EXCEPT ![s] = Append(@, t)]
        /\ status' = [status EXCEPT ![s] = "FINISHED"]
    BY <1>21, <2>1 DEF PostprocessLast, ComputeLast
  <2>3. s \in Seqs
    BY <1>2, <2>1, <2>2, TailQueue
  <2>4. \A x \in Seqs : status'[x] = "WAITING" => status[x] = "WAITING"
    BY <1>2, <2>2
  <2> QED
    BY <1>17, <1>19, <2>1, <2>2, <2>3, <2>4
<1>22. CASE EndStep
  BY <1>4, <1>22 DEF EndStep, batchVars, vars, queueVars
<1> QED
  BY <1>5, <1>6, <1>7, <1>8, <1>9, <1>10, <1>11, <1>13, <1>14, <1>15, <1>16,
     <1>18, <1>20, <1>21, <1>22 DEF SchedNext, Step

(* So does every step keep decodes at one token: ScheduleDecode clears      *)
(* is_prefill and schedules one, and who comes from waiting has is_prefill *)
(* set.                                                                    *)
LEMMA DecodersSingleStep ==
  ASSUME JInv, PrefillFlags, DecodersSingle, [SchedNext]_schedVars
  PROVE  DecodersSingle'
<1>1. /\ SInv /\ SchedTypeOK /\ Queues /\ TypeOK
      /\ \A s \in Seqs : RequestOK(s)
  BY DEF JInv, SInv, IInv
<1>2. /\ batch \in Seq(Seqs) /\ numScheduled \in [Seqs -> Nat]
      /\ isPrefill \in [Seqs -> BOOLEAN]
      /\ running \in Seq(Seqs) /\ waiting \in Seq(Seqs)
      /\ Range(batch) \subseteq Seqs
  BY <1>1, RangeOfSeq DEF SchedTypeOK
<1>3. CASE UNCHANGED <<numScheduled, batch, isPrefill>>
  BY <1>3 DEF DecodersSingle
<1>4. CASE UNCHANGED schedVars
  BY <1>3, <1>4 DEF schedVars
<1>5. ASSUME NEW s \in Seqs, NEW p \in Prompts, AddRequest(s, p)
      PROVE  DecodersSingle'
  BY <1>3, <1>5 DEF AddRequest, batchVars
<1>6. CASE StartStep
  <2>1. batch' = <<>>
    BY <1>6 DEF StartStep
  <2>2. Range(batch') = {}
    BY <2>1 DEF Range
  <2> QED
    BY <2>2 DEF DecodersSingle
<1>7. CASE PreemptLast
  <2>1. PICK s : s = Last(running)
    OBVIOUS
  <2>2. /\ isPrefill' = [isPrefill EXCEPT ![s] = TRUE]
        /\ UNCHANGED <<numScheduled, batch>>
    BY <1>7, <2>1 DEF PreemptLast, Preempt, batchVars
  <2>3. \A x \in Seqs : isPrefill[x] => isPrefill'[x]
    BY <1>2, <2>2
  <2> QED
    BY <1>2, <2>2, <2>3 DEF DecodersSingle
<1>8. CASE ScheduleDecode
  <2>1. PICK s : s = Head(running)
    OBVIOUS
  <2>2. /\ numScheduled' = [numScheduled EXCEPT ![s] = 1]
        /\ isPrefill' = [isPrefill EXCEPT ![s] = FALSE]
        /\ batch' = Append(batch, s) /\ running # <<>>
    BY <1>8, <2>1 DEF ScheduleDecode, DecodeMayTakeMore
  <2>3. s \in Seqs
    BY <1>2, <2>1, <2>2
  <2>4. Range(batch') = Range(batch) \cup {s}
    BY <1>2, <2>2, <2>3, AppendQueue
  <2> QED
    BY <1>2, <2>2, <2>3, <2>4 DEF DecodersSingle
<1>9. CASE DecodeDone
  BY <1>3, <1>9 DEF DecodeDone
<1>10. CASE PrefillReject
  BY <1>3, <1>10 DEF PrefillReject
<1>11. ASSUME PrefillMayTakeMore, NEW s, s = Head(waiting), NEW d,
              ScheduleChunk(s, d)
       PROVE  DecodersSingle'
  <2>1. /\ s \in Seqs /\ status[s] = "WAITING"
    BY <1>1, <1>11, NextWaiting
  <2>2. isPrefill[s]
    BY <2>1 DEF PrefillFlags, WaitersPrefill
  <2>3. /\ isPrefill' = isPrefill /\ batch' = Append(batch, s)
        /\ numScheduled' = [numScheduled EXCEPT ![s] = ChunkSize(s, d)]
    BY <1>11 DEF ScheduleChunk
  <2>4. Range(batch') = Range(batch) \cup {s}
    BY <1>2, <2>1, <2>3, AppendQueue
  <2>5. \A x \in Seqs : x # s => numScheduled'[x] = numScheduled[x]
    BY <1>2, <2>3
  <2> QED
    BY <1>2, <2>2, <2>3, <2>4, <2>5 DEF DecodersSingle
<1>12. CASE PrefillAdmit
  <2>1. PICK s : s = Head(waiting)
    OBVIOUS
  <2>2. PICK c \in 0 .. num_blocks(s) - 1 : ScheduleChunk(s, c * BlockSize)
    BY <1>12, <2>1 DEF PrefillAdmit
  <2> QED
    BY <1>11, <1>12, <2>1, <2>2 DEF PrefillAdmit
<1>13. CASE PrefillContinue
  <2>1. PICK s : s = Head(waiting)
    OBVIOUS
  <2>2. ScheduleChunk(s, numCached[s]) /\ PrefillMayTakeMore
    BY <1>13, <2>1 DEF PrefillContinue
  <2> QED
    BY <1>11, <2>1, <2>2
<1>14. CASE PrefillDone
  BY <1>3, <1>14 DEF PrefillDone, batchVars, queueVars
<1>15. CASE Dispatch
  BY <1>3, <1>15 DEF Dispatch, batchVars, queueVars
<1>16. ASSUME NEW s, s = Head(batch), Postprocessed(s),
              phase = "postprocess", batch # <<>>
       PROVE  DecodersSingle'
  <2>1. /\ batch' = Tail(batch) /\ isPrefill' = isPrefill
        /\ numScheduled' = [numScheduled EXCEPT ![s] = 0]
    BY <1>16 DEF Postprocessed
  <2>2. Range(Tail(batch)) = Range(batch) \ {s} /\ s \in Seqs
    BY <1>16, Computed DEF JInv, IInv
  <2> QED
    BY <1>2, <2>1, <2>2 DEF DecodersSingle
<1>17. CASE PostprocessChunk
  BY <1>16, <1>17 DEF PostprocessChunk
<1>18. ASSUME NEW t \in Tokens, PostprocessToken(t) \/ PostprocessLast(t)
       PROVE  DecodersSingle'
  BY <1>16, <1>18 DEF PostprocessToken, PostprocessLast
<1>19. CASE EndStep
  BY <1>3, <1>19 DEF EndStep, batchVars, queueVars
<1> QED
  BY <1>4, <1>5, <1>6, <1>7, <1>8, <1>9, <1>10, <1>12, <1>13, <1>14, <1>15, <1>17,
     <1>18, <1>19 DEF SchedNext, Step

(* min() of two numbers, as one operator takes it.                         *)
LEMMA LeastOfTwo ==
  ASSUME NEW a \in Int, NEW b \in Int, a <= b
  PROVE  Min({a, b}) = a
<1>1. Min({a, b}) \in {a, b} /\ \A y \in {a, b} : Min({a, b}) <= y
  BY DEF Min
<1> QED
  BY <1>1

(* The slice that is the last entry.                                       *)
LEMMA LastAsSlice ==
  ASSUME NEW T, NEW q \in Seq(T), Len(q) \in 1 .. Len(q)
  PROVE  SubSeq(q, Len(q), Len(q)) = <<Last(q)>>
<1>1. PICK n \in Nat : n = Len(q) /\ n >= 1
  OBVIOUS
<1>2. q[n] \in T
  BY <1>1
<1> DEFINE p == SubSeq(q, n, n)
<1>3. /\ p \in Seq(T) /\ Len(p) = n - n + 1
      /\ \A i \in 1 .. n - n + 1 : p[i] = q[n + i - 1]
  BY <1>1, <1>2, SubSeqProperties
<1> HIDE DEF p
<1>4. p \in Seq(T) /\ Len(p) = 1 /\ p[1] = q[n]
  <2>1. n - n + 1 = 1 /\ n + 1 - 1 = n /\ 1 \in 1 .. n - n + 1
    BY <1>1
  <2> QED
    BY <1>3, <2>1
<1>5. p = <<q[n]>>
  BY <1>4
<1>6. Last(q) = q[n]
  BY <1>1 DEF Last
<1> QED
  BY <1>1, <1>5, <1>6 DEF p

(* The number of tokens in the last block, for blocks of c: one more than  *)
(* the place of the last token in its block.                               *)
LEMMA LastBlockTokens ==
  ASSUME NEW n \in Nat \ {0}, NEW c \in Nat \ {0}
  PROVE  n - (((n + c - 1) \div c) - 1) * c - 1 = (n - 1) % c
<1>1. PICK m \in Nat : m = n - 1
  OBVIOUS
<1>2. PICK q : q = m \div c
  OBVIOUS
<1>3. PICK r : r = m % c
  OBVIOUS
<1>4. m = q * c + r /\ q \in Nat /\ r \in 0 .. c - 1
  BY <1>2, <1>3, PlaceParts, DivBounds
<1>5. (n + c - 1) \div c = q + 1
  <2>1. q * c \in Nat /\ (q + 1) * c = q * c + c
    BY <1>4
  <2>2. (q + 1) * c <= m + c /\ m + c < (q + 1) * c + c
    BY <1>4, <2>1
  <2>3. m + c \in Nat /\ q + 1 \in Nat
    BY <1>4
  <2>4. (m + c) \div c = q + 1
    BY <2>2, <2>3, DivUnique
  <2> QED
    BY <1>1, <2>4
<1>6. q * c \in Nat /\ n - q * c - 1 = r
  BY <1>1, <1>4
<1> QED
  BY <1>1, <1>3, <1>4, <1>5, <1>6

(* What a worker computes from the pickled state of a request, against     *)
(* what rank 0 computes from the whole of it.                              *)
LEMMA WorkersFromInv ==
  ASSUME JInv, PrefillFlags, DecodersSingle
  PROVE  WorkersPrepare
<1> SUFFICES ASSUME NEW s \in Range(batch)
             PROVE
               /\ ~DecodesAmongPrefills(s) => WorkerInputIds(s) = InputIds(s)
               /\ DecodesAmongPrefills(s) =>
                    /\ Mixed
                    /\ WorkerInputIds(s) = <<>> /\ InputIds(s) = <<Last(tok[s])>>
               /\ ~is_prefill =>
                    /\ WorkerDecodeSlot(s) = FlatSlot(DecodeSlot(s))
                         <=> (Len(tok[s]) - 1) % ClassBlockSize
                               = (Len(tok[s]) - 1) % BlockSize
                    /\ WorkerDecodeSlot(s) \div BlockSize = Last(table[s])
  BY DEF WorkersPrepare
<1>1. /\ s \in Seqs /\ table[s] # <<>> /\ table[s] \in Seq(Blocks)
      /\ tok[s] \in Seq(Tokens)
      /\ Len(tok[s]) \in Nat /\ numCached[s] \in Nat /\ numScheduled[s] \in Nat
      /\ numScheduled[s] > 0
      /\ numCached[s] + numScheduled[s] <= Len(tok[s])
  BY BatchSizes
<1>2. ASSUME ~DecodesAmongPrefills(s)
      PROVE  WorkerInputIds(s) = InputIds(s)
  <2>1. CASE ~is_prefill
    BY <2>1 DEF WorkerInputIds, InputIds, PickledLast
  <2>2. CASE is_prefill
    <3>1. PickledTokens(s) = tok[s]
      BY <1>2, <2>2 DEF DecodesAmongPrefills, PickledTokens
    <3>2. Min({numCached[s] + numScheduled[s], Len(tok[s])})
            = numCached[s] + numScheduled[s]
      BY <1>1, LeastOfTwo
    <3> QED
      BY <2>2, <3>1, <3>2 DEF WorkerInputIds, InputIds
  <2> QED
    BY <2>1, <2>2
<1>3. ASSUME DecodesAmongPrefills(s)
      PROVE  /\ Mixed
             /\ WorkerInputIds(s) = <<>> /\ InputIds(s) = <<Last(tok[s])>>
  <2>1. is_prefill /\ ~isPrefill[s]
    BY <1>3 DEF DecodesAmongPrefills
  <2>2. Mixed
    BY <2>1 DEF PrefillFlags, ChunksPrefill, is_prefill
  <2>3. numScheduled[s] = 1
    BY <2>1 DEF DecodersSingle
  <2>4. numCached[s] + 1 = Len(tok[s])
    <3>1. RequestOK(s) /\ status[s] # "WAITING"
      BY <1>1, <2>1 DEF JInv, SInv, PrefillFlags, WaitersPrefill
    <3>2. InBatch(s)
      BY <3>1 DEF RequestOK
    <3> QED
      BY <2>3, <3>1, <3>2 DEF InBatch
  <2>5. InputIds(s) = <<Last(tok[s])>>
    <3>1. InputIds(s) = SubSeq(tok[s], Len(tok[s]), Len(tok[s]))
      <4>1. InputIds(s)
              = SubSeq(tok[s], numCached[s] + 1, numCached[s] + numScheduled[s])
        BY <2>1 DEF InputIds
      <4> QED
        BY <2>3, <2>4, <4>1
    <3>2. Len(tok[s]) \in 1 .. Len(tok[s])
      BY <1>1, <2>4
    <3> QED
      BY <1>1, <3>1, <3>2, LastAsSlice
  <2>6. WorkerInputIds(s) = <<>>
    <3>1. PickledTokens(s) = <<>> /\ Len(PickledTokens(s)) = 0
      BY <2>1 DEF PickledTokens
    <3>2. Min({numCached[s] + numScheduled[s], Len(PickledTokens(s))}) = 0
      <4>1. Min({0, numCached[s] + numScheduled[s]}) = 0
        BY <1>1, LeastOfTwo
      <4>2. {0, numCached[s] + numScheduled[s]}
              = {numCached[s] + numScheduled[s], 0}
        OBVIOUS
      <4> QED
        BY <3>1, <4>1, <4>2
    <3>3. WorkerInputIds(s) = SubSeq(<<>>, numCached[s] + 1, 0)
      BY <2>1, <3>1, <3>2 DEF WorkerInputIds
    <3> QED
      BY <1>1, <3>3
  <2> QED
    BY <2>2, <2>5, <2>6
<1>4. ASSUME ~is_prefill
      PROVE  /\ WorkerDecodeSlot(s) = FlatSlot(DecodeSlot(s))
                  <=> (Len(tok[s]) - 1) % ClassBlockSize
                        = (Len(tok[s]) - 1) % BlockSize
             /\ WorkerDecodeSlot(s) \div BlockSize = Last(table[s])
  <2>1. PICK n : n = Len(tok[s])
    OBVIOUS
  <2>2. PICK l : l = Last(table[s])
    OBVIOUS
  <2>3. n \in Nat \ {0}
    BY <1>1, <2>1
  <2>4. l \in Nat /\ l * BlockSize \in Int
    <3>1. Len(table[s]) \in 1 .. Len(table[s])
      BY <1>1
    <3>2. l \in Blocks
      BY <1>1, <2>2, <3>1 DEF Last
    <3> QED
      BY <3>2, BlockSizeAssumption DEF Blocks
  <2>5. PICK c : c = (n - 1) % ClassBlockSize
    OBVIOUS
  <2>6. PICK b : b = (n - 1) % BlockSize
    OBVIOUS
  <2>7. c \in 0 .. BlockSize - 1 /\ b \in 0 .. BlockSize - 1
    <3>1. c \in 0 .. ClassBlockSize - 1 /\ b \in 0 .. BlockSize - 1
      BY <2>3, <2>5, <2>6, PlaceParts, BlockSizeAssumption,
         ClassBlockSizeAssumption
    <3> QED
      BY <3>1, BlockSizeAssumption, ClassBlockSizeAssumption
  <2>8. WorkerDecodeSlot(s) = l * BlockSize + c
    <3> DEFINE w == (((n + ClassBlockSize - 1) \div ClassBlockSize) - 1)
                      * ClassBlockSize
    <3>1. n - w - 1 = c
      <4>1. ClassBlockSize \in Nat \ {0}
        BY BlockSizeAssumption, ClassBlockSizeAssumption
      <4>2. n - w - 1 = (n - 1) % ClassBlockSize
        BY <2>3, <4>1, LastBlockTokens
      <4> QED
        BY <2>5, <4>2
    <3>2. WorkerDecodeSlot(s) = l * BlockSize + n - w - 1
      BY <2>1, <2>2 DEF WorkerDecodeSlot
    <3>3. w \in Int
      <4>1. (n + ClassBlockSize - 1) \div ClassBlockSize \in Nat
        BY <2>3, DivBounds, BlockSizeAssumption, ClassBlockSizeAssumption
      <4> QED
        BY <4>1, BlockSizeAssumption, ClassBlockSizeAssumption
    <3> HIDE DEF w
    <3> QED
      BY <2>3, <2>4, <3>1, <3>2, <3>3
  <2>9. FlatSlot(DecodeSlot(s)) = l * BlockSize + b
    <3>1. last_block_num_tokens(s) - 1 = b
      BY <2>1, <2>3, <2>6, LastPlace DEF last_block_num_tokens, num_blocks
    <3> QED
      BY <2>2, <3>1 DEF FlatSlot, DecodeSlot
  <2>10. (l * BlockSize + c) \div BlockSize = l
    BY <2>4, <2>7, PlaceBuilt, BlockSizeAssumption
  <2>11. l * BlockSize + c = l * BlockSize + b <=> c = b
    BY <2>4, <2>7
  <2> QED
    BY <2>1, <2>2, <2>5, <2>6, <2>8, <2>9, <2>10, <2>11
<1> QED
  BY <1>2, <1>3, <1>4

(* Before any request is added.                                            *)
LEMMA InitPrefillFlags == SchedInit => PrefillFlags /\ DecodersSingle
<1> SUFFICES ASSUME SchedInit PROVE PrefillFlags /\ DecodersSingle
  OBVIOUS
<1>1. \A s \in Seqs : isPrefill[s]
  BY DEF SchedInit
<1>2. Range(batch) = {}
  BY DEF SchedInit, Range
<1> QED
  BY <1>1, <1>2 DEF PrefillFlags, WaitersPrefill, ChunksPrefill, DecodersSingle

(* What a worker can prepare from pickled sequences, exactly               *)
(* (BatchInput.WorkersPrepare: Sequence.__getstate__, sequence.py:74-82,   *)
(* against prepare_prefill and prepare_decode), for any number of          *)
(* requests, any prompts, batches mixed or not, and any block size a       *)
(* worker's class may have.                                                *)
THEOREM WorkersPrepareHolds ==
  ASSUME DigestSound
  PROVE  SchedSpec => []WorkersPrepare
<1>1. JInv /\ PrefillFlags /\ [SchedNext]_schedVars => PrefillFlags'
  BY PrefillFlagsStep
<1>2. JInv /\ PrefillFlags /\ DecodersSingle /\ [SchedNext]_schedVars
        => DecodersSingle'
  BY DecodersSingleStep
<1>3. JInv /\ PrefillFlags /\ DecodersSingle => WorkersPrepare
  BY WorkersFromInv
<1> QED
  BY <1>1, <1>2, <1>3, InitPrefillFlags, SchedInvariance, PTL DEF SchedSpec

(***************************************************************************)
(* One row for each decode                                                 *)
(***************************************************************************)

(* Every step keeps the decodes at one token each.                         *)
LEMMA DecodesSinglyStep ==
  ASSUME JInv, DecodesSingly, [SchedNext]_schedVars
  PROVE  DecodesSingly'
<1>1. /\ SInv /\ SchedTypeOK /\ Queues /\ Counters /\ TypeOK
      /\ \A s \in Seqs : RequestOK(s)
  BY DEF JInv, SInv, IInv
<1>2. /\ batch \in Seq(Seqs) /\ numScheduled \in [Seqs -> Nat]
      /\ prefillTokens \in Nat /\ running \in Seq(Seqs) /\ waiting \in Seq(Seqs)
  BY <1>1 DEF SchedTypeOK
<1>3. CASE UNCHANGED <<numScheduled, batch, prefillTokens>>
  BY <1>3 DEF DecodesSingly
<1>4. CASE UNCHANGED schedVars
  BY <1>3, <1>4 DEF schedVars
<1>5. ASSUME NEW s \in Seqs, NEW p \in Prompts, AddRequest(s, p)
      PROVE  DecodesSingly'
  BY <1>3, <1>5 DEF AddRequest, batchVars
<1>6. CASE StartStep
  <2>1. batch' = <<>>
    BY <1>6 DEF StartStep
  <2>2. Range(batch') = {}
    BY <2>1 DEF Range
  <2> QED
    BY <2>2 DEF DecodesSingly
<1>7. CASE PreemptLast
  BY <1>3, <1>7 DEF PreemptLast, batchVars
<1>8. CASE ScheduleDecode
  <2>1. PICK s : s = Head(running)
    OBVIOUS
  <2>2. /\ numScheduled' = [numScheduled EXCEPT ![s] = 1]
        /\ batch' = Append(batch, s) /\ prefillTokens' = prefillTokens
        /\ running # <<>>
    BY <1>8, <2>1 DEF ScheduleDecode, DecodeMayTakeMore
  <2>3. s \in Seqs
    BY <1>2, <2>1, <2>2
  <2>4. Range(batch') = Range(batch) \cup {s}
    BY <1>2, <2>2, <2>3, AppendQueue
  <2>5. Range(batch) \subseteq Seqs
    BY <1>2, RangeOfSeq
  <2> QED
    BY <1>2, <2>2, <2>3, <2>4, <2>5 DEF DecodesSingly
<1>9. CASE DecodeDone
  BY <1>3, <1>9 DEF DecodeDone
<1>10. CASE PrefillReject
  BY <1>3, <1>10 DEF PrefillReject
<1>11. ASSUME PrefillMayTakeMore, NEW s, s = Head(waiting), NEW d \in Nat,
              d < Len(tok[s]), ScheduleChunk(s, d)
       PROVE  DecodesSingly'
  <2>1. prefillTokens' = prefillTokens + ChunkSize(s, d)
    BY <1>11 DEF ScheduleChunk
  <2>2. s \in Seqs
    BY <1>11, NextWaiting DEF JInv
  <2>3. ChunkSize(s, d) \in Nat \ {0}
    BY <1>1, <1>11, <2>2, ChunkFits
  <2> QED
    BY <1>2, <2>1, <2>3 DEF DecodesSingly
<1>12. CASE PrefillAdmit
  <2>1. PICK s : s = Head(waiting)
    OBVIOUS
  <2>2. PICK c \in 0 .. num_blocks(s) - 1 : ScheduleChunk(s, c * BlockSize)
    BY <1>12, <2>1 DEF PrefillAdmit
  <2>3. PrefillMayTakeMore
    BY <1>12 DEF PrefillAdmit
  <2>4. s \in Seqs
    BY <2>1, <2>3, NextWaiting DEF JInv
  <2>5. Len(tok[s]) \in Nat /\ num_blocks(s) \in Nat
    BY <1>1, <2>4, RequestSizes
  <2>6. c * BlockSize \in Nat /\ c * BlockSize < Len(tok[s])
    <3>1. c \in Nat /\ c < num_blocks(s) /\ BlockSize \in Nat
      BY <2>5, BlockSizeAssumption
    <3>2. c * BlockSize + BlockSize <= num_blocks(s) * BlockSize
      BY <2>5, <3>1, MulStep
    <3>3. num_blocks(s) * BlockSize < Len(tok[s]) + BlockSize
      BY <2>5, BlocksForBounds DEF num_blocks
    <3>4. c * BlockSize \in Nat /\ num_blocks(s) * BlockSize \in Nat
      BY <2>5, <3>1
    <3> QED
      BY <2>5, <3>1, <3>2, <3>3, <3>4
  <2> QED
    BY <1>11, <2>1, <2>2, <2>3, <2>6
<1>13. CASE PrefillContinue
  <2>1. PICK s : s = Head(waiting)
    OBVIOUS
  <2>2. ScheduleChunk(s, numCached[s]) /\ table[s] # <<>> /\ PrefillMayTakeMore
    BY <1>13, <2>1 DEF PrefillContinue
  <2>3. s \in Seqs /\ status[s] = "WAITING" /\ s \notin Range(batch)
    BY <2>1, <2>2, NextWaiting DEF JInv
  <2>4. numCached[s] \in Nat /\ numCached[s] < Len(tok[s])
    BY <1>1, <2>2, <2>3 DEF RequestOK, Rests, TypeOK
  <2> QED
    BY <1>11, <2>1, <2>2, <2>4
<1>14. CASE PrefillDone
  BY <1>3, <1>14 DEF PrefillDone, batchVars
<1>15. CASE Dispatch
  BY <1>3, <1>15 DEF Dispatch, batchVars
<1>16. ASSUME NEW s, s = Head(batch), Postprocessed(s),
              phase = "postprocess", batch # <<>>
       PROVE  DecodesSingly'
  <2>1. /\ batch' = Tail(batch) /\ prefillTokens' = prefillTokens
        /\ numScheduled' = [numScheduled EXCEPT ![s] = 0]
    BY <1>16 DEF Postprocessed
  <2>2. Range(Tail(batch)) = Range(batch) \ {s} /\ s \in Seqs
    BY <1>16, Computed DEF JInv, IInv
  <2>3. Range(batch) \subseteq Seqs
    BY <1>2, RangeOfSeq
  <2> QED
    BY <1>2, <2>1, <2>2, <2>3 DEF DecodesSingly
<1>17. CASE PostprocessChunk
  BY <1>16, <1>17 DEF PostprocessChunk
<1>18. ASSUME NEW t \in Tokens, PostprocessToken(t) \/ PostprocessLast(t)
       PROVE  DecodesSingly'
  BY <1>16, <1>18 DEF PostprocessToken, PostprocessLast
<1>19. CASE EndStep
  BY <1>3, <1>19 DEF EndStep, batchVars
<1> QED
  BY <1>4, <1>5, <1>6, <1>7, <1>8, <1>9, <1>10, <1>12, <1>13, <1>14, <1>15, <1>17,
     <1>18, <1>19 DEF SchedNext, Step

(***************************************************************************)
(* Tables without a reserve                                                *)
(***************************************************************************)

(* Without reserve_decode_kv no step gives a request a block too many.     *)
LEMMA TablesExactStep ==
  ASSUME DigestSound, IInv, TablesExact, [Next]_vars
  PROVE  TablesExact'
<1> SUFFICES ASSUME ~Reserve
             PROVE  \A x \in Seqs : Len(table'[x]) <= num_blocks(x)'
  BY DEF TablesExact
<1>0. TypeOK /\ BlocksAfterCreation
  BY DEF IInv
<1>1. \A x \in Seqs : /\ Len(tok[x]) \in Nat /\ Len(table[x]) \in Nat
                      /\ num_blocks(x) \in Nat
                      /\ Len(table[x]) <= num_blocks(x)
  <2> SUFFICES ASSUME NEW x \in Seqs
               PROVE  /\ Len(tok[x]) \in Nat /\ Len(table[x]) \in Nat
                      /\ num_blocks(x) \in Nat
                      /\ Len(table[x]) <= num_blocks(x)
    OBVIOUS
  <2>1. Len(tok[x]) \in Nat /\ Len(table[x]) \in Nat
    BY <1>0 DEF TypeOK
  <2> QED
    BY <2>1, BlocksForBounds DEF num_blocks, TablesExact
<1>2. ASSUME NEW x \in Seqs, tok'[x] = tok[x],
             table'[x] = table[x] \/ table'[x] = <<>>
      PROVE  Len(table'[x]) <= num_blocks(x)'
  <2>1. num_blocks(x)' = num_blocks(x)
    BY <1>2 DEF num_blocks
  <2>2. Len(<<>>) = 0
    OBVIOUS
  <2> QED
    BY <1>1, <1>2, <2>1, <2>2
<1>3. CASE UNCHANGED vars
  BY <1>2, <1>3 DEF vars
<1>4. ASSUME NEW s \in Seqs, NEW p \in Prompts, Create(s, p)
      PROVE  \A x \in Seqs : Len(table'[x]) <= num_blocks(x)'
  <2>1. /\ \A x \in Seqs : x # s => tok'[x] = tok[x]
        /\ tok'[s] = p /\ table' = table /\ table[s] = <<>>
    BY <1>0, <1>4 DEF Create, NewSequence, TypeOK, BlocksAfterCreation
  <2>2. Len(p) \in Nat
    BY PromptsAssumption
  <2>3. num_blocks(s)' \in Nat
    BY <2>1, <2>2, BlocksForBounds DEF num_blocks
  <2>4. Len(table'[s]) <= num_blocks(s)'
    BY <2>1, <2>3
  <2> QED
    BY <1>2, <2>1, <2>4
<1>5. ASSUME NEW s \in Seqs, Admit(s)
      PROVE  \A x \in Seqs : Len(table'[x]) <= num_blocks(x)'
  <2>1. PICK c \in 0 .. num_blocks(s) - 1 :
          CachedBlocks(s, c) /\ CanAllocate(s, c) /\ Allocate(s, c)
    BY <1>5 DEF Admit
  <2>2. PICK hits, fresh :
          /\ Took(s, hits, fresh)
          /\ Len(hits) = c /\ Len(fresh) = allocation_target(s) - c
          /\ table' = [table EXCEPT ![s] = hits \o fresh]
          /\ UNCHANGED <<tok, numPrompt>>
    BY <1>5, <2>1, AllocateTook DEF IInv, Contents, Accounting, Admit
  <2>3. hits \in Seq(Blocks) /\ fresh \in Seq(Blocks)
    BY <2>2 DEF Took
  <2>4. Len(hits \o fresh) = Len(hits) + Len(fresh)
    BY <2>3, ConcatProperties
  <2>5. allocation_target(s) = num_blocks(s)
    BY DEF allocation_target
  <2>6. Len(hits \o fresh) = num_blocks(s)
    BY <1>1, <2>1, <2>2, <2>4, <2>5
  <2>7. /\ table'[s] = hits \o fresh
        /\ \A x \in Seqs : x # s => table'[x] = table[x]
    BY <1>0, <2>2 DEF TypeOK
  <2>8. Len(table'[s]) <= num_blocks(s)'
    <3>1. num_blocks(s)' = num_blocks(s)
      BY <2>2 DEF num_blocks
    <3> QED
      BY <1>1, <2>6, <2>7, <3>1
  <2> QED
    BY <1>2, <2>2, <2>7, <2>8
<1>6. ASSUME NEW s \in Seqs, RejectAdmission(s)
      PROVE  \A x \in Seqs : Len(table'[x]) <= num_blocks(x)'
  BY <1>2, <1>6 DEF RejectAdmission, RejectedLookup, seqVars
<1>7. ASSUME NEW s \in Seqs, Grow(s)
      PROVE  \A x \in Seqs : Len(table'[x]) <= num_blocks(x)'
  <2>1. /\ table' = [table EXCEPT ![s] = Append(table[s], Head(free))]
        /\ tok' = tok /\ num_blocks(s) > Len(table[s])
    BY <1>0, <1>7, GrowTook DEF Grow, CanAppend, IInv
  <2>2. /\ \A x \in Seqs : x # s => table'[x] = table[x]
        /\ Len(table'[s]) = Len(table[s]) + 1
    BY <1>0, <2>1 DEF TypeOK
  <2>3. Len(table'[s]) <= num_blocks(s)'
    <3>1. num_blocks(s)' = num_blocks(s)
      BY <2>1 DEF num_blocks
    <3> QED
      BY <1>1, <2>1, <2>2, <3>1
  <2> QED
    BY <1>2, <2>1, <2>2, <2>3
<1>8. ASSUME NEW s \in Seqs, NEW n \in 1 .. Len(tok[s]), ComputePart(s, n)
      PROVE  \A x \in Seqs : Len(table'[x]) <= num_blocks(x)'
  BY <1>2, <1>8 DEF ComputePart, ComputeChunk
<1>9. ASSUME NEW s \in Seqs, NEW t \in Tokens,
             tok' = [tok EXCEPT ![s] = Append(tok[s], t)],
             \A x \in Seqs : table'[x] = table[x] \/ table'[x] = <<>>
      PROVE  \A x \in Seqs : Len(table'[x]) <= num_blocks(x)'
  <2>1. /\ \A x \in Seqs : x # s => tok'[x] = tok[x]
        /\ Len(tok'[s]) = Len(tok[s]) + 1
    BY <1>0, <1>9 DEF TypeOK
  <2>2. Len(tok[s]) <= Len(tok'[s]) /\ Len(tok'[s]) \in Nat
    BY <1>1, <2>1
  <2>3. num_blocks(s) <= num_blocks(s)' /\ num_blocks(s)' \in Nat
    BY <1>1, <2>2, BlocksForMonotone, BlocksForBounds DEF num_blocks
  <2>4. Len(<<>>) = 0
    OBVIOUS
  <2>5. Len(table'[s]) <= num_blocks(s)'
    BY <1>1, <1>9, <2>3, <2>4
  <2> QED
    BY <1>2, <1>9, <2>1, <2>5
<1>10. ASSUME NEW s \in Seqs, NEW n \in 1 .. Len(tok[s]), NEW t \in Tokens,
              ComputeAll(s, n, t)
       PROVE  \A x \in Seqs : Len(table'[x]) <= num_blocks(x)'
  BY <1>9, <1>10 DEF ComputeAll, ComputeToken
<1>11. ASSUME NEW s \in Seqs, Deallocate(s)
       PROVE  \A x \in Seqs : table'[x] = table[x] \/ table'[x] = <<>>
  BY <1>0, <1>11 DEF Deallocate, TypeOK
<1>12. ASSUME NEW s \in Seqs, NEW n \in 1 .. Len(tok[s]), NEW t \in Tokens,
              ComputeFinal(s, n, t)
       PROVE  \A x \in Seqs : Len(table'[x]) <= num_blocks(x)'
  BY <1>9, <1>11, <1>12 DEF ComputeFinal, ComputeLast
<1>13. ASSUME NEW s \in Seqs, Release(s)
       PROVE  \A x \in Seqs : Len(table'[x]) <= num_blocks(x)'
  BY <1>2, <1>11, <1>13 DEF Release
<1> QED
  BY <1>3, <1>4, <1>5, <1>6, <1>7, <1>8, <1>10, <1>12, <1>13 DEF Next

(***************************************************************************)
(* What running the model does to the KV cache                             *)
(***************************************************************************)

(* Every row of a launch is stored, by the fused kernel or by attention.   *)
LEMMA AllRowsStored ==
  ASSUME NEW n \in Nat
  PROVE  StoredRows(n) = 1 .. n
BY DEF StoredRows, FusedRows, AttentionRows, kv_already_stored

(* So the requests whose rows are stored are those of the batch.           *)
LEMMA StoredBatch ==
  ASSUME batch \in Seq(Seqs)
  PROVE  {batch[i] : i \in StoredRows(Len(batch))} = Range(batch)
<1>1. Len(batch) \in Nat /\ DOMAIN batch = 1 .. Len(batch)
  BY LenProperties
<1>2. StoredRows(Len(batch)) = DOMAIN batch
  BY <1>1, AllRowsStored
<1> QED
  BY <1>2 DEF Range

(* The effect of the model on one slot: a row stored there puts the KV of  *)
(* its prefix there, whichever row it is, and a slot no row is stored in   *)
(* keeps what it has.                                                      *)
LEMMA RunEffect ==
  ASSUME JInv, RunModel, NEW b \in Blocks, NEW o \in Offsets
  PROVE  /\ \A s \in Range(batch) : \A v \in Stores(s) :
              v[1] = <<b, o>> => kv'[b][o] = Prefixed(s, v[2])
         /\ (\A s \in Range(batch) : \A v \in Stores(s) : v[1] # <<b, o>>)
              => kv'[b][o] = kv[b][o]
<1>1. batch \in Seq(Seqs)
  BY DEF JInv, SInv, SchedTypeOK
<1> DEFINE stored == {batch[i] : i \in StoredRows(Len(batch))}
           Writes(s) == \E w \in Stores(s) : w[1] = <<b, o>>
           writer == CHOOSE s \in stored : Writes(s)
           store == CHOOSE w \in Stores(writer) : w[1] = <<b, o>>
<1>2. stored = Range(batch)
  BY <1>1, StoredBatch
<1>3. kv'[b][o] = IF \E s \in stored : Writes(s) THEN Prefixed(writer, store[2])
                  ELSE kv[b][o]
  BY DEF RunModel
<1> HIDE DEF stored
<1>4. ASSUME NEW s \in Range(batch), NEW v \in Stores(s), v[1] = <<b, o>>
      PROVE  kv'[b][o] = Prefixed(s, v[2])
  <2>1. \E x \in stored : Writes(x)
    BY <1>2, <1>4
  <2>2. writer \in stored /\ Writes(writer)
    BY <2>1
  <2> HIDE DEF writer
  <2>3. store \in Stores(writer) /\ store[1] = <<b, o>>
    BY <2>2
  <2> HIDE DEF store
  <2>4. writer = s /\ store = v
    BY <1>2, <1>4, <2>2, <2>3, SlotsDistinctFromInv
  <2> QED
    BY <1>3, <2>1, <2>4
<1>5. ASSUME \A s \in Range(batch) : \A v \in Stores(s) : v[1] # <<b, o>>
      PROVE  kv'[b][o] = kv[b][o]
  <2>1. ~ \E s \in stored : Writes(s)
    BY <1>2, <1>5
  <2> QED
    BY <1>3, <2>1
<1> QED
  BY <1>4, <1>5

(* Without reserve_decode_kv the decode row is stored in the place of the  *)
(* last token.                                                             *)
LEMMA DecodeInPlace ==
  ASSUME JInv, TablesExact, ~Reserve, NEW s \in Range(batch)
  PROVE  DecodeSlot(s) = TableSlot(s, Len(tok[s]) - 1)
<1>1. /\ s \in Seqs /\ Roomy(s) /\ table[s] \in Seq(Blocks)
      /\ Len(tok[s]) \in Nat /\ Len(table[s]) \in Nat
      /\ numScheduled[s] \in Nat /\ numCached[s] \in Nat /\ numScheduled[s] > 0
      /\ numCached[s] + numScheduled[s] <= Len(tok[s])
  BY BatchSizes
<1>2. Len(tok[s]) > 0
  BY <1>1
<1>3. /\ num_blocks(s) = ((Len(tok[s]) - 1) \div BlockSize) + 1
      /\ num_blocks(s) \in Nat
      /\ last_block_num_tokens(s) - 1 = (Len(tok[s]) - 1) % BlockSize
  BY <1>1, <1>2, LastPlace DEF num_blocks, last_block_num_tokens
<1>4. Len(table[s]) = num_blocks(s)
  BY <1>1, <1>3 DEF Roomy, TablesExact
<1> QED
  BY <1>3, <1>4 DEF DecodeSlot, TableSlot, Last

(* So everything scheduled is stored in its place, and nothing else is     *)
(* stored.                                                                 *)
LEMMA StoredInPlace ==
  ASSUME JInv, TablesExact, DecodesSingly, ~Reserve, NEW s \in Range(batch)
  PROVE  /\ \A v \in Stores(s) : v[1] = TableSlot(s, v[2])
         /\ \A p \in numCached[s] .. numCached[s] + numScheduled[s] - 1 :
              <<TableSlot(s, p), p>> \in Stores(s)
<1>1. DecodeSlot(s) = TableSlot(s, Len(tok[s]) - 1)
  BY DecodeInPlace
<1>2. CASE is_prefill
  BY <1>2 DEF Stores, ChunkPositions
<1>3. CASE ~is_prefill
  <2>1. /\ numCached[s] \in Nat
        /\ numCached[s] + numScheduled[s] = Len(tok[s])
    BY <1>3, BatchSizes
  <2>2. numScheduled[s] = 1
    <3>1. prefillTokens \in Nat
      BY DEF JInv, SInv, SchedTypeOK
    <3> QED
      BY <1>3, <3>1 DEF DecodesSingly, is_prefill
  <2>3. \A p \in numCached[s] .. numCached[s] + numScheduled[s] - 1 :
          p = Len(tok[s]) - 1
    BY <2>1, <2>2
  <2> QED
    BY <1>1, <1>3, <2>3 DEF Stores
<1> QED
  BY <1>2, <1>3

(* What was cached is not overwritten by the batch.                        *)
LEMMA CachedNotStored ==
  ASSUME JInv, TablesExact, DecodesSingly, ~Reserve,
         NEW s \in Seqs, NEW p \in 0 .. numCached[s] - 1,
         NEW r \in Range(batch), NEW v \in Stores(r)
  PROVE  v[1] # TableSlot(s, p)
<1> SUFFICES ASSUME v[1] = TableSlot(s, p) PROVE FALSE
  OBVIOUS
<1>1. /\ TypeOK /\ RefExact
      /\ numCached[s] \in Nat /\ numCached[s] <= BlockSize * Len(table[s])
      /\ Len(table[s]) \in Nat /\ table[s] \in Seq(Blocks)
  BY DEF JInv, IInv, Accounting, TypeOK, CachedBounds
<1>2. p \in Nat /\ p < BlockSize * Len(table[s])
  <2>1. BlockSize * Len(table[s]) \in Nat
    BY <1>1, BlockSizeAssumption
  <2> QED
    BY <1>1, <2>1
<1> DEFINE b == table[s][(p \div BlockSize) + 1]
<1>3. /\ v[1] = <<b, p % BlockSize>> /\ b \in Range(table[s])
  <2>1. (p \div BlockSize) + 1 \in 1 .. Len(table[s])
    BY <1>1, <1>2, TablePlace
  <2> QED
    BY <1>1, <2>1 DEF TableSlot, Range
<1> HIDE DEF b
<1>4. Holders(b) = {r}
  BY <1>3, StorePrivate
<1>5. s = r
  BY <1>3, <1>4 DEF Holders
<1>6. v[1] = TableSlot(s, v[2])
  BY <1>5, StoredInPlace
<1>7. v[2] \in numCached[s] .. numCached[s] + numScheduled[s] - 1
  BY <1>5, StorePlace
<1>8. /\ numScheduled[s] \in Nat /\ Len(tok[s]) \in Nat
      /\ numCached[s] + numScheduled[s] <= Len(tok[s])
      /\ Len(tok[s]) <= BlockSize * Len(table[s])
  BY <1>5, BatchSizes
<1>9. v[2] \in Nat /\ v[2] < BlockSize * Len(table[s])
  <2> DEFINE room == BlockSize * Len(table[s])
             from == numCached[s]
             to == numCached[s] + numScheduled[s]
             l == Len(tok[s])
  <2>1. room \in Nat /\ from \in Nat /\ to \in Nat /\ l \in Nat
    BY <1>1, <1>8, BlockSizeAssumption
  <2>2. to <= l /\ l <= room
    BY <1>8
  <2>3. v[2] \in Int /\ from <= v[2] /\ v[2] <= to - 1
    BY <1>7, <1>8, <2>1
  <2> HIDE DEF room, from, to, l
  <2>4. v[2] \in Nat /\ v[2] < room
    BY <2>1, <2>2, <2>3
  <2> QED
    BY <2>4 DEF room
<1>10. p = v[2]
  BY <1>1, <1>2, <1>6, <1>9, PlacesDiffer
<1> QED
  BY <1>1, <1>7, <1>10

(* A slot that keeps its content, of a request that keeps its table and    *)
(* its tokens, is still right.                                             *)
LEMMA WrittenKept ==
  ASSUME NEW s, NEW p, Written(s, p),
         kv'[TableSlot(s, p)[1]][TableSlot(s, p)[2]]
           = kv[TableSlot(s, p)[1]][TableSlot(s, p)[2]],
         table'[s] = table[s], tok'[s] = tok[s]
  PROVE  Written(s, p)'
BY DEF Written, TableSlot, Prefixed

(* The model runs: what it stores is right, and it spoils nothing.         *)
LEMMA RunModelKV ==
  ASSUME JInv, TablesExact, DecodesSingly, ~Reserve, KVInv, Dispatch, RunModel
  PROVE  KVInv'
<1>1. /\ UNCHANGED <<chain, tok, table, numCached, numScheduled, batch>>
  BY DEF Dispatch, vars, batchVars
<1>2. TypeOK /\ CachedBounds /\ BlockSize \in Nat \ {0}
  BY BlockSizeAssumption DEF JInv, IInv
<1>3. HashedBlocksWritten'
  <2> SUFFICES ASSUME NEW b \in Blocks, chain[b] # <<>>, NEW o \in Offsets
               PROVE  kv'[b][o]
                        = SubSeq(chain[b], 1, Len(chain[b]) - BlockSize + o + 1)
    BY <1>1 DEF HashedBlocksWritten
  <2>1. ASSUME NEW s \in Range(batch), NEW v \in Stores(s), v[1] = <<b, o>>
        PROVE  FALSE
    BY <2>1, StorePrivate
  <2>2. kv'[b][o] = kv[b][o]
    BY <2>1, RunEffect
  <2> QED
    BY <2>2 DEF KVInv, HashedBlocksWritten
<1>4. ASSUME NEW s \in Seqs, NEW p \in 0 .. numCached[s] - 1
      PROVE  Written(s, p)'
  <2>1. Written(s, p)
    BY DEF KVInv, CachedWritten, WrittenUpTo
  <2>2. /\ TableSlot(s, p)[1] \in Blocks /\ TableSlot(s, p)[2] \in Offsets
        /\ TableSlot(s, p) = <<TableSlot(s, p)[1], TableSlot(s, p)[2]>>
    <3>1. /\ numCached[s] \in Nat /\ numCached[s] <= BlockSize * Len(table[s])
          /\ BlockSize * Len(table[s]) \in Nat
      BY <1>2 DEF TypeOK, CachedBounds
    <3>2. p \in Nat /\ p < BlockSize * Len(table[s])
      BY <3>1
    <3> QED
      BY <1>2, <3>2, TablePlace DEF TableSlot
  <2>3. \A r \in Range(batch) : \A v \in Stores(r) :
          v[1] # <<TableSlot(s, p)[1], TableSlot(s, p)[2]>>
    BY <2>2, CachedNotStored
  <2>4. kv'[TableSlot(s, p)[1]][TableSlot(s, p)[2]]
          = kv[TableSlot(s, p)[1]][TableSlot(s, p)[2]]
    BY <2>2, <2>3, RunEffect
  <2> QED
    BY <1>1, <2>1, <2>4, WrittenKept
<1>5. ASSUME NEW s \in Range(batch),
             NEW p \in 0 .. (numCached[s] + numScheduled[s]) - 1
      PROVE  Written(s, p)'
  <2>1. /\ s \in Seqs /\ numCached[s] \in Nat /\ numScheduled[s] \in Nat
        /\ Len(tok[s]) \in Nat /\ Len(table[s]) \in Nat
        /\ numCached[s] + numScheduled[s] <= Len(tok[s])
        /\ Len(tok[s]) <= BlockSize * Len(table[s])
    BY BatchSizes
  <2>2. CASE p < numCached[s]
    <3>1. p \in 0 .. numCached[s] - 1
      BY <2>1, <2>2
    <3> QED
      BY <1>4, <2>1, <3>1
  <2>3. CASE ~(p < numCached[s])
    <3>1. p \in numCached[s] .. numCached[s] + numScheduled[s] - 1
      BY <2>1, <2>3
    <3>2. <<TableSlot(s, p), p>> \in Stores(s)
      BY <3>1, StoredInPlace
    <3>3. p \in Nat /\ p < BlockSize * Len(table[s])
      <4>1. BlockSize * Len(table[s]) \in Nat
        BY <1>2, <2>1
      <4> QED
        BY <2>1, <4>1
    <3>4. /\ TableSlot(s, p)[1] \in Blocks /\ TableSlot(s, p)[2] \in Offsets
          /\ TableSlot(s, p) = <<TableSlot(s, p)[1], TableSlot(s, p)[2]>>
      BY <1>2, <2>1, <3>3, TablePlace DEF TableSlot
    <3> DEFINE v == <<TableSlot(s, p), p>>
    <3>5. /\ v \in Stores(s) /\ v[2] = p
          /\ v[1] = <<TableSlot(s, p)[1], TableSlot(s, p)[2]>>
      BY <3>2, <3>4
    <3> HIDE DEF v
    <3>6. kv'[TableSlot(s, p)[1]][TableSlot(s, p)[2]] = Prefixed(s, v[2])
      BY <3>4, <3>5, RunEffect
    <3> QED
      BY <1>1, <3>5, <3>6 DEF Written, TableSlot, Prefixed
  <2> QED
    BY <2>2, <2>3
<1>6. CachedWritten'
  BY <1>1, <1>4 DEF CachedWritten, WrittenUpTo
<1>7. ScheduledWritten'
  BY <1>1, <1>5 DEF ScheduledWritten, WrittenUpTo
<1> QED
  BY <1>3, <1>6, <1>7 DEF KVInv

(***************************************************************************)
(* What keeps written what is written                                      *)
(***************************************************************************)

(* A prefix of a prefix is a prefix.                                       *)
LEMMA PrefixOfPrefix ==
  ASSUME NEW T, NEW q \in Seq(T), NEW m \in 0 .. Len(q), NEW k \in 0 .. m
  PROVE  SubSeq(SubSeq(q, 1, m), 1, k) = SubSeq(q, 1, k)
<1> DEFINE r == SubSeq(q, 1, m)
<1>1. Len(q) \in Nat /\ m \in Nat /\ k \in Nat
  BY LenProperties
<1>2. r \in Seq(T) /\ Len(r) = m /\ \A i \in 1 .. m : r[i] = q[i]
  BY <1>1, SubSeqProperties
<1> HIDE DEF r
<1>3. /\ SubSeq(r, 1, k) \in Seq(T) /\ Len(SubSeq(r, 1, k)) = k
      /\ \A i \in 1 .. k : SubSeq(r, 1, k)[i] = r[i]
  BY <1>1, <1>2, SubSeqProperties
<1>4. /\ SubSeq(q, 1, k) \in Seq(T) /\ Len(SubSeq(q, 1, k)) = k
      /\ \A i \in 1 .. k : SubSeq(q, 1, k)[i] = q[i]
  BY <1>1, SubSeqProperties
<1>5. \A i \in 1 .. k : SubSeq(r, 1, k)[i] = SubSeq(q, 1, k)[i]
  BY <1>1, <1>2, <1>3, <1>4
<1>6. SubSeq(r, 1, k) = SubSeq(q, 1, k)
  BY <1>3, <1>4, <1>5, SeqEqual
<1> QED
  BY <1>6 DEF r

(* A new token leaves the earlier prefixes as they are.                    *)
LEMMA PrefixedKept ==
  ASSUME NEW x, tok[x] \in Seq(Tokens), NEW p \in Nat, p < Len(tok[x]),
         tok'[x] = tok[x] \/ \E t \in Tokens : tok'[x] = Append(tok[x], t)
  PROVE  Prefixed(x, p)' = Prefixed(x, p)
<1>1. CASE tok'[x] = tok[x]
  BY <1>1 DEF Prefixed
<1>2. ASSUME NEW t \in Tokens, tok'[x] = Append(tok[x], t)
      PROVE  Prefixed(x, p)' = Prefixed(x, p)
  <2> DEFINE q == tok[x]
             r == Append(tok[x], t)
  <2>1. /\ q \in Seq(Tokens) /\ r \in Seq(Tokens)
        /\ Len(r) = Len(q) + 1 /\ Len(q) \in Nat
        /\ \A i \in 1 .. Len(q) : r[i] = q[i]
    BY AppendProperties, LenProperties
  <2> HIDE DEF q, r
  <2>2. p + 1 \in 0 .. Len(q) /\ p < Len(q)
    BY <2>1 DEF q
  <2>3. /\ SubSeq(q, 1, p + 1) \in Seq(Tokens) /\ Len(SubSeq(q, 1, p + 1)) = p + 1
        /\ \A i \in 1 .. p + 1 : SubSeq(q, 1, p + 1)[i] = q[i]
    BY <2>1, <2>2, SubSeqProperties
  <2>4. /\ SubSeq(r, 1, p + 1) \in Seq(Tokens) /\ Len(SubSeq(r, 1, p + 1)) = p + 1
        /\ \A i \in 1 .. p + 1 : SubSeq(r, 1, p + 1)[i] = r[i]
    BY <2>1, <2>2, SubSeqProperties
  <2>5. SubSeq(q, 1, p + 1) = SubSeq(r, 1, p + 1)
    BY <2>1, <2>2, <2>3, <2>4, SeqEqual
  <2> QED
    BY <1>2, <2>5 DEF Prefixed, q, r
<1> QED
  BY <1>1, <1>2

(* A request whose table and tokens at most grow keeps what is written.    *)
LEMMA GrowKeepsWritten ==
  ASSUME TypeOK, NEW x \in Seqs, UNCHANGED kv,
         NEW n \in Nat, WrittenUpTo(x, n),
         n <= Len(tok[x]), n <= BlockSize * Len(table[x]),
         \A i \in 1 .. Len(table[x]) : table'[x][i] = table[x][i],
         tok'[x] = tok[x] \/ \E t \in Tokens : tok'[x] = Append(tok[x], t)
  PROVE  \A p \in 0 .. n - 1 : Written(x, p)'
<1> SUFFICES ASSUME NEW p \in 0 .. n - 1
             PROVE  Written(x, p)'
  OBVIOUS
<1>1. /\ tok[x] \in Seq(Tokens) /\ Len(tok[x]) \in Nat
      /\ Len(table[x]) \in Nat /\ BlockSize * Len(table[x]) \in Nat
  BY BlockSizeAssumption DEF TypeOK
<1>2. p \in Nat /\ p < Len(tok[x]) /\ p < BlockSize * Len(table[x])
  BY <1>1
<1>3. (p \div BlockSize) + 1 \in 1 .. Len(table[x])
  BY <1>2, TablePlace
<1>4. TableSlot(x, p)' = TableSlot(x, p)
  BY <1>3 DEF TableSlot
<1>5. Prefixed(x, p)' = Prefixed(x, p)
  BY <1>1, <1>2, PrefixedKept
<1>6. Written(x, p)
  BY DEF WrittenUpTo
<1> QED
  BY <1>4, <1>5, <1>6 DEF Written

(* In particular it keeps what it counts as cached.                        *)
LEMMA CachedKept ==
  ASSUME IInv, CachedWritten, UNCHANGED kv, NEW x \in Seqs,
         numCached'[x] = numCached[x],
         \A i \in 1 .. Len(table[x]) : table'[x][i] = table[x][i],
         tok'[x] = tok[x] \/ \E t \in Tokens : tok'[x] = Append(tok[x], t)
  PROVE  WrittenUpTo(x, numCached[x])'
<1>1. /\ TypeOK /\ numCached[x] \in Nat /\ numCached[x] <= Len(tok[x])
      /\ numCached[x] <= BlockSize * Len(table[x])
  BY DEF IInv, TypeOK, CachedBounds
<1>2. WrittenUpTo(x, numCached[x])
  BY DEF CachedWritten
<1>3. \A p \in 0 .. numCached[x] - 1 : Written(x, p)'
  BY <1>1, <1>2, GrowKeepsWritten
<1> QED
  BY <1>3 DEF WrittenUpTo

(* A request that counts nothing as cached needs nothing written.          *)
LEMMA NothingCached ==
  ASSUME NEW x, numCached'[x] = 0
  PROVE  WrittenUpTo(x, numCached[x])'
BY DEF WrittenUpTo

(* A step that gives no block a new hash keeps the hashed blocks right.    *)
LEMMA HashedKept ==
  ASSUME HashedBlocksWritten, UNCHANGED kv,
         \A b \in Blocks : chain'[b] # <<>> => chain'[b] = chain[b]
  PROVE  HashedBlocksWritten'
BY DEF HashedBlocksWritten

(* The blocks allocate counts as cached were found by their hash, so they  *)
(* hold the KV of the tokens the request has there.                        *)
LEMMA HashedCover ==
  ASSUME IInv', HashedBlocksWritten', NEW x \in Seqs, NEW c \in Nat,
         numCached'[x] = c * BlockSize
  PROVE  WrittenUpTo(x, numCached[x])'
<1> SUFFICES ASSUME NEW p \in 0 .. c * BlockSize - 1
             PROVE  Written(x, p)'
  BY DEF WrittenUpTo
<1> DEFINE q == tok'[x]
           k == p \div BlockSize
           o == p % BlockSize
           b == table'[x][k + 1]
<1>1. /\ TypeOK' /\ CachedBounds' /\ CachedPrefixCorrect'
      /\ BlockSize \in Nat \ {0}
  BY BlockSizeAssumption DEF IInv, Contents
<1>2. /\ q \in Seq(Tokens) /\ Len(q) \in Nat
      /\ table'[x] \in Seq(Blocks) /\ Len(table'[x]) \in Nat
      /\ c * BlockSize <= Len(q) /\ c * BlockSize <= BlockSize * Len(table'[x])
      /\ c * BlockSize \in Nat
  BY <1>1 DEF TypeOK, CachedBounds
<1>3. /\ p \in Nat /\ p < BlockSize * c /\ p < BlockSize * Len(table'[x])
  <2>1. BlockSize * Len(table'[x]) \in Nat /\ BlockSize * c = c * BlockSize
    BY <1>1, <1>2
  <2> QED
    BY <1>2, <2>1
<1>4. /\ k \in Nat /\ k < c /\ k < Len(table'[x]) /\ o \in Offsets
      /\ p = (k * BlockSize) + o /\ k * BlockSize \in Nat
  BY <1>1, <1>2, <1>3, DivBelow, PlaceParts DEF Offsets
<1>5. numCached'[x] \div BlockSize = c
  <2>1. c * BlockSize < c * BlockSize + BlockSize
    BY <1>1, <1>2
  <2> QED
    BY <1>1, <1>2, <2>1, DivUnique
<1> HIDE DEF k, o, q
<1>6. k + 1 \in 1 .. numCached'[x] \div BlockSize /\ k + 1 \in 1 .. Len(table'[x])
  BY <1>2, <1>4, <1>5
<1>7. b \in Blocks
  BY <1>2, <1>6
<1>8. chain'[b] = SubSeq(q, 1, (k + 1) * BlockSize)
  BY <1>1, <1>6 DEF CachedPrefixCorrect, Prefix, q
<1>9. /\ (k + 1) * BlockSize = (k * BlockSize) + BlockSize
      /\ (k + 1) * BlockSize \in Nat /\ (k + 1) * BlockSize <= Len(q)
  <2>1. (k + 1) * BlockSize = (k * BlockSize) + BlockSize
    BY <1>1, <1>4
  <2>2. k * BlockSize + BlockSize <= c * BlockSize
    BY <1>1, <1>4, MulStep
  <2> DEFINE kb == k * BlockSize
             kkb == (k + 1) * BlockSize
             cb == c * BlockSize
             l == Len(q)
  <2>3. kkb = kb + BlockSize /\ kb + BlockSize <= cb /\ cb <= l
        /\ kb \in Nat /\ cb \in Nat /\ l \in Nat /\ BlockSize \in Nat
    BY <1>1, <1>2, <1>4, <2>1, <2>2
  <2> HIDE DEF kb, kkb, cb, l
  <2>4. kkb = kb + BlockSize /\ kkb \in Nat /\ kkb <= l
    BY <2>3
  <2> QED
    BY <2>4 DEF kb, kkb, l
<1>10. Len(chain'[b]) = (k + 1) * BlockSize /\ chain'[b] # <<>>
  <2> DEFINE m == (k + 1) * BlockSize
  <2>1. m \in 0 .. Len(q) /\ m > 0
    BY <1>1, <1>2, <1>4, <1>9
  <2> HIDE DEF m
  <2>2. Len(SubSeq(q, 1, m)) = m
    BY <1>2, <2>1, SubSeqProperties
  <2> QED
    BY <1>8, <2>1, <2>2 DEF m
<1>11. kv'[b][o] = SubSeq(chain'[b], 1, Len(chain'[b]) - BlockSize + o + 1)
  BY <1>4, <1>7, <1>10 DEF HashedBlocksWritten
<1>12. Len(chain'[b]) - BlockSize + o + 1 = p + 1
  BY <1>1, <1>4, <1>9, <1>10 DEF Offsets
<1>13. SubSeq(chain'[b], 1, p + 1) = SubSeq(q, 1, p + 1)
  <2> DEFINE m == (k + 1) * BlockSize
  <2>1. m \in 0 .. Len(q) /\ p + 1 \in 0 .. m
    BY <1>1, <1>2, <1>4, <1>9 DEF Offsets
  <2> HIDE DEF m
  <2>2. SubSeq(SubSeq(q, 1, m), 1, p + 1) = SubSeq(q, 1, p + 1)
    BY <1>2, <2>1, PrefixOfPrefix
  <2> QED
    BY <1>8, <2>2 DEF m
<1>14. kv'[b][o] = SubSeq(q, 1, p + 1)
  BY <1>11, <1>12, <1>13
<1> QED
  BY <1>14 DEF Written, TableSlot, Prefixed, k, o, q

(* hash_blocks hashes only blocks whose positions are all written.         *)
LEMMA HashingWritten ==
  ASSUME IInv, HashedBlocksWritten, UNCHANGED kv,
         NEW s \in Seqs, NEW n \in Nat, HasRoom(s, n), HashBlocks(s, n),
         WrittenUpTo(s, numCached[s] + n)
  PROVE  HashedBlocksWritten'
<1> SUFFICES ASSUME NEW b \in Blocks, chain'[b] # <<>>, NEW o \in Offsets
             PROVE  kv[b][o]
                      = SubSeq(chain'[b], 1, Len(chain'[b]) - BlockSize + o + 1)
  BY DEF HashedBlocksWritten
<1>1. /\ TypeOK /\ CachedBounds /\ Accounting /\ Contents
      /\ BlockSize \in Nat \ {0}
  BY BlockSizeAssumption DEF IInv
<1>2. /\ \A i \in FilledBlocks(s, n) : chain'[table[s][i]] = Prefix(s, i)
      /\ (\A i \in FilledBlocks(s, n) : table[s][i] # b) => chain'[b] = chain[b]
  BY <1>1, HashEffect
<1>3. CASE \A i \in FilledBlocks(s, n) : table[s][i] # b
  BY <1>2, <1>3 DEF HashedBlocksWritten
<1>4. ASSUME NEW i \in FilledBlocks(s, n), table[s][i] = b
      PROVE  kv[b][o]
               = SubSeq(chain'[b], 1, Len(chain'[b]) - BlockSize + o + 1)
  <2> DEFINE q == tok[s]
             m == i * BlockSize
             hi == (numCached[s] + n) \div BlockSize
             p == ((i - 1) * BlockSize) + o
  <2>1. /\ numCached[s] \in Nat /\ numCached[s] + n \in Nat /\ hi \in Nat
        /\ numCached[s] \div BlockSize \in Nat
        /\ \A j \in 1 .. hi : j \in 1 .. Len(table[s]) /\ j * BlockSize <= Len(q)
        /\ q \in Seq(Tokens) /\ Len(q) \in Nat
    <3>1. /\ q \in Seq(Tokens) /\ Len(q) \in Nat
          /\ numCached[s] \in Nat /\ numCached[s] + n \in Nat
      BY <1>1 DEF TypeOK
    <3>2. /\ hi \in Nat /\ numCached[s] \div BlockSize \in Nat
          /\ \A j \in 1 .. hi :
               j \in 1 .. Len(table[s]) /\ j * BlockSize <= Len(q)
      BY <1>1, FilledFit
    <3> QED
      BY <3>1, <3>2
  <2>2. i \in 1 .. hi
    <3>1. i \in numCached[s] \div BlockSize + 1 .. hi
      BY DEF FilledBlocks
    <3> HIDE DEF hi
    <3> QED
      BY <2>1, <3>1
  <2>3. m <= Len(q) /\ i \in Nat \ {0} /\ i <= hi
    BY <2>1, <2>2
  <2>4. m <= numCached[s] + n
    BY <1>1, <2>1, <2>3, DivGreatest
  <2> HIDE DEF hi
  <2>5. /\ m = ((i - 1) * BlockSize) + BlockSize /\ (i - 1) * BlockSize \in Nat
        /\ m \in Nat /\ i - 1 \in Nat
    BY <1>1, <2>3
  <2>6. p \in Nat /\ p \div BlockSize = i - 1 /\ p % BlockSize = o
    BY <1>1, <2>5, PlaceBuilt DEF Offsets
  <2>7. p \in 0 .. (numCached[s] + n) - 1 /\ p + 1 \in 0 .. m /\ m \in 0 .. Len(q)
        /\ m > 0 /\ m - BlockSize + o + 1 = p + 1
    <3> DEFINE l == (i - 1) * BlockSize
               len == Len(q)
               all == numCached[s] + n
    <3>1. /\ m = l + BlockSize /\ l \in Nat /\ p = l + o /\ m <= len /\ m <= all
          /\ len \in Nat /\ all \in Nat
      BY <2>1, <2>3, <2>4, <2>5
    <3>2. o \in Nat /\ o < BlockSize
      BY <1>1 DEF Offsets
    <3> HIDE DEF m, p, l, len, all
    <3>3. p \in 0 .. all - 1 /\ p + 1 \in 0 .. m /\ m \in 0 .. len /\ m > 0
          /\ m - BlockSize + o + 1 = p + 1
      BY <1>1, <3>1, <3>2
    <3> QED
      BY <3>3 DEF len, all
  <2>8. Written(s, p)
    BY <2>7 DEF WrittenUpTo
  <2>9. (p \div BlockSize) + 1 = i
    BY <2>3, <2>6
  <2>10. kv[b][o] = SubSeq(q, 1, p + 1)
    BY <1>4, <2>6, <2>8, <2>9 DEF Written, TableSlot, Prefixed
  <2>11. chain'[b] = SubSeq(q, 1, m)
    BY <1>2, <1>4 DEF Prefix
  <2> HIDE DEF q, m, p
  <2>12. /\ Len(SubSeq(q, 1, m)) = m
         /\ SubSeq(SubSeq(q, 1, m), 1, p + 1) = SubSeq(q, 1, p + 1)
    BY <2>1, <2>7, SubSeqProperties, PrefixOfPrefix
  <2> QED
    BY <2>7, <2>10, <2>11, <2>12
<1> QED
  BY <1>3, <1>4

(***************************************************************************)
(* The steps of the scheduler                                              *)
(***************************************************************************)

(* Steps that leave the requests and the cache as they are.                *)
LEMMA QuietKV ==
  ASSUME IInv, KVInv, UNCHANGED kv, UNCHANGED <<tok, table, numCached>>,
         \A b \in Blocks : chain'[b] # <<>> => chain'[b] = chain[b],
         phase' # "postprocess"
  PROVE  KVInv'
<1>1. \A x \in Seqs : WrittenUpTo(x, numCached[x])'
  BY CachedKept DEF KVInv
<1> QED
  BY <1>1, HashedKept DEF KVInv, CachedWritten, ScheduledWritten

(* A new request has nothing cached.                                       *)
LEMMA AddRequestKV ==
  ASSUME IInv, KVInv, UNCHANGED kv, NEW s \in Seqs, NEW p \in Prompts,
         AddRequest(s, p)
  PROVE  KVInv'
<1>1. /\ phase' = "idle" /\ chain' = chain /\ table' = table
      /\ numCached' = numCached /\ tok[s] = <<>>
      /\ tok' = [tok EXCEPT ![s] = p]
  BY DEF AddRequest, NewSequence, blockVars
<1>2. TypeOK /\ CachedBounds
  BY DEF IInv
<1>3. ASSUME NEW x \in Seqs PROVE WrittenUpTo(x, numCached[x])'
  <2>1. CASE x # s
    <3>1. tok'[x] = tok[x]
      BY <1>1, <1>2, <2>1 DEF TypeOK
    <3> QED
      BY <1>1, <3>1, CachedKept DEF KVInv
  <2>2. CASE x = s
    <3>1. numCached[x] \in Nat /\ numCached[x] <= Len(tok[x])
      BY <1>2 DEF TypeOK, CachedBounds
    <3>2. Len(tok[x]) = 0
      BY <1>1, <2>2
    <3>3. numCached'[x] = 0
      BY <1>1, <3>1, <3>2
    <3> QED
      BY <3>3, NothingCached
  <2> QED
    BY <2>1, <2>2
<1> QED
  BY <1>1, <1>3, HashedKept DEF KVInv, CachedWritten, ScheduledWritten

(* A preempted request forgets what it had cached.                         *)
LEMMA PreemptKV ==
  ASSUME IInv, KVInv, UNCHANGED kv, PreemptLast
  PROVE  KVInv'
<1>1. PICK s : s = Last(running)
  OBVIOUS
<1>2. /\ phase' = "decode" /\ chain' = chain /\ tok' = tok
      /\ table' = [table EXCEPT ![s] = <<>>]
      /\ numCached' = [numCached EXCEPT ![s] = 0]
  BY <1>1 DEF PreemptLast, Preempt, Deallocate, DecodeMayTakeMore
<1>3. TypeOK
  BY DEF IInv
<1>4. ASSUME NEW x \in Seqs PROVE WrittenUpTo(x, numCached[x])'
  <2>1. CASE x # s
    <3>1. table'[x] = table[x] /\ numCached'[x] = numCached[x]
      BY <1>2, <1>3, <2>1 DEF TypeOK
    <3> QED
      BY <1>2, <3>1, CachedKept DEF KVInv
  <2>2. CASE x = s
    <3>1. numCached'[x] = 0
      BY <1>2, <1>3, <2>2 DEF TypeOK
    <3> QED
      BY <3>1, NothingCached
  <2> QED
    BY <2>1, <2>2
<1> QED
  BY <1>2, <1>4, HashedKept DEF KVInv, CachedWritten, ScheduledWritten

(* may_append adds a block at the end of the table.                        *)
LEMMA ScheduleDecodeKV ==
  ASSUME JInv, KVInv, UNCHANGED kv, ScheduleDecode
  PROVE  KVInv'
<1>1. PICK s : s = Head(running)
  OBVIOUS
<1>2. MayAppend(s) /\ phase' = "decode" /\ running # <<>> /\ CanAppend(s)
  BY <1>1 DEF ScheduleDecode, DecodeMayTakeMore
<1>3. IInv /\ TypeOK /\ running \in Seq(Seqs)
  BY DEF JInv, IInv, SInv, SchedTypeOK
<1>4. s \in Seqs
  BY <1>1, <1>2, <1>3, TailQueue
<1>5. CASE UNCHANGED vars
  BY <1>2, <1>3, <1>5, QuietKV DEF vars
<1>6. CASE num_blocks(s) > Len(table[s])
  <2>1. /\ table' = [table EXCEPT ![s] = Append(table[s], Head(free))]
        /\ UNCHANGED <<tok, numCached>>
        /\ chain' = ChainWithout({Head(free)}) /\ free # <<>>
    BY <1>2, <1>6 DEF MayAppend, CanAppend
  <2>2. \A b \in Blocks : chain'[b] # <<>> => chain'[b] = chain[b]
    BY <2>1 DEF ChainWithout
  <2>3. Head(free) \in Blocks /\ table[s] \in Seq(Blocks)
    BY <1>3, <1>4, <2>1 DEF TypeOK
  <2>4. \A i \in 1 .. Len(table[s]) :
           Append(table[s], Head(free))[i] = table[s][i]
    BY <2>3, AppendProperties
  <2>5. ASSUME NEW x \in Seqs
        PROVE  \A i \in 1 .. Len(table[x]) : table'[x][i] = table[x][i]
    BY <1>3, <2>1, <2>4 DEF TypeOK
  <2>6. \A x \in Seqs : WrittenUpTo(x, numCached[x])'
    BY <1>3, <2>1, <2>5, CachedKept DEF KVInv
  <2> QED
    BY <1>2, <2>2, <2>6, HashedKept DEF KVInv, CachedWritten, ScheduledWritten
<1> QED
  BY <1>2, <1>5, <1>6 DEF MayAppend

(* allocate shares only hashed blocks, and takes the hash of those it      *)
(* gives out anew.                                                         *)
LEMMA PrefillAdmitKV ==
  ASSUME JInv, KVInv, UNCHANGED kv, PrefillAdmit, IInv'
  PROVE  KVInv'
<1>1. PICK s : s = Head(waiting)
  OBVIOUS
<1>2. PICK c \in 0 .. num_blocks(s) - 1 :
        Allocate(s, c) /\ ScheduleChunk(s, c * BlockSize)
  BY <1>1 DEF PrefillAdmit
<1>3. PrefillMayTakeMore
  BY DEF PrefillAdmit
<1>4. s \in Seqs /\ IInv /\ TypeOK
  BY <1>1, <1>3, NextWaiting DEF JInv, IInv
<1>5. PICK hits, fresh :
        /\ chain' = ChainWithout(Range(fresh))
        /\ table' = [table EXCEPT ![s] = hits \o fresh]
        /\ numCached' = [numCached EXCEPT ![s] = c * BlockSize]
        /\ UNCHANGED <<tok, numPrompt>>
  BY <1>2 DEF Allocate
<1>6. phase' = "prefill"
  BY <1>2, <1>3 DEF ScheduleChunk, PrefillMayTakeMore
<1>7. HashedBlocksWritten'
  BY <1>5, HashedKept DEF ChainWithout, KVInv
<1>8. ASSUME NEW x \in Seqs PROVE WrittenUpTo(x, numCached[x])'
  <2>1. CASE x # s
    <3>1. table'[x] = table[x] /\ numCached'[x] = numCached[x]
      BY <1>4, <1>5, <2>1 DEF TypeOK
    <3> QED
      BY <1>4, <1>5, <3>1, CachedKept DEF KVInv
  <2>2. CASE x = s
    <3>1. numCached'[x] = c * BlockSize
      BY <1>4, <1>5, <2>2 DEF TypeOK
    <3>2. c \in Nat
      BY <1>4, RequestSizes DEF JInv, SInv
    <3> QED
      BY <1>7, <3>1, <3>2, HashedCover
  <2> QED
    BY <2>1, <2>2
<1> QED
  BY <1>6, <1>7, <1>8 DEF KVInv, CachedWritten, ScheduledWritten

(* postprocess hashes and counts as cached what the model has just         *)
(* written, for the head of the batch; the rest of the batch waits its     *)
(* turn.                                                                   *)
LEMMA PostprocessKV ==
  ASSUME JInv, KVInv, UNCHANGED kv, phase = "postprocess", batch # <<>>,
         NEW s, s = Head(batch), Postprocessed(s),
         HashBlocks(s, numScheduled[s]),
         \/ /\ numCached' = [numCached EXCEPT ![s] = @ + numScheduled[s]]
            /\ table' = table
         \/ /\ numCached' = [numCached EXCEPT ![s] = 0]
            /\ table' = [table EXCEPT ![s] = <<>>],
         tok' = tok \/ \E t \in Tokens : tok' = [tok EXCEPT ![s] = Append(@, t)]
  PROVE  KVInv'
<1> DEFINE n == numScheduled[s]
<1>1. /\ IInv /\ TypeOK /\ SInv /\ CachedBounds
      /\ numScheduled \in [Seqs -> Nat] /\ batch \in Seq(Seqs)
  BY DEF JInv, IInv, SInv, SchedTypeOK
<1>2. /\ s \in Seqs /\ s \in Range(batch) /\ n \in Nat /\ HasRoom(s, n)
      /\ Range(Tail(batch)) = Range(batch) \ {s} /\ Range(batch) \subseteq Seqs
  <2>1. /\ s \in Seqs /\ s \in Range(batch) /\ n \in 1 .. Len(tok[s])
        /\ HasRoom(s, n) /\ Range(Tail(batch)) = Range(batch) \ {s}
        /\ Len(tok[s]) \in Nat
    BY <1>1, Computed
  <2> QED
    BY <1>1, <2>1, RangeOfSeq
<1>3. WrittenUpTo(s, numCached[s] + n)
  BY <1>2 DEF KVInv, ScheduledWritten
<1>4. HashedBlocksWritten'
  BY <1>1, <1>2, <1>3, HashingWritten DEF KVInv
<1>5. /\ batch' = Tail(batch)
      /\ \A x \in Seqs : x # s => /\ numScheduled'[x] = numScheduled[x]
                                  /\ numCached'[x] = numCached[x]
                                  /\ table'[x] = table[x] /\ tok'[x] = tok[x]
  BY <1>1, <1>2 DEF Postprocessed, TypeOK
<1>6. tok'[s] = tok[s] \/ \E t \in Tokens : tok'[s] = Append(tok[s], t)
  BY <1>1, <1>2 DEF TypeOK
<1>7. WrittenUpTo(s, numCached[s])'
  <2>1. CASE /\ numCached' = [numCached EXCEPT ![s] = @ + numScheduled[s]]
             /\ table' = table
    <3>1. numCached'[s] = numCached[s] + n
      BY <1>1, <1>2, <2>1 DEF TypeOK
    <3>2. /\ numCached[s] + n \in Nat /\ numCached[s] + n <= Len(tok[s])
          /\ numCached[s] + n <= BlockSize * Len(table[s])
      <4>1. numCached[s] \in Nat
        BY <1>1, <1>2 DEF TypeOK
      <4>2. /\ numCached[s] + n <= Len(tok[s])
            /\ numCached[s] + n <= BlockSize * Len(table[s])
        BY <1>2 DEF HasRoom
      <4> QED
        BY <1>2, <4>1, <4>2
    <3>3. \A p \in 0 .. (numCached[s] + n) - 1 : Written(s, p)'
      BY <1>1, <1>2, <1>3, <1>6, <2>1, <3>2, GrowKeepsWritten
    <3> QED
      BY <3>1, <3>3 DEF WrittenUpTo
  <2>2. CASE numCached' = [numCached EXCEPT ![s] = 0]
    <3>1. numCached'[s] = 0
      BY <1>1, <1>2, <2>2 DEF TypeOK
    <3> QED
      BY <3>1, NothingCached
  <2> QED
    BY <2>1, <2>2
<1>8. \A x \in Seqs : x # s => WrittenUpTo(x, numCached[x])'
  BY <1>1, <1>5, CachedKept DEF KVInv
<1>9. CachedWritten'
  BY <1>7, <1>8 DEF CachedWritten
<1>10. ASSUME NEW x \in Range(batch')
       PROVE  WrittenUpTo(x, numCached[x] + numScheduled[x])'
  <2>1. x \in Range(batch) /\ x # s /\ x \in Seqs
    BY <1>2, <1>5
  <2> DEFINE m == numCached[x] + numScheduled[x]
  <2>2. /\ m \in Nat /\ m <= Len(tok[x]) /\ m <= BlockSize * Len(table[x])
    <3>1. /\ numCached[x] \in Nat /\ numScheduled[x] \in Nat
          /\ numCached[x] + numScheduled[x] <= Len(tok[x])
          /\ Len(tok[x]) <= BlockSize * Len(table[x])
          /\ Len(tok[x]) \in Nat /\ Len(table[x]) \in Nat
      BY <2>1, BatchSizes
    <3>2. BlockSize * Len(table[x]) \in Nat
      BY <3>1, BlockSizeAssumption
    <3> QED
      BY <3>1, <3>2
  <2>3. WrittenUpTo(x, m)
    BY <2>1 DEF KVInv, ScheduledWritten
  <2>4. \A p \in 0 .. m - 1 : Written(x, p)'
    <3> HIDE DEF m
    <3> QED
      BY <1>1, <1>5, <2>1, <2>2, <2>3, GrowKeepsWritten
  <2>5. numCached'[x] + numScheduled'[x] = m
    BY <1>5, <2>1
  <2> QED
    BY <2>4, <2>5 DEF WrittenUpTo
<1>11. ScheduledWritten'
  BY <1>10 DEF ScheduledWritten
<1> QED
  BY <1>4, <1>9, <1>11 DEF KVInv

(* Every step of the scheduler while the model does not run.               *)
LEMMA SchedulerKV ==
  ASSUME JInv, KVInv, UNCHANGED kv, IInv',
         SchedNext, phase # "dispatch"
  PROVE  KVInv'
<1>1. IInv
  BY DEF JInv
<1>2. ASSUME NEW s \in Seqs, NEW p \in Prompts, AddRequest(s, p)
      PROVE  KVInv'
  BY <1>1, <1>2, AddRequestKV
<1>3. CASE StartStep
  BY <1>1, <1>3, QuietKV DEF StartStep, vars
<1>4. CASE PreemptLast
  BY <1>1, <1>4, PreemptKV
<1>5. CASE ScheduleDecode
  BY <1>5, ScheduleDecodeKV
<1>6. CASE DecodeDone
  BY <1>1, <1>6, QuietKV DEF DecodeDone, vars
<1>7. CASE PrefillReject
  <2>1. /\ UNCHANGED <<chain, tok, table, numCached>>
        /\ phase' = phase /\ phase = "prefill"
    BY <1>7 DEF PrefillReject, RejectedLookup, seqVars, PrefillMayTakeMore
  <2> QED
    BY <1>1, <2>1, QuietKV
<1>8. CASE PrefillAdmit
  BY <1>8, PrefillAdmitKV
<1>9. CASE PrefillContinue
  <2>1. UNCHANGED vars /\ phase' = phase /\ phase = "prefill"
    BY <1>9 DEF PrefillContinue, ScheduleChunk, PrefillMayTakeMore
  <2> QED
    BY <1>1, <2>1, QuietKV DEF vars
<1>10. CASE PrefillDone
  BY <1>1, <1>10, QuietKV DEF PrefillDone, vars
<1>11. CASE Dispatch
  BY <1>11 DEF Dispatch
<1>12. CASE PostprocessChunk
  <2>1. PICK s : s = Head(batch)
    OBVIOUS
  <2>2. /\ phase = "postprocess" /\ batch # <<>> /\ Postprocessed(s)
        /\ HashBlocks(s, numScheduled[s])
        /\ numCached' = [numCached EXCEPT ![s] = @ + numScheduled[s]]
        /\ table' = table /\ tok' = tok
    BY <1>12, <2>1 DEF PostprocessChunk, ComputeChunk
  <2> QED
    BY <2>1, <2>2, PostprocessKV
<1>13. ASSUME NEW t \in Tokens, PostprocessToken(t)
       PROVE  KVInv'
  <2>1. PICK s : s = Head(batch)
    OBVIOUS
  <2>2. /\ phase = "postprocess" /\ batch # <<>> /\ Postprocessed(s)
        /\ HashBlocks(s, numScheduled[s])
        /\ numCached' = [numCached EXCEPT ![s] = @ + numScheduled[s]]
        /\ table' = table /\ tok' = [tok EXCEPT ![s] = Append(@, t)]
    BY <1>13, <2>1 DEF PostprocessToken, ComputeToken
  <2> QED
    BY <2>1, <2>2, PostprocessKV
<1>14. ASSUME NEW t \in Tokens, PostprocessLast(t)
       PROVE  KVInv'
  <2>1. PICK s : s = Head(batch)
    OBVIOUS
  <2>2. /\ phase = "postprocess" /\ batch # <<>> /\ Postprocessed(s)
        /\ HashBlocks(s, numScheduled[s])
        /\ numCached' = [numCached EXCEPT ![s] = 0]
        /\ table' = [table EXCEPT ![s] = <<>>]
        /\ tok' = [tok EXCEPT ![s] = Append(@, t)]
    BY <1>14, <2>1 DEF PostprocessLast, ComputeLast, Deallocate
  <2> QED
    BY <2>1, <2>2, PostprocessKV
<1>15. CASE EndStep
  BY <1>1, <1>15, QuietKV DEF EndStep, vars
<1> QED
  BY <1>2, <1>3, <1>4, <1>5, <1>6, <1>7, <1>8, <1>9, <1>10, <1>11, <1>12,
     <1>13, <1>14, <1>15 DEF SchedNext, Step

(***************************************************************************)
(* The specification                                                       *)
(***************************************************************************)

(* The part of the invariant that does not speak of the KV cache.          *)
RunnerInv == JInv /\ DecodesSingly /\ TablesExact

(* It holds at the start                                                   *)
LEMMA InitRunnerInv ==
  ASSUME SchedInit
  PROVE  RunnerInv
<1>1. JInv
  BY InitJInv
<1>2. DecodesSingly
  BY DEF SchedInit, DecodesSingly, Range
<1>3. TablesExact
  <2>1. \A s \in Seqs : Len(table[s]) = 0 /\ tok[s] = <<>>
    BY DEF SchedInit, Init
  <2>2. \A s \in Seqs : Len(tok[s]) \in Nat
    BY <2>1
  <2>3. \A s \in Seqs : num_blocks(s) \in Nat
    BY <2>2, BlocksForBounds DEF num_blocks
  <2> QED
    BY <2>1, <2>3 DEF TablesExact
<1> QED
  BY <1>1, <1>2, <1>3 DEF RunnerInv

(* and every step of the scheduler keeps it.                               *)
LEMMA NextRunnerInv ==
  ASSUME DigestSound
  PROVE  RunnerInv /\ [SchedNext]_schedVars => RunnerInv'
<1> SUFFICES ASSUME RunnerInv, [SchedNext]_schedVars
             PROVE  RunnerInv'
  OBVIOUS
<1>1. JInv' /\ [Next]_vars
  BY NextJInv DEF RunnerInv
<1>2. DecodesSingly'
  BY DecodesSinglyStep DEF RunnerInv
<1>3. TablesExact'
  BY <1>1, TablesExactStep DEF RunnerInv, JInv
<1> QED
  BY <1>1, <1>2, <1>3 DEF RunnerInv

(* Running the model is, for the scheduler, the end of a batch and nothing *)
(* else.                                                                   *)
LEMMA RunnerNextIsSched == [RunnerNext]_runnerVars => [SchedNext]_schedVars
BY DEF RunnerNext, runnerVars, SchedNext, Step

(* So it always holds.                                                     *)
LEMMA RunnerInvariance == ASSUME DigestSound PROVE SchedSpec => []RunnerInv
BY InitRunnerInv, NextRunnerInv, PTL DEF SchedSpec

(* An empty cache is right.                                                *)
LEMMA InitKVInv ==
  ASSUME RunnerInit
  PROVE  KVInv
<1>1. SchedInit /\ Init
  BY DEF RunnerInit, SchedInit
<1>2. HashedBlocksWritten
  BY <1>1 DEF Init, HashedBlocksWritten
<1>3. CachedWritten
  BY <1>1 DEF Init, CachedWritten, WrittenUpTo
<1>4. ScheduledWritten
  BY <1>1 DEF SchedInit, ScheduledWritten
<1> QED
  BY <1>2, <1>3, <1>4 DEF KVInv

(* Every step keeps the KV cache right.                                    *)
LEMMA NextKVInv ==
  ASSUME DigestSound, ~Reserve
  PROVE  RunnerInv /\ KVInv /\ [RunnerNext]_runnerVars => KVInv'
<1> SUFFICES ASSUME RunnerInv, KVInv, [RunnerNext]_runnerVars
             PROVE  KVInv'
  OBVIOUS
<1>1. JInv /\ IInv /\ TablesExact /\ DecodesSingly
  BY DEF RunnerInv, JInv
<1>2. IInv'
  <2>1. [SchedNext]_schedVars
    BY RunnerNextIsSched
  <2> QED
    BY <1>1, <2>1, NextJInv DEF JInv
<1>3. CASE Dispatch /\ RunModel
  BY <1>1, <1>3, RunModelKV
<1>4. CASE phase # "dispatch" /\ SchedNext /\ UNCHANGED kv
  BY <1>1, <1>2, <1>4, SchedulerKV
<1>5. CASE UNCHANGED runnerVars
  BY <1>5 DEF runnerVars, schedVars, vars, KVInv, HashedBlocksWritten,
              CachedWritten, ScheduledWritten, WrittenUpTo, Written, TableSlot,
              Prefixed
<1> QED
  BY <1>3, <1>4, <1>5 DEF RunnerNext

(* So it always is.                                                        *)
LEMMA RunnerKV ==
  ASSUME DigestSound, ~Reserve
  PROVE  RunnerSpec => [](RunnerInv /\ KVInv)
<1>1. RunnerInit => RunnerInv
  BY InitRunnerInv DEF RunnerInit
<1>2. RunnerInv /\ [RunnerNext]_runnerVars => RunnerInv'
  BY NextRunnerInv, RunnerNextIsSched
<1>3. RunnerInv /\ KVInv /\ [RunnerNext]_runnerVars => KVInv'
  BY NextKVInv
<1> QED
  BY <1>1, <1>2, <1>3, InitKVInv, PTL DEF RunnerSpec

(* Prefix caching is sound (ModelRunner.HashedBlocksWritten): every block  *)
(* the prefix cache offers holds the KV of exactly the tokens its hash     *)
(* chain stands for, at every moment, whatever is preempted, evicted,      *)
(* shared or chunked. With reserve_decode_kv it is false, as the run       *)
(* model_runner_reserve shows.                                             *)
THEOREM HashedBlocksWrittenHolds ==
  ASSUME DigestSound, ~Reserve
  PROVE  RunnerSpec => []HashedBlocksWritten
<1>1. KVInv => HashedBlocksWritten
  BY DEF KVInv
<1> QED
  BY <1>1, RunnerKV, PTL

(* What attention reads for a request of the batch is what is scheduled    *)
(* and what is cached.                                                     *)
LEMMA ReadsFromInv ==
  ASSUME JInv, KVInv
  PROVE  ReadsWritten
<1> SUFFICES ASSUME phase = "postprocess", NEW s \in Range(batch),
                    NEW p \in ReadPositions(s)
             PROVE  Written(s, p)
  BY DEF ReadsWritten, Written
<1>1. WrittenUpTo(s, numCached[s] + numScheduled[s])
  BY DEF KVInv, ScheduledWritten
<1>2. ReadPositions(s) = 0 .. (numCached[s] + numScheduled[s]) - 1
  BY BatchSizes DEF ReadPositions
<1> QED
  BY <1>1, <1>2 DEF WrittenUpTo

(* And attention reads only that (ModelRunner.ReadsWritten): every         *)
(* position attention reads for a request holds the KV of that request's   *)
(* own tokens up to it, written by this batch or before.                   *)
THEOREM ReadsWrittenHolds ==
  ASSUME DigestSound, ~Reserve
  PROVE  RunnerSpec => []ReadsWritten
<1>1. RunnerInv /\ KVInv => ReadsWritten
  BY ReadsFromInv DEF RunnerInv
<1> QED
  BY <1>1, RunnerKV, PTL
=============================================================================
