---------------------------- MODULE BlockManager ----------------------------
(***************************************************************************)
(* The paged KV cache of nanovllm/engine/block_manager.py: reference       *)
(* counted blocks, the free deque that is also the eviction order, and the *)
(* prefix cache (a map from the chained hash of a block-aligned prefix to  *)
(* a block).                                                               *)
(*                                                                         *)
(* A client (the scheduler) calls the operations in any order the          *)
(* sequences' own state allows; module Scheduler shows that the real       *)
(* client stays within that.                                               *)
(*                                                                         *)
(* Abstractions.  Block.hash and Block.token_ids are one value, chain[b]:  *)
(* the whole prefix the block was hashed for, <<>> when hash = -1.  The    *)
(* stored hash is Digest(chain[b]) and the stored token_ids are its last   *)
(* BlockSize tokens.  The loops over a table are in closed form.  The      *)
(* metrics counters are left out.                                          *)
(***************************************************************************)
EXTENDS Deque, Integers

CONSTANTS
  Seqs,        \* identities of the sequences (requests)
  Tokens,      \* the vocabulary
  Prompts,     \* the prompts a request may have
  BlockSize,   \* tokens per KV block
  NumBlocks,   \* blocks in the cache
  MaxTokens,   \* SamplingParams.max_tokens
  Policy,      \* prefix_cache_policy
  Reserve,     \* reserve_decode_kv
  Digest(_)    \* the chained xxh64 of a block-aligned prefix

ASSUME SeqsAssumption == IsFiniteSet(Seqs)
ASSUME BlockSizeAssumption == BlockSize \in Nat \ {0}
ASSUME NumBlocksAssumption == NumBlocks \in Nat
ASSUME MaxTokensAssumption == MaxTokens \in Nat \ {0}
ASSUME PolicyAssumption == Policy \in {"lru", "fifo"}
ASSUME ReserveAssumption == Reserve \in BOOLEAN
ASSUME PromptsAssumption == Prompts \subseteq (Seq(Tokens) \ {<<>>})

VARIABLES
  refCount,    \* Block.ref_count
  chain,       \* Block.hash and Block.token_ids
  hashToBlock, \* hash_to_block_id
  free,        \* free_block_ids, the next victim first
  used,        \* used_block_ids
  tok,         \* Sequence.token_ids, <<>> before the request exists
  numPrompt,   \* Sequence.num_prompt_tokens
  table,       \* Sequence.block_table
  numCached    \* Sequence.num_cached_tokens

blockVars == <<refCount, chain, hashToBlock, free, used>>
seqVars == <<tok, numPrompt, table, numCached>>
vars == <<refCount, chain, hashToBlock, free, used,
          tok, numPrompt, table, numCached>>

Blocks == 0 .. NumBlocks - 1

-----------------------------------------------------------------------------
(* Sequence: sizes and slices.                                             *)

BlocksFor(n) == (n + BlockSize - 1) \div BlockSize

num_blocks(s) == BlocksFor(Len(tok[s]))

max_num_blocks(s) == BlocksFor(numPrompt[s] + MaxTokens)

num_completion_tokens(s) == Len(tok[s]) - numPrompt[s]

(* The tokens of the first i blocks, and (as Block.token_ids keeps them)   *)
(* the last block of a prefix.                                             *)
Prefix(s, i) == SubSeq(tok[s], 1, i * BlockSize)

LastBlock(p) ==
  IF p = <<>> THEN <<>> ELSE SubSeq(p, Len(p) - BlockSize + 1, Len(p))

(* The hash function is as good as its use needs: two prefixes with the    *)
(* same chained hash and the same last block are the same prefix.          *)
DigestSoundOn(P) ==
  \A p, q \in P : Digest(p) = Digest(q) /\ LastBlock(p) = LastBlock(q) => p = q

-----------------------------------------------------------------------------
(* Looking a prefix up.                                                    *)

(* Slip: the token_ids of the block found are not compared.                *)
HitByHashAlone(s, i) == Digest(Prefix(s, i)) \in DOMAIN hashToBlock

(* Iteration i - 1 of can_allocate's loop finds the block and its tokens   *)
(* are the ones asked for.                                                 *)
Hit(s, i) ==
  LET h == Digest(Prefix(s, i))
  IN  /\ h \in DOMAIN hashToBlock
      /\ LastBlock(chain[hashToBlock[h]]) = LastBlock(Prefix(s, i))

(* can_allocate's loop counts c hits: it stops at the first miss, and the  *)
(* last block is never looked up.                                          *)
CachedBlocks(s, c) ==
  /\ c \in 0 .. num_blocks(s) - 1
  /\ \A i \in 1 .. c : Hit(s, i)
  /\ c + 1 < num_blocks(s) => ~Hit(s, c + 1)

HitBlocks(s, c) == [i \in 1 .. c |-> hashToBlock[Digest(Prefix(s, i))]]

(* Slip: the touched blocks are appended and not removed first.            *)
TouchedTwice(s, c) == free \o Keep(HitBlocks(s, c), Range(free))

(* An "lru" lookup moves every free block it hits to the back.             *)
Touched(s, c) ==
  IF Policy = "lru"
  THEN Without(free, Range(HitBlocks(s, c)))
         \o Keep(HitBlocks(s, c), Range(free))
  ELSE free

(* Slip: the blocks of the tokens to come are not asked for.               *)
TargetWithoutReserve(s) == num_blocks(s)

allocation_target(s) == IF Reserve THEN max_num_blocks(s) ELSE num_blocks(s)

(* Slip: a hit on a free block is taken for one that costs nothing.        *)
NewBlocksBeyondHits(s, c) == allocation_target(s) - c

num_new_blocks(s, c) ==
  allocation_target(s)
    - Cardinality({i \in 1 .. c : HitBlocks(s, c)[i] \in used})

CanAllocate(s, c) == Len(free) >= num_new_blocks(s, c)

CanAppend(s) == num_blocks(s) > Len(table[s]) => free # <<>>

-----------------------------------------------------------------------------
(* The effect of each operation on the blocks and the sequence.            *)

(* Slip: an evicted block keeps its entry in the map.                      *)
MapUnchanged(B) == hashToBlock

(* hash_to_block_id once the blocks B have been taken for new contents: a  *)
(* block that the map still names loses its entry.                         *)
MapWithout(B) ==
  Restrict(hashToBlock,
           {h \in DOMAIN hashToBlock :
              ~ /\ hashToBlock[h] \in B
                /\ chain[hashToBlock[h]] # <<>>
                /\ Digest(chain[hashToBlock[h]]) = h})

(* Slip: a block taken for new contents keeps its hash.                    *)
ChainUnchanged(B) == chain

(* Block.reset of the blocks B.                                            *)
ChainWithout(B) == [b \in Blocks |-> IF b \in B THEN <<>> ELSE chain[b]]

(* Slip: a hit on a block in use does not count.                           *)
SharingUncounted(hits, fresh) ==
  [b \in Blocks |-> IF b \in hits \cup fresh THEN 1 ELSE refCount[b]]

(* The reference counts with the blocks hits shared and fresh taken.       *)
CountWith(hits, fresh) ==
  [b \in Blocks |->
     IF b \in hits \cap used THEN refCount[b] + 1
     ELSE IF b \in hits \cup fresh THEN 1
     ELSE refCount[b]]

(* can_allocate that answers -1: only the "lru" order changes.             *)
RejectedLookup(s, c) ==
  /\ free' = Touched(s, c)
  /\ UNCHANGED <<refCount, chain, hashToBlock, used>>
  /\ UNCHANGED seqVars

(* can_allocate that answers c, then allocate: share the c hit blocks,     *)
(* then take the others from the front of what is left of the free deque.  *)
Allocate(s, c) ==
  \E hits \in {HitBlocks(s, c)} :
  \E rest \in {Without(Touched(s, c), Range(hits))} :
    LET need  == allocation_target(s) - c
        fresh == SubSeq(rest, 1, need)
    IN  /\ refCount' = CountWith(Range(hits), Range(fresh))
        /\ chain' = ChainWithout(Range(fresh))
        /\ hashToBlock' = MapWithout(Range(fresh))
        /\ free' = SubSeq(rest, need + 1, Len(rest))
        /\ used' = used \cup Range(hits) \cup Range(fresh)
        /\ table' = [table EXCEPT ![s] = hits \o fresh]
        /\ numCached' = [numCached EXCEPT ![s] = c * BlockSize]
        /\ UNCHANGED <<tok, numPrompt>>

(* Slip: the block is asked for one token too late.                        *)
MayAppendLate(s) == UNCHANGED vars

(* may_append: one more block when the tokens have outgrown the table.     *)
MayAppend(s) ==
  IF num_blocks(s) > Len(table[s])
  THEN LET b == Head(free)
       IN  /\ refCount' = CountWith({}, {b})
           /\ chain' = ChainWithout({b})
           /\ hashToBlock' = MapWithout({b})
           /\ free' = Tail(free)
           /\ used' = used \cup {b}
           /\ table' = [table EXCEPT ![s] = Append(@, b)]
           /\ UNCHANGED <<tok, numPrompt, numCached>>
  ELSE UNCHANGED vars

(* Slip: every block of the table is freed, shared or not.                 *)
FreedAll(s) == Range(table[s])

(* The blocks that nobody else holds.                                      *)
FreedBlocks(s) == {b \in Range(table[s]) : refCount[b] = 1}

(* Slip: the table is not cleared.                                         *)
DeallocateKeepsTable(s) ==
  LET freed == FreedBlocks(s)
  IN  /\ refCount' = [b \in Blocks |->
                        IF b \in Range(table[s]) THEN refCount[b] - 1
                        ELSE refCount[b]]
      /\ used' = used \ freed
      /\ free' = free \o Keep(Reverse(table[s]), freed)
      /\ numCached' = [numCached EXCEPT ![s] = 0]
      /\ UNCHANGED table

(* Slip: the tokens still count as cached.                                 *)
DeallocateKeepsCached(s) ==
  LET freed == FreedBlocks(s)
  IN  /\ refCount' = [b \in Blocks |->
                        IF b \in Range(table[s]) THEN refCount[b] - 1
                        ELSE refCount[b]]
      /\ used' = used \ freed
      /\ free' = free \o Keep(Reverse(table[s]), freed)
      /\ table' = [table EXCEPT ![s] = <<>>]
      /\ UNCHANGED numCached

(* Every reference of the table is given up; a block that nobody else      *)
(* holds goes to the back of the free deque, the last block of the table   *)
(* first.  Its chain stays: it can still be found.                         *)
Deallocate(s) ==
  LET freed == FreedBlocks(s)
  IN  /\ refCount' = [b \in Blocks |->
                        IF b \in Range(table[s]) THEN refCount[b] - 1
                        ELSE refCount[b]]
      /\ used' = used \ freed
      /\ free' = free \o Keep(Reverse(table[s]), freed)
      /\ table' = [table EXCEPT ![s] = <<>>]
      /\ numCached' = [numCached EXCEPT ![s] = 0]

(* hash_blocks after n tokens were computed: the blocks that became full.  *)
FilledBlocks(s, n) ==
  (numCached[s] \div BlockSize) + 1 .. (numCached[s] + n) \div BlockSize

(* Slip: the hash of a block computed later forgets the blocks before it.  *)
NewChainUnchained(s, i) ==
  SubSeq(tok[s], (numCached[s] \div BlockSize) * BlockSize + 1, i * BlockSize)

(* The chain of the i-th block, from the hash stored in the block before   *)
(* the first filled one.                                                   *)
NewChain(s, i) ==
  LET start == numCached[s] \div BlockSize
      base  == IF start > 0 THEN chain[table[s][start]] ELSE <<>>
  IN  base \o SubSeq(tok[s], start * BlockSize + 1, i * BlockSize)

HashBlocks(s, n) ==
  LET filled   == FilledBlocks(s, n)
      keys     == {Digest(NewChain(s, i)) : i \in filled}
      latest(h) == CHOOSE i \in filled :
                     /\ Digest(NewChain(s, i)) = h
                     /\ \A j \in filled : Digest(NewChain(s, j)) = h => j <= i
      at(b)     == CHOOSE i \in filled : table[s][i] = b
  IN  /\ chain' = [b \in Blocks |->
                     IF \E i \in filled : table[s][i] = b
                     THEN NewChain(s, at(b)) ELSE chain[b]]
      /\ hashToBlock' = [h \in DOMAIN hashToBlock \cup keys |->
                           IF h \in keys THEN table[s][latest(h)]
                           ELSE hashToBlock[h]]

(* A sequence whose n scheduled tokens were computed: no token is sampled  *)
(* (a chunk of the prompt), token t is sampled, or t is the last token and *)
(* the sequence gives up its blocks.                                       *)
ComputeChunk(s, n) ==
  /\ HashBlocks(s, n)
  /\ numCached' = [numCached EXCEPT ![s] = @ + n]
  /\ UNCHANGED <<refCount, free, used, tok, numPrompt, table>>

ComputeToken(s, n, t) ==
  /\ HashBlocks(s, n)
  /\ numCached' = [numCached EXCEPT ![s] = @ + n]
  /\ tok' = [tok EXCEPT ![s] = Append(@, t)]
  /\ UNCHANGED <<refCount, free, used, numPrompt, table>>

ComputeLast(s, n, t) ==
  /\ HashBlocks(s, n)
  /\ tok' = [tok EXCEPT ![s] = Append(@, t)]
  /\ Deallocate(s)
  /\ UNCHANGED numPrompt

(* Sequence.__init__                                                       *)
NewSequence(s, p) ==
  /\ tok' = [tok EXCEPT ![s] = p]
  /\ numPrompt' = [numPrompt EXCEPT ![s] = Len(p)]
  /\ UNCHANGED blockVars
  /\ UNCHANGED <<table, numCached>>

-----------------------------------------------------------------------------
(* What a client may do.  The guards are what the code asserts or indexes. *)

Init ==
  /\ refCount = [b \in Blocks |-> 0]
  /\ chain = [b \in Blocks |-> <<>>]
  /\ hashToBlock = [h \in {} |-> 0]
  /\ free = [i \in 1 .. NumBlocks |-> i - 1]
  /\ used = {}
  /\ tok = [s \in Seqs |-> <<>>]
  /\ numPrompt = [s \in Seqs |-> 0]
  /\ table = [s \in Seqs |-> <<>>]
  /\ numCached = [s \in Seqs |-> 0]

(* More tokens may be generated.                                           *)
Unfinished(s) == tok[s] # <<>> /\ num_completion_tokens(s) < MaxTokens

Create(s, p) == tok[s] = <<>> /\ NewSequence(s, p)

Admit(s) ==
  /\ Unfinished(s)
  /\ table[s] = <<>>
  /\ \E c \in 0 .. num_blocks(s) - 1 :
       CachedBlocks(s, c) /\ CanAllocate(s, c) /\ Allocate(s, c)

RejectAdmission(s) ==
  /\ Unfinished(s)
  /\ table[s] = <<>>
  /\ \E c \in 0 .. num_blocks(s) - 1 :
       CachedBlocks(s, c) /\ ~CanAllocate(s, c) /\ RejectedLookup(s, c)

Grow(s) ==
  /\ table[s] # <<>>
  /\ num_blocks(s) > Len(table[s])
  /\ CanAppend(s)
  /\ MayAppend(s)

(* The n tokens after the cached ones have blocks.                         *)
HasRoom(s, n) ==
  /\ numCached[s] + n <= Len(tok[s])
  /\ numCached[s] + n <= BlockSize * Len(table[s])

ComputePart(s, n) ==
  /\ Unfinished(s)
  /\ HasRoom(s, n)
  /\ numCached[s] + n < Len(tok[s])
  /\ ComputeChunk(s, n)

ComputeAll(s, n, t) ==
  /\ Unfinished(s)
  /\ HasRoom(s, n)
  /\ numCached[s] + n = Len(tok[s])
  /\ num_completion_tokens(s) + 1 < MaxTokens
  /\ ComputeToken(s, n, t)

ComputeFinal(s, n, t) ==
  /\ Unfinished(s)
  /\ HasRoom(s, n)
  /\ numCached[s] + n = Len(tok[s])
  /\ ComputeLast(s, n, t)

Release(s) ==
  /\ table[s] # <<>>
  /\ Deallocate(s)
  /\ UNCHANGED <<chain, hashToBlock, tok, numPrompt>>

Next ==
  \E s \in Seqs :
    \/ \E p \in Prompts : Create(s, p)
    \/ Admit(s)
    \/ RejectAdmission(s)
    \/ Grow(s)
    \/ \E n \in 1 .. Len(tok[s]) :
         \/ ComputePart(s, n)
         \/ \E t \in Tokens : ComputeAll(s, n, t) \/ ComputeFinal(s, n, t)
    \/ Release(s)

Spec == Init /\ [][Next]_vars

-----------------------------------------------------------------------------
(* Properties.                                                             *)

Holders(b) == {s \in Seqs : b \in Range(table[s])}

(* Every variable has its type: no count goes below zero, and deque, map   *)
(* and tables name blocks only.                                            *)
TypeOK ==
  /\ refCount \in [Blocks -> Nat]
  /\ chain \in [Blocks -> Seq(Tokens)]
  /\ hashToBlock \in [DOMAIN hashToBlock -> Blocks]
  /\ free \in Seq(Blocks)
  /\ used \in SUBSET Blocks
  /\ tok \in [Seqs -> Seq(Tokens)]
  /\ numPrompt \in [Seqs -> Nat]
  /\ table \in [Seqs -> Seq(Blocks)]
  /\ numCached \in [Seqs -> Nat]

(* Every block is either in the free deque, exactly once, or in            *)
(* used_block_ids: no interleaving of admissions, evictions and releases   *)
(* loses a block or frees it twice.                                        *)
FreeExact == IsInjective(free) /\ Range(free) = Blocks \ used

(* A block's ref_count is the number of block tables it is in, and the     *)
(* used blocks are the ones with a holder: _allocate_block's and           *)
(* _deallocate_block's assertions on ref_count cannot fail.                *)
RefExact ==
  /\ \A s \in Seqs : IsInjective(table[s])
  /\ \A b \in Blocks : refCount[b] = Cardinality(Holders(b))
  /\ used = {b \in Blocks : refCount[b] > 0}

(* An entry of hash_to_block_id names a block that still carries that      *)
(* hash: eviction and re-hashing never leave a dangling entry.             *)
MapSound ==
  \A h \in DOMAIN hashToBlock :
    /\ chain[hashToBlock[h]] # <<>>
    /\ Digest(chain[hashToBlock[h]]) = h

(* A sequence never counts more tokens as cached than it has, or than its  *)
(* table has slots for, whatever of it was shared, evicted, released and   *)
(* found again (num_cached_tokens, which every slice of the tokens and     *)
(* every slot of a chunk starts from).                                     *)
CachedBounds ==
  \A s \in Seqs :
    /\ numCached[s] <= Len(tok[s])
    /\ numCached[s] <= BlockSize * Len(table[s])

(* The blocks a sequence counts as cached were computed for exactly its    *)
(* own tokens, whoever computed them and whatever was evicted or           *)
(* recomputed since.                                                       *)
CachedPrefixCorrect ==
  \A s \in Seqs : \A i \in 1 .. numCached[s] \div BlockSize :
    chain[table[s][i]] = Prefix(s, i)

(* The block a sequence is going to write its next token into, and those   *)
(* after it, are its own and are not in the prefix cache.                  *)
WritesPrivate ==
  \A s \in Seqs : \A i \in (numCached[s] \div BlockSize) + 1 .. Len(table[s]) :
    /\ refCount[table[s][i]] = 1
    /\ chain[table[s][i]] = <<>>

(* can_allocate's count of free blocks suffices: allocate never pops from  *)
(* an empty deque, although its hits take blocks out of the same deque.    *)
AdmissionSuffices ==
  \A s \in Seqs : Unfinished(s) /\ table[s] = <<>> =>
    \A c \in 0 .. num_blocks(s) - 1 :
      CachedBlocks(s, c) /\ CanAllocate(s, c) =>
        Cardinality(Range(free) \ Range(HitBlocks(s, c)))
          >= allocation_target(s) - c

(* With reserve_decode_kv an admitted sequence never asks for a block      *)
(* again.                                                                  *)
ReserveCovers ==
  Reserve => \A s \in Seqs : table[s] # <<>> => num_blocks(s) <= Len(table[s])

(* A block in use keeps its contents: only its first full computation      *)
(* gives it a chain, and nothing but returning to the free deque takes it. *)
UsedContentsStable ==
  \A b \in used \cap used' : chain[b] # <<>> => chain'[b] = chain[b]

ContentsStable == [][UsedContentsStable]_vars
=============================================================================
