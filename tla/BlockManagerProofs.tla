------------------------- MODULE BlockManagerProofs -------------------------
(***************************************************************************)
(* The safety properties of BlockManager, for any number of requests,      *)
(* tokens and blocks and any block size.                                   *)
(*                                                                         *)
(* What is assumed beyond the module's own assumptions is DigestSound:     *)
(* the chained hash never takes two prefixes that end in the same block    *)
(* for each other (see README).                                            *)
(***************************************************************************)
EXTENDS BlockManager, DequeProofs

WholeBlocks == {p \in Seq(Tokens) : \E k \in Nat : Len(p) = k * BlockSize}

DigestSound == DigestSoundOn(WholeBlocks)

(* Only whole blocks are hashed.                                           *)
ChainsWhole == \A b \in Blocks : chain[b] \in WholeBlocks

(* A request has blocks only once it exists.                               *)
BlocksAfterCreation == \A s \in Seqs : tok[s] = <<>> => table[s] = <<>>

(* The bookkeeping of the blocks, and what is in them.                     *)
Accounting == FreeExact /\ RefExact

Contents == MapSound /\ ChainsWhole /\ CachedPrefixCorrect /\ WritesPrivate

IInv == TypeOK /\ CachedBounds /\ BlocksAfterCreation /\ Accounting /\ Contents

-----------------------------------------------------------------------------
(* Arithmetic of block sizes.                                              *)

LEMMA MulStep ==
  ASSUME NEW i \in Nat, NEW j \in Nat, NEW b \in Nat, i < j
  PROVE  i * b + b <= j * b
<1>1. PICK d \in Nat : j = i + 1 + d
  <2>1. j - i - 1 \in Nat /\ j = i + 1 + (j - i - 1)
    OBVIOUS
  <2> QED
    BY <2>1
<1>2. j * b = i * b + b + d * b
  BY <1>1
<1>3. d * b \in Nat /\ i * b \in Nat
  OBVIOUS
<1> QED
  BY <1>2, <1>3

LEMMA DivBounds ==
  ASSUME NEW a \in Nat, NEW b \in Nat \ {0}
  PROVE  /\ a \div b \in Nat
         /\ (a \div b) * b \in Nat
         /\ (a \div b) * b <= a
         /\ a < (a \div b) * b + b
OBVIOUS

LEMMA DivUnique ==
  ASSUME NEW a \in Nat, NEW b \in Nat \ {0}, NEW q \in Nat,
         q * b <= a, a < q * b + b
  PROVE  a \div b = q
<1>1. a \div b \in Nat /\ (a \div b) * b <= a /\ a < (a \div b) * b + b
  BY DivBounds
<1>2. ~ (a \div b < q)
  BY <1>1, MulStep
<1>3. ~ (q < a \div b)
  BY <1>1, MulStep
<1> QED
  BY <1>1, <1>2, <1>3

(* As many whole blocks fit into a as there are i with i * b <= a.         *)
LEMMA DivGreatest ==
  ASSUME NEW a \in Nat, NEW b \in Nat \ {0}, NEW i \in Nat
  PROVE  /\ i <= a \div b => i * b <= a
         /\ i * b <= a => i <= a \div b
<1>1. a \div b \in Nat /\ (a \div b) * b <= a /\ a < (a \div b) * b + b
  BY DivBounds
<1>2. i * b \in Nat /\ (a \div b) * b \in Nat
  BY <1>1
<1>3. i < a \div b => i * b + b <= (a \div b) * b
  BY <1>1, MulStep
<1>4. a \div b < i => (a \div b) * b + b <= i * b
  BY <1>1, MulStep
<1> QED
  BY <1>1, <1>2, <1>3, <1>4

LEMMA MulInjective ==
  ASSUME NEW i \in Nat, NEW j \in Nat, NEW b \in Nat \ {0}, i * b = j * b
  PROVE  i = j
<1>1. ~ (i < j)
  BY MulStep
<1>2. ~ (j < i)
  BY MulStep
<1> QED
  BY <1>1, <1>2

(* The blocks n tokens need: enough, and none too many.                    *)
LEMMA BlocksForBounds ==
  ASSUME NEW n \in Nat
  PROVE  /\ BlocksFor(n) \in Nat
         /\ n <= BlocksFor(n) * BlockSize
         /\ BlocksFor(n) * BlockSize < n + BlockSize
<1> DEFINE q == (n + BlockSize - 1) \div BlockSize
<1>1. n + BlockSize - 1 \in Nat /\ BlockSize \in Nat \ {0}
  BY BlockSizeAssumption
<1>2. /\ q \in Nat /\ q * BlockSize \in Nat
      /\ q * BlockSize <= n + BlockSize - 1
      /\ n + BlockSize - 1 < q * BlockSize + BlockSize
  BY <1>1, DivBounds
<1>3. BlocksFor(n) = q
  BY DEF BlocksFor
<1> HIDE DEF q
<1> QED
  BY <1>1, <1>2, <1>3

LEMMA BlocksForMonotone ==
  ASSUME NEW n \in Nat, NEW m \in Nat, n <= m
  PROVE  BlocksFor(n) <= BlocksFor(m)
<1>1. BlocksFor(n) \in Nat /\ BlocksFor(m) \in Nat
      /\ BlocksFor(n) * BlockSize < n + BlockSize
      /\ m <= BlocksFor(m) * BlockSize
  BY BlocksForBounds
<1>2. BlockSize \in Nat /\ BlocksFor(n) * BlockSize \in Nat
      /\ BlocksFor(m) * BlockSize \in Nat
  BY <1>1, BlockSizeAssumption
<1>3. BlocksFor(m) < BlocksFor(n) =>
        BlocksFor(m) * BlockSize + BlockSize <= BlocksFor(n) * BlockSize
  BY <1>1, <1>2, MulStep
<1> QED
  BY <1>1, <1>2, <1>3
-----------------------------------------------------------------------------
(* Who holds a block.                                                      *)

LEMMA HoldersFinite ==
  ASSUME NEW b
  PROVE  IsFiniteSet(Holders(b)) /\ Cardinality(Holders(b)) \in Nat
<1>1. Holders(b) \in SUBSET Seqs
  BY DEF Holders
<1>2. IsFiniteSet(Holders(b))
  BY <1>1, SeqsAssumption, FS_Subset
<1> QED
  BY <1>2, FS_CardinalityType

LEMMA HoldersCounted ==
  ASSUME TypeOK, RefExact, NEW b \in Blocks
  PROVE  /\ refCount[b] \in Nat
         /\ refCount[b] = 0 <=> Holders(b) = {}
         /\ b \in used <=> Holders(b) # {}
         /\ \A s \in Holders(b) : refCount[b] = 1 => Holders(b) = {s}
<1>1. refCount[b] \in Nat
  BY DEF TypeOK
<1>2. IsFiniteSet(Holders(b))
  BY HoldersFinite
<1>3. refCount[b] = Cardinality(Holders(b)) /\ (b \in used <=> refCount[b] > 0)
  BY DEF RefExact
<1>4. Cardinality(Holders(b)) = 0 <=> Holders(b) = {}
  BY <1>2, FS_EmptySet
<1>5. Cardinality(Holders(b)) = 1 <=> \E s : Holders(b) = {s}
  BY <1>2, FS_Singleton
<1> QED
  BY <1>1, <1>3, <1>4, <1>5

(* The blocks of a table are in use.                                       *)
LEMMA HeldAreUsed ==
  ASSUME TypeOK, RefExact, NEW s \in Seqs, NEW b \in Range(table[s])
  PROVE  b \in Blocks /\ b \in used /\ s \in Holders(b)
<1>1. table[s] \in Seq(Blocks)
  BY DEF TypeOK
<1>2. b \in Blocks
  BY <1>1 DEF Range
<1>3. s \in Holders(b)
  BY DEF Holders
<1> QED
  BY <1>2, <1>3, HoldersCounted

-----------------------------------------------------------------------------
(* Taking blocks: admission takes hits and fresh blocks at once, may_append*)
(* takes one fresh block.                                                  *)

Took(s, hits, fresh) ==
  /\ hits \in Seq(Blocks) /\ IsInjective(hits)
  /\ fresh \in Seq(Blocks) /\ IsInjective(fresh)
  /\ Range(fresh) \subseteq Range(free)
  /\ Range(hits) \cap Range(fresh) = {}
  /\ Range(hits) \cap Range(table[s]) = {}
  /\ \A b \in Range(hits) : chain[b] # <<>>
  /\ refCount' = CountWith(Range(hits), Range(fresh))
  /\ chain' = ChainWithout(Range(fresh))
  /\ hashToBlock' = MapWithout(Range(fresh))
  /\ free' \in Seq(Blocks) /\ IsInjective(free')
  /\ Range(free') = Range(free) \ (Range(hits) \cup Range(fresh))
  /\ used' = used \cup Range(hits) \cup Range(fresh)
  /\ table' = [table EXCEPT ![s] = table[s] \o (hits \o fresh)]

LEMMA TookTable ==
  ASSUME TypeOK, Accounting, NEW s \in Seqs, NEW hits, NEW fresh,
         Took(s, hits, fresh)
  PROVE  /\ table' \in [Seqs -> Seq(Blocks)]
         /\ \A x \in Seqs : IsInjective(table'[x])
         /\ Range(table'[s]) = Range(table[s]) \cup Range(hits) \cup Range(fresh)
         /\ \A x \in Seqs : x # s => table'[x] = table[x]
<1>1. /\ hits \in Seq(Blocks) /\ IsInjective(hits)
      /\ fresh \in Seq(Blocks) /\ IsInjective(fresh)
      /\ Range(hits) \cap Range(fresh) = {}
      /\ Range(hits) \cap Range(table[s]) = {}
      /\ Range(fresh) \subseteq Range(free)
      /\ table' = [table EXCEPT ![s] = table[s] \o (hits \o fresh)]
  BY DEF Took
<1>2. /\ table \in [Seqs -> Seq(Blocks)]
      /\ \A x \in Seqs : IsInjective(table[x])
      /\ Range(free) = Blocks \ used
  BY DEF TypeOK, Accounting, FreeExact, RefExact
<1>3. Range(table[s]) \cap Range(fresh) = {}
  BY <1>1, <1>2, HeldAreUsed DEF Accounting
<1>4. /\ hits \o fresh \in Seq(Blocks)
      /\ Range(hits \o fresh) = Range(hits) \cup Range(fresh)
  BY <1>1, ConcatRange
<1>5. IsInjective(hits \o fresh)
  BY <1>1, ConcatInjective
<1>6. Range(table[s]) \cap Range(hits \o fresh) = {}
  BY <1>1, <1>3, <1>4
<1>7. table[s] \in Seq(Blocks) /\ IsInjective(table[s])
  BY <1>2
<1>8. /\ table[s] \o (hits \o fresh) \in Seq(Blocks)
      /\ Range(table[s] \o (hits \o fresh))
           = Range(table[s]) \cup Range(hits \o fresh)
  <2> DEFINE q == hits \o fresh
  <2>1. q \in Seq(Blocks)
    BY <1>4
  <2> HIDE DEF q
  <2>2. /\ table[s] \o q \in Seq(Blocks)
        /\ Range(table[s] \o q) = Range(table[s]) \cup Range(q)
    BY <1>7, <2>1, ConcatRange
  <2> QED
    BY <2>2 DEF q
<1>9. IsInjective(table[s] \o (hits \o fresh))
  BY <1>4, <1>5, <1>6, <1>7, ConcatInjective
<1> QED
  BY <1>1, <1>2, <1>4, <1>8, <1>9

LEMMA TookAccounting ==
  ASSUME TypeOK, Accounting, NEW s \in Seqs, NEW hits, NEW fresh,
         Took(s, hits, fresh)
  PROVE  /\ refCount' \in [Blocks -> Nat]
         /\ used' \in SUBSET Blocks
         /\ Accounting'
<1> DEFINE H == Range(hits)
           F == Range(fresh)
<1>1. /\ H \cap F = {} /\ H \cap Range(table[s]) = {} /\ F \subseteq Range(free)
      /\ refCount' = CountWith(H, F)
      /\ IsInjective(free') /\ Range(free') = Range(free) \ (H \cup F)
      /\ used' = used \cup H \cup F
  BY DEF Took
<1>2. H \subseteq Blocks /\ F \subseteq Blocks
  <2>1. hits \in Seq(Blocks) /\ fresh \in Seq(Blocks)
    BY DEF Took
  <2> QED
    BY <2>1 DEF Range
<1>3. /\ refCount \in [Blocks -> Nat] /\ used \subseteq Blocks
      /\ Range(free) = Blocks \ used
      /\ \A b \in Blocks : refCount[b] = Cardinality(Holders(b))
      /\ used = {b \in Blocks : refCount[b] > 0}
  BY DEF TypeOK, Accounting, FreeExact, RefExact
<1>4. /\ \A x \in Seqs : IsInjective(table'[x])
      /\ Range(table'[s]) = Range(table[s]) \cup H \cup F
      /\ \A x \in Seqs : x # s => table'[x] = table[x]
  BY TookTable
<1> HIDE DEF H, F
<1>5. \A b \in Blocks :
        refCount'[b] = IF b \in H \cap used THEN refCount[b] + 1
                       ELSE IF b \in H \cup F THEN 1 ELSE refCount[b]
  BY <1>1 DEF CountWith
<1>6. refCount' \in [Blocks -> Nat]
  BY <1>1, <1>3 DEF CountWith
<1>7. FreeExact'
  BY <1>1, <1>2, <1>3 DEF FreeExact
<1>8. ASSUME NEW b \in Blocks PROVE refCount'[b] = Cardinality(Holders(b)')
  <2>1. Holders(b)' = IF b \in H \cup F THEN Holders(b) \cup {s} ELSE Holders(b)
    BY <1>4 DEF Holders
  <2>2. CASE b \in H \cap used
    <3>1. s \notin Holders(b)
      BY <1>1, <2>2 DEF Holders
    <3>2. IsFiniteSet(Holders(b))
      BY HoldersFinite
    <3>3. Cardinality(Holders(b) \cup {s}) = Cardinality(Holders(b)) + 1
      BY <3>1, <3>2, FS_AddElement
    <3> QED
      BY <1>3, <1>5, <2>1, <2>2, <3>3
  <2>3. CASE b \in H \cup F /\ b \notin H \cap used
    <3>1. b \notin used
      BY <1>1, <1>3, <2>3
    <3>2. Holders(b) = {}
      BY <3>1, HoldersCounted DEF Accounting
    <3>3. Holders(b)' = {s}
      BY <2>1, <2>3, <3>2
    <3>4. Cardinality({s}) = 1
      BY FS_Singleton
    <3> QED
      BY <1>5, <2>3, <3>3, <3>4
  <2>4. CASE b \notin H \cup F
    BY <1>3, <1>5, <2>1, <2>4
  <2> QED
    BY <2>2, <2>3, <2>4
<1>9. used' = {b \in Blocks : refCount'[b] > 0}
  BY <1>1, <1>2, <1>3, <1>5
<1>10. RefExact'
  BY <1>4, <1>8, <1>9 DEF RefExact
<1> QED
  BY <1>1, <1>2, <1>3, <1>6, <1>7, <1>10 DEF Accounting

(* Blocks taken for new contents leave the map, the others stay in it.     *)
LEMMA TookMap ==
  ASSUME TypeOK, MapSound, ChainsWhole, NEW s, NEW hits, NEW fresh,
         Took(s, hits, fresh)
  PROVE  /\ chain' \in [Blocks -> Seq(Tokens)]
         /\ hashToBlock' \in [DOMAIN hashToBlock' -> Blocks]
         /\ ChainsWhole' /\ MapSound'
         /\ \A b \in Blocks : chain'[b] = IF b \in Range(fresh) THEN <<>>
                                          ELSE chain[b]
<1> DEFINE F == Range(fresh)
<1>1. /\ chain' = [b \in Blocks |-> IF b \in F THEN <<>> ELSE chain[b]]
      /\ hashToBlock' = Restrict(hashToBlock,
           {h \in DOMAIN hashToBlock :
              ~ /\ hashToBlock[h] \in F
                /\ chain[hashToBlock[h]] # <<>>
                /\ Digest(chain[hashToBlock[h]]) = h})
  BY DEF Took, ChainWithout, MapWithout
<1>2. /\ chain \in [Blocks -> Seq(Tokens)]
      /\ \A h \in DOMAIN hashToBlock : hashToBlock[h] \in Blocks
  BY DEF TypeOK
<1>3. <<>> \in Seq(Tokens) /\ <<>> \in WholeBlocks
  <2>1. Len(<<>>) = 0 * BlockSize
    BY BlockSizeAssumption
  <2> QED
    BY <2>1 DEF WholeBlocks
<1> HIDE DEF F
<1>4. /\ DOMAIN hashToBlock' = {h \in DOMAIN hashToBlock :
              ~ /\ hashToBlock[h] \in F
                /\ chain[hashToBlock[h]] # <<>>
                /\ Digest(chain[hashToBlock[h]]) = h}
      /\ \A h \in DOMAIN hashToBlock' : hashToBlock'[h] = hashToBlock[h]
  BY <1>1 DEF Restrict
<1>5. \A h \in DOMAIN hashToBlock' :
        h \in DOMAIN hashToBlock /\ hashToBlock[h] \notin F
  BY <1>4 DEF MapSound
<1>6. chain' \in [Blocks -> Seq(Tokens)]
  BY <1>1, <1>2, <1>3
<1>7. hashToBlock' \in [DOMAIN hashToBlock' -> Blocks]
  <2>1. \A h \in DOMAIN hashToBlock' : hashToBlock'[h] \in Blocks
    BY <1>2, <1>4, <1>5
  <2>2. hashToBlock' = [h \in DOMAIN hashToBlock' |-> hashToBlock'[h]]
    BY <1>1 DEF Restrict
  <2> QED
    BY <2>1, <2>2
<1>8. ChainsWhole'
  BY <1>1, <1>3 DEF ChainsWhole
<1>9. MapSound'
  BY <1>1, <1>2, <1>4, <1>5 DEF MapSound
<1> QED
  BY <1>1, <1>6, <1>7, <1>8, <1>9 DEF F
-----------------------------------------------------------------------------
(* Looking a prefix up.                                                    *)

LEMMA PrefixProperties ==
  ASSUME TypeOK, NEW s \in Seqs, NEW i \in Nat, i * BlockSize <= Len(tok[s])
  PROVE  /\ Prefix(s, i) \in Seq(Tokens)
         /\ Len(Prefix(s, i)) = i * BlockSize
         /\ Prefix(s, i) \in WholeBlocks
         /\ i > 0 => Prefix(s, i) # <<>>
<1>1. tok[s] \in Seq(Tokens) /\ BlockSize \in Nat \ {0}
  BY BlockSizeAssumption DEF TypeOK
<1>2. i * BlockSize \in 0 .. Len(tok[s])
  BY <1>1
<1>3. Prefix(s, i) \in Seq(Tokens) /\ Len(Prefix(s, i)) = i * BlockSize
  BY <1>1, <1>2, Cut DEF Prefix
<1>4. ASSUME i > 0 PROVE Prefix(s, i) # <<>>
  <2>1. 0 * BlockSize + BlockSize <= i * BlockSize
    BY <1>1, <1>4, MulStep
  <2>2. Len(Prefix(s, i)) # 0
    BY <1>1, <1>2, <1>3, <2>1
  <2> QED
    BY <2>2
<1> QED
  BY <1>3, <1>4 DEF WholeBlocks

(* The last block is never looked up, so there are tokens left to compute. *)
LEMMA HitsFit ==
  ASSUME TypeOK, NEW s \in Seqs, NEW c \in 0 .. num_blocks(s) - 1
  PROVE  /\ c \in Nat
         /\ c * BlockSize \in Nat
         /\ c * BlockSize < Len(tok[s])
<1>1. Len(tok[s]) \in Nat /\ BlockSize \in Nat \ {0}
  BY BlockSizeAssumption DEF TypeOK
<1>2. /\ num_blocks(s) \in Nat
      /\ num_blocks(s) * BlockSize < Len(tok[s]) + BlockSize
  BY <1>1, BlocksForBounds DEF num_blocks
<1>3. c \in Nat /\ c < num_blocks(s)
  BY <1>2
<1>4. c * BlockSize + BlockSize <= num_blocks(s) * BlockSize
  BY <1>1, <1>2, <1>3, MulStep
<1>5. c * BlockSize \in Nat /\ num_blocks(s) * BlockSize \in Nat
  BY <1>1, <1>2, <1>3
<1> QED
  BY <1>1, <1>2, <1>3, <1>4, <1>5

(* A block that is hit holds the prefix that is asked for, so different    *)
(* prefixes of a request hit different blocks.                             *)
LEMMA HitsCorrect ==
  ASSUME DigestSound, TypeOK, MapSound, ChainsWhole,
         NEW s \in Seqs, NEW c \in 0 .. num_blocks(s) - 1,
         \A i \in 1 .. c : Hit(s, i)
  PROVE  /\ HitBlocks(s, c) \in Seq(Blocks)
         /\ Len(HitBlocks(s, c)) = c
         /\ IsInjective(HitBlocks(s, c))
         /\ \A i \in 1 .. c : /\ chain[HitBlocks(s, c)[i]] = Prefix(s, i)
                              /\ Prefix(s, i) # <<>>
<1> DEFINE hits == HitBlocks(s, c)
<1>1. /\ c \in Nat /\ c * BlockSize \in Nat /\ c * BlockSize < Len(tok[s])
      /\ BlockSize \in Nat \ {0} /\ Len(tok[s]) \in Nat
  BY HitsFit, BlockSizeAssumption DEF TypeOK
<1>2. ASSUME NEW i \in 1 .. c
      PROVE  i \in Nat /\ i > 0 /\ i * BlockSize <= Len(tok[s])
  <2>1. i \in Nat /\ i > 0 /\ (i < c \/ i = c)
    BY <1>1
  <2>2. i < c => i * BlockSize + BlockSize <= c * BlockSize
    BY <1>1, <2>1, MulStep
  <2>3. i * BlockSize \in Nat
    BY <1>1, <2>1
  <2> QED
    BY <1>1, <2>1, <2>2, <2>3
<1>3. \A i \in 1 .. c : hits[i] = hashToBlock[Digest(Prefix(s, i))]
  BY DEF HitBlocks
<1>4. \A i \in 1 .. c : hits[i] \in Blocks
  BY <1>3 DEF Hit, TypeOK
<1>5. hits \in Seq(Blocks) /\ Len(hits) = c
  <2>1. hits \in [1 .. c -> Blocks]
    BY <1>4 DEF HitBlocks
  <2> QED
    BY <1>1, <2>1
<1>6. ASSUME NEW i \in 1 .. c
      PROVE  chain[hits[i]] = Prefix(s, i) /\ Prefix(s, i) # <<>>
  <2>1. Prefix(s, i) \in WholeBlocks /\ Prefix(s, i) # <<>>
    BY <1>2, PrefixProperties
  <2>2. /\ Digest(Prefix(s, i)) \in DOMAIN hashToBlock
        /\ LastBlock(chain[hits[i]]) = LastBlock(Prefix(s, i))
    BY <1>3 DEF Hit
  <2>3. Digest(chain[hits[i]]) = Digest(Prefix(s, i))
    BY <1>3, <2>2 DEF MapSound
  <2>4. chain[hits[i]] \in WholeBlocks
    BY <1>4 DEF ChainsWhole
  <2> QED
    BY <2>1, <2>2, <2>3, <2>4 DEF DigestSound, DigestSoundOn
<1>7. IsInjective(hits)
  <2> SUFFICES ASSUME NEW i \in 1 .. c, NEW j \in 1 .. c, hits[i] = hits[j]
               PROVE  i = j
    BY <1>5 DEF IsInjective
  <2>1. Prefix(s, i) = Prefix(s, j)
    BY <1>6
  <2>2. i * BlockSize = j * BlockSize
    BY <1>2, <2>1, PrefixProperties
  <2> QED
    BY <1>1, <1>2, <2>2, MulInjective
<1> QED
  BY <1>5, <1>6, <1>7

(* Touching only reorders the free deque.                                  *)
LEMMA TouchedProperties ==
  ASSUME TypeOK, FreeExact, NEW s, NEW c,
         HitBlocks(s, c) \in Seq(Blocks), IsInjective(HitBlocks(s, c))
  PROVE  /\ Touched(s, c) \in Seq(Blocks)
         /\ IsInjective(Touched(s, c))
         /\ Range(Touched(s, c)) = Range(free)
<1> DEFINE H == HitBlocks(s, c)
           front == Without(free, Range(H))
           back == Keep(H, Range(free))
<1>1. free \in Seq(Blocks) /\ IsInjective(free)
  BY DEF TypeOK, FreeExact
<1>2. H \in Seq(Blocks) /\ IsInjective(H)
  OBVIOUS
<1>3. Touched(s, c) = IF Policy = "lru" THEN front \o back ELSE free
  BY DEF Touched
<1> HIDE DEF H
<1>4. /\ front \in Seq(Blocks) /\ Range(front) = Range(free) \ Range(H)
      /\ IsInjective(front)
  BY <1>1, WithoutProperties
<1>5. /\ back \in Seq(Blocks) /\ Range(back) = Range(H) \cap Range(free)
      /\ IsInjective(back)
  BY <1>2, KeepProperties
<1> HIDE DEF front, back
<1>6. /\ front \o back \in Seq(Blocks)
      /\ Range(front \o back) = Range(front) \cup Range(back)
  BY <1>4, <1>5, ConcatRange
<1>7. Range(front) \cap Range(back) = {}
  BY <1>4, <1>5
<1>8. IsInjective(front \o back)
  BY <1>4, <1>5, <1>7, ConcatInjective
<1> QED
  BY <1>1, <1>3, <1>4, <1>5, <1>6, <1>8

(* What can_allocate counts is enough: the blocks that are free and not    *)
(* hit are at least the ones to be taken.                                  *)
LEMMA EnoughBlocks ==
  ASSUME TypeOK, FreeExact, NEW s \in Seqs, NEW c \in Nat,
         HitBlocks(s, c) \in Seq(Blocks), Len(HitBlocks(s, c)) = c,
         allocation_target(s) \in Nat, CanAllocate(s, c)
  PROVE  /\ IsFiniteSet(Range(free) \ Range(HitBlocks(s, c)))
         /\ Cardinality(Range(free) \ Range(HitBlocks(s, c)))
              >= allocation_target(s) - c
<1> DEFINE H == HitBlocks(s, c)
           N == 1 .. c
           U == {i \in N : H[i] \in used}
           V == N \ U
           R == Range(H)
           F == Range(free)
           f == [i \in V |-> H[i]]
<1>1. /\ IsFiniteSet(F) /\ Cardinality(F) = Len(free) /\ Len(free) \in Nat
  <2>1. free \in Seq(Blocks) /\ IsInjective(free)
    BY DEF TypeOK, FreeExact
  <2> QED
    BY <2>1, InjectiveRange
<1>2. Len(free) >= allocation_target(s) - Cardinality(U)
  BY DEF CanAllocate, num_new_blocks
<1>3. IsFiniteSet(N)
  BY FS_Interval
<1>4. Cardinality(N) = IF 1 > c THEN 0 ELSE c - 1 + 1
  BY FS_Interval
<1>5. Cardinality(N) = c
  BY <1>4
<1>6. F = Blocks \ used
  BY DEF FreeExact
<1>7. DOMAIN H = N /\ \A i \in N : H[i] \in Blocks
  OBVIOUS
<1>8. U \in SUBSET N
  OBVIOUS
<1>9. f \in [V -> F \cap R] /\ \A x \in F \cap R : \E i \in V : f[i] = x
  BY <1>6, <1>7 DEF Range
<1> HIDE DEF f
<1>10. f \in Surjection(V, F \cap R)
  BY <1>9, Fun_IsSurj
<1> HIDE DEF V
<1>11. IsFiniteSet(V) /\ Cardinality(V) = Cardinality(N) - Cardinality(N \cap U)
  BY <1>3, FS_Difference DEF V
<1> HIDE DEF U
<1>12. N \cap U = U
  BY <1>8
<1>13. IsFiniteSet(F \cap R) /\ Cardinality(F \cap R) <= Cardinality(V)
  BY <1>10, <1>11, FS_Surjection
<1>14. /\ IsFiniteSet(F \ R)
       /\ Cardinality(F \ R) = Cardinality(F) - Cardinality(F \cap R)
  BY <1>1, FS_Difference
<1>15. IsFiniteSet(U)
  BY <1>3, <1>8, FS_Subset
<1>16. /\ Cardinality(U) \in Nat /\ Cardinality(V) \in Nat
       /\ Cardinality(F \cap R) \in Nat
  BY <1>11, <1>13, <1>15, FS_CardinalityType
<1>17. Cardinality(V) = c - Cardinality(U)
  BY <1>5, <1>11, <1>12
<1> HIDE DEF N, R, F, H
<1>18. Cardinality(F \ R) >= allocation_target(s) - c
  BY <1>1, <1>2, <1>13, <1>14, <1>16, <1>17
<1> QED
  BY <1>14, <1>18 DEF F, R, H
-----------------------------------------------------------------------------
(* Admission.                                                              *)

(* A request that is not finished is allotted at least its own blocks.     *)
LEMMA TargetProperties ==
  ASSUME TypeOK, NEW s \in Seqs, Unfinished(s)
  PROVE  /\ allocation_target(s) \in Nat
         /\ num_blocks(s) \in Nat
         /\ allocation_target(s) >= num_blocks(s)
<1>1. /\ Len(tok[s]) \in Nat /\ numPrompt[s] \in Nat /\ MaxTokens \in Nat
  BY MaxTokensAssumption DEF TypeOK
<1>2. numPrompt[s] + MaxTokens \in Nat /\ Len(tok[s]) <= numPrompt[s] + MaxTokens
  BY <1>1 DEF Unfinished, num_completion_tokens
<1>3. num_blocks(s) \in Nat /\ max_num_blocks(s) \in Nat
  BY <1>1, <1>2, BlocksForBounds DEF num_blocks, max_num_blocks
<1>4. num_blocks(s) <= max_num_blocks(s)
  BY <1>1, <1>2, BlocksForMonotone DEF num_blocks, max_num_blocks
<1> QED
  BY <1>3, <1>4 DEF allocation_target

(* Admission takes the blocks it hits and, from the front of the deque     *)
(* without them, as many as the target asks for beyond the hits.           *)
LEMMA AllocateTook ==
  ASSUME DigestSound, TypeOK, Accounting, MapSound, ChainsWhole,
         NEW s \in Seqs, Unfinished(s), table[s] = <<>>,
         NEW c \in 0 .. num_blocks(s) - 1,
         CachedBlocks(s, c), CanAllocate(s, c), Allocate(s, c)
  PROVE  \E hits, fresh :
           /\ Took(s, hits, fresh)
           /\ Len(hits) = c /\ Len(fresh) = allocation_target(s) - c
           /\ \A i \in 1 .. c : chain[hits[i]] = Prefix(s, i)
           /\ table' = [table EXCEPT ![s] = hits \o fresh]
           /\ numCached' = [numCached EXCEPT ![s] = c * BlockSize]
           /\ UNCHANGED <<tok, numPrompt>>
<1> DEFINE need == allocation_target(s) - c
<1>1. PICK hits \in {HitBlocks(s, c)} :
      \E rest \in {Without(Touched(s, c), Range(hits))} :
        LET fresh == SubSeq(rest, 1, need)
        IN  /\ refCount' = CountWith(Range(hits), Range(fresh))
            /\ chain' = ChainWithout(Range(fresh))
            /\ hashToBlock' = MapWithout(Range(fresh))
            /\ free' = SubSeq(rest, need + 1, Len(rest))
            /\ used' = used \cup Range(hits) \cup Range(fresh)
            /\ table' = [table EXCEPT ![s] = hits \o fresh]
            /\ numCached' = [numCached EXCEPT ![s] = c * BlockSize]
            /\ UNCHANGED <<tok, numPrompt>>
  BY DEF Allocate
<1>2. hits = HitBlocks(s, c)
  OBVIOUS
<1> DEFINE rest == Without(Touched(s, c), Range(hits))
<1> DEFINE fresh == SubSeq(rest, 1, need)
           left == SubSeq(rest, need + 1, Len(rest))
<1>3. c \in Nat /\ need \in Nat /\ allocation_target(s) \in Nat
  BY TargetProperties
<1>4. /\ hits \in Seq(Blocks) /\ Len(hits) = c /\ IsInjective(hits)
      /\ \A i \in 1 .. c : chain[hits[i]] = Prefix(s, i) /\ Prefix(s, i) # <<>>
  BY <1>2, HitsCorrect DEF CachedBlocks
<1>5. /\ Touched(s, c) \in Seq(Blocks) /\ IsInjective(Touched(s, c))
      /\ Range(Touched(s, c)) = Range(free)
  BY <1>2, <1>4, TouchedProperties DEF Accounting
<1>6. /\ rest \in Seq(Blocks) /\ IsInjective(rest)
      /\ Range(rest) = Range(free) \ Range(hits)
  BY <1>5, WithoutProperties
<1>7. need <= Len(rest) /\ Len(rest) \in Nat
  <2>1. Cardinality(Range(free) \ Range(hits)) >= need
    BY <1>2, <1>3, <1>4, EnoughBlocks DEF Accounting
  <2>2. Cardinality(Range(rest)) = Len(rest)
    BY <1>6, InjectiveRange
  <2> QED
    BY <1>6, <2>1, <2>2
<1>8. need \in 0 .. Len(rest)
  BY <1>3, <1>7
<1> HIDE DEF need
<1>9. /\ fresh \in Seq(Blocks) /\ Len(fresh) = need /\ left \in Seq(Blocks)
  BY <1>6, <1>8, Cut
<1>10. /\ IsInjective(fresh) /\ IsInjective(left)
       /\ Range(fresh) \subseteq Range(rest)
       /\ Range(left) = Range(rest) \ Range(fresh)
  BY <1>6, <1>8, CutInjective
<1>11. \A b \in Range(hits) : chain[b] # <<>>
  BY <1>4 DEF Range
<1>12. /\ refCount' = CountWith(Range(hits), Range(fresh))
       /\ chain' = ChainWithout(Range(fresh))
       /\ hashToBlock' = MapWithout(Range(fresh))
       /\ free' = left
       /\ used' = used \cup Range(hits) \cup Range(fresh)
       /\ table' = [table EXCEPT ![s] = hits \o fresh]
       /\ numCached' = [numCached EXCEPT ![s] = c * BlockSize]
       /\ UNCHANGED <<tok, numPrompt>>
  BY <1>1
<1> HIDE DEF fresh, left
<1>13. Range(table[s]) = {}
  BY DEF Range
<1>14. table[s] \o (hits \o fresh) = hits \o fresh
  <2> DEFINE q == hits \o fresh
  <2>1. q \in Seq(Blocks)
    BY <1>4, <1>9, ConcatRange
  <2> HIDE DEF q
  <2>2. <<>> \o q = q
    BY <2>1, ConcatEmptySeq
  <2> QED
    BY <2>2 DEF q
<1>15. Took(s, hits, fresh)
  BY <1>4, <1>6, <1>9, <1>10, <1>11, <1>12, <1>13, <1>14 DEF Took
<1> QED
  BY <1>4, <1>9, <1>12, <1>15 DEF need
(* The blocks that are held keep their contents, and a block that is not   *)
(* in the prefix cache is not shared.                                      *)
LEMMA TookHeld ==
  ASSUME TypeOK, Accounting, NEW s \in Seqs, NEW hits, NEW fresh,
         Took(s, hits, fresh), NEW x \in Seqs, NEW b \in Range(table[x])
  PROVE  /\ b \in Blocks
         /\ chain'[b] = chain[b]
         /\ chain[b] = <<>> => refCount'[b] = refCount[b]
<1>1. b \in Blocks /\ b \in used
  BY HeldAreUsed DEF Accounting
<1>2. b \notin Range(fresh)
  BY <1>1 DEF Took, Accounting, FreeExact
<1>3. chain'[b] = chain[b]
  BY <1>1, <1>2 DEF Took, ChainWithout
<1>4. ASSUME chain[b] = <<>> PROVE refCount'[b] = refCount[b]
  <2>1. b \notin Range(hits)
    BY <1>4 DEF Took
  <2> QED
    BY <1>1, <1>2, <2>1 DEF Took, CountWith
<1> QED
  BY <1>1, <1>3, <1>4

(* The blocks taken fresh have one holder and no contents.                 *)
LEMMA TookFresh ==
  ASSUME TypeOK, Accounting, NEW s \in Seqs, NEW hits, NEW fresh,
         Took(s, hits, fresh), NEW b \in Range(fresh)
  PROVE  b \in Blocks /\ chain'[b] = <<>> /\ refCount'[b] = 1
<1>1. b \in Blocks /\ b \notin used /\ b \notin Range(hits)
  BY DEF Took, Accounting, FreeExact
<1> QED
  BY <1>1 DEF Took, ChainWithout, CountWith

(* The blocks a request counts as cached are in its table and full of its  *)
(* tokens.                                                                 *)
LEMMA CachedFit ==
  ASSUME TypeOK, CachedBounds, NEW s \in Seqs
  PROVE  /\ numCached[s] \div BlockSize \in 0 .. Len(table[s])
         /\ Len(table[s]) \in Nat
         /\ \A i \in 1 .. numCached[s] \div BlockSize :
              i \in Nat /\ i * BlockSize <= Len(tok[s])
<1> DEFINE q == numCached[s] \div BlockSize
<1>1. /\ numCached[s] \in Nat /\ BlockSize \in Nat \ {0}
      /\ Len(table[s]) \in Nat /\ Len(tok[s]) \in Nat
      /\ numCached[s] <= Len(tok[s]) /\ numCached[s] <= BlockSize * Len(table[s])
  BY BlockSizeAssumption DEF TypeOK, CachedBounds
<1>2. q \in Nat /\ q * BlockSize \in Nat /\ q * BlockSize <= numCached[s]
  BY <1>1, DivBounds
<1>3. \A i \in Nat : i <= q => i * BlockSize <= numCached[s]
  BY <1>1, DivGreatest
<1> HIDE DEF q
<1>4. q <= Len(table[s])
  <2>1. Len(table[s]) < q =>
          Len(table[s]) * BlockSize + BlockSize <= q * BlockSize
    BY <1>1, <1>2, MulStep
  <2>2. Len(table[s]) * BlockSize \in Nat
        /\ BlockSize * Len(table[s]) = Len(table[s]) * BlockSize
    BY <1>1
  <2> QED
    BY <1>1, <1>2, <2>1, <2>2
<1>5. ASSUME NEW i \in 1 .. q PROVE i \in Nat /\ i * BlockSize <= Len(tok[s])
  <2>1. i \in Nat /\ i <= q
    BY <1>2
  <2>2. i * BlockSize \in Nat
    BY <1>1, <2>1
  <2> QED
    BY <1>1, <1>3, <2>1, <2>2
<1> QED
  BY <1>1, <1>2, <1>4, <1>5 DEF q

LEMMA AdmitStep ==
  ASSUME DigestSound, IInv, NEW s \in Seqs, Admit(s)
  PROVE  IInv'
<1>1. PICK c \in 0 .. num_blocks(s) - 1 :
        CachedBlocks(s, c) /\ CanAllocate(s, c) /\ Allocate(s, c)
  BY DEF Admit
<1>2. PICK hits, fresh :
        /\ Took(s, hits, fresh)
        /\ Len(hits) = c /\ Len(fresh) = allocation_target(s) - c
        /\ \A i \in 1 .. c : chain[hits[i]] = Prefix(s, i)
        /\ table' = [table EXCEPT ![s] = hits \o fresh]
        /\ numCached' = [numCached EXCEPT ![s] = c * BlockSize]
        /\ UNCHANGED <<tok, numPrompt>>
  BY <1>1, AllocateTook DEF IInv, Contents, Admit
<1>3. TypeOK /\ CachedBounds /\ Accounting /\ Contents /\ BlocksAfterCreation
  BY DEF IInv
<1>4. /\ c \in Nat /\ c * BlockSize \in Nat /\ c * BlockSize < Len(tok[s])
      /\ BlockSize \in Nat \ {0} /\ Len(tok[s]) \in Nat
  BY <1>3, HitsFit, BlockSizeAssumption DEF TypeOK
<1>5. (c * BlockSize) \div BlockSize = c
  BY <1>4, DivUnique
<1>6. allocation_target(s) - c \in Nat
  BY <1>3, <1>4, TargetProperties DEF Admit
<1>7. /\ hits \in Seq(Blocks) /\ fresh \in Seq(Blocks)
      /\ free' \in Seq(Blocks)
  BY <1>2 DEF Took
<1> DEFINE need == allocation_target(s) - c
<1>8. /\ hits \o fresh \in Seq(Blocks)
      /\ Len(hits \o fresh) = c + need
      /\ \A i \in 1 .. c : (hits \o fresh)[i] = hits[i]
      /\ \A i \in c + 1 .. c + need : /\ i - c \in 1 .. need
                                      /\ (hits \o fresh)[i] = fresh[i - c]
  <2>1. Len(hits) = c /\ Len(fresh) = need
    BY <1>2
  <2> HIDE DEF need
  <2>2. /\ Len(hits \o fresh) = c + need
        /\ \A i \in 1 .. c + need :
             (hits \o fresh)[i] = IF i <= c THEN hits[i] ELSE fresh[i - c]
    BY <1>7, <2>1, ConcatProperties
  <2>3. hits \o fresh \in Seq(Blocks)
    BY <1>7, ConcatProperties
  <2>4. \A i \in 1 .. c : i \in 1 .. c + need /\ i <= c
    BY <1>4, <1>6 DEF need
  <2>5. \A i \in c + 1 .. c + need :
          i \in 1 .. c + need /\ ~(i <= c) /\ i - c \in 1 .. need
    BY <1>4, <1>6 DEF need
  <2> QED
    BY <2>2, <2>3, <2>4, <2>5
<1> HIDE DEF need
<1>9. need \in Nat /\ Len(fresh) = need
  BY <1>2, <1>6 DEF need
<1>10. /\ table \in [Seqs -> Seq(Blocks)] /\ numCached \in [Seqs -> Nat]
  BY <1>3 DEF TypeOK
<1>11. /\ table'[s] = hits \o fresh /\ numCached'[s] = c * BlockSize
       /\ \A x \in Seqs : x # s => table'[x] = table[x]
                                   /\ numCached'[x] = numCached[x]
       /\ \A x \in Seqs : tok'[x] = tok[x]
  BY <1>2, <1>10
<1>12. TypeOK'
  <2>1. refCount' \in [Blocks -> Nat] /\ used' \in SUBSET Blocks
    BY <1>2, <1>3, TookAccounting
  <2>2. /\ chain' \in [Blocks -> Seq(Tokens)]
        /\ hashToBlock' \in [DOMAIN hashToBlock' -> Blocks]
    BY <1>2, <1>3, TookMap DEF Contents
  <2>3. table' \in [Seqs -> Seq(Blocks)]
    BY <1>2, <1>3, TookTable
  <2>4. numCached' \in [Seqs -> Nat]
    BY <1>2, <1>4, <1>10
  <2>5. tok' = tok /\ numPrompt' = numPrompt
    BY <1>2
  <2> QED
    BY <1>3, <1>7, <2>1, <2>2, <2>3, <2>4, <2>5 DEF TypeOK
<1>13. CachedBounds'
  <2>1. c * BlockSize <= BlockSize * (c + need)
    <3>1. BlockSize * (c + need) = c * BlockSize + need * BlockSize
      BY <1>4, <1>9
    <3>2. need * BlockSize \in Nat
      BY <1>4, <1>9
    <3> QED
      BY <1>4, <3>1, <3>2
  <2>2. numCached'[s] <= Len(tok'[s]) /\ numCached'[s] <= BlockSize * Len(table'[s])
    BY <1>4, <1>8, <1>11, <2>1
  <2> QED
    BY <1>3, <1>11, <2>2 DEF CachedBounds
<1>14. BlocksAfterCreation'
  <2>1. tok[s] # <<>>
    BY DEF Admit, Unfinished
  <2> QED
    BY <1>3, <1>11, <2>1 DEF BlocksAfterCreation
<1>15. Accounting'
  BY <1>2, <1>3, TookAccounting
<1>16. MapSound' /\ ChainsWhole'
  BY <1>2, <1>3, TookMap DEF Contents
<1>17. \A x \in Seqs : \A i \in 1 .. Len(table[x]) :
         /\ chain'[table[x][i]] = chain[table[x][i]]
         /\ chain[table[x][i]] = <<>> =>
              refCount'[table[x][i]] = refCount[table[x][i]]
  <2>1. \A x \in Seqs : \A i \in 1 .. Len(table[x]) : table[x][i] \in Range(table[x])
    BY <1>10 DEF Range
  <2> QED
    BY <1>2, <1>3, <2>1, TookHeld
<1>18. CachedPrefixCorrect'
  <2> SUFFICES ASSUME NEW x \in Seqs,
                      NEW i \in 1 .. numCached'[x] \div BlockSize
               PROVE  chain'[table'[x][i]] = Prefix(x, i)'
    BY DEF CachedPrefixCorrect
  <2>1. Prefix(x, i)' = Prefix(x, i)
    BY <1>2 DEF Prefix
  <2>2. CASE x = s
    <3>1. i \in 1 .. c /\ table'[s][i] = hits[i]
      BY <1>5, <1>8, <1>11, <2>2
    <3>2. hits[i] \in Range(hits) /\ hits[i] \in Blocks
      <4>1. hits \in Seq(Blocks) /\ Len(hits) = c
        BY <1>2, <1>7
      <4> QED
        BY <3>1, <4>1 DEF Range
    <3>3. hits[i] \notin Range(fresh)
      BY <1>2, <3>2 DEF Took
    <3>4. chain'[hits[i]] = chain[hits[i]]
      BY <1>2, <3>2, <3>3 DEF Took, ChainWithout
    <3> QED
      BY <1>2, <2>1, <2>2, <3>1, <3>4
  <2>3. CASE x # s
    <3>1. /\ table'[x] = table[x]
          /\ i \in 1 .. numCached[x] \div BlockSize
      BY <1>11, <2>3
    <3>2. i \in 1 .. Len(table[x])
      BY <1>3, <3>1, CachedFit
    <3>3. chain[table[x][i]] = Prefix(x, i)
      BY <1>3, <3>1 DEF Contents, CachedPrefixCorrect
    <3> QED
      BY <1>17, <2>1, <3>1, <3>2, <3>3
  <2> QED
    BY <2>2, <2>3
<1>19. WritesPrivate'
  <2> SUFFICES ASSUME NEW x \in Seqs,
                      NEW i \in (numCached'[x] \div BlockSize) + 1 .. Len(table'[x])
               PROVE  /\ refCount'[table'[x][i]] = 1
                      /\ chain'[table'[x][i]] = <<>>
    BY DEF WritesPrivate
  <2>1. CASE x = s
    <3>1. i \in c + 1 .. c + need
      BY <1>5, <1>8, <1>11, <2>1
    <3>2. table'[s][i] = fresh[i - c] /\ i - c \in 1 .. need
      BY <1>8, <1>11, <3>1
    <3>3. fresh[i - c] \in Range(fresh)
      BY <1>7, <1>9, <3>2 DEF Range
    <3> QED
      BY <1>2, <1>3, <2>1, <3>2, <3>3, TookFresh
  <2>2. CASE x # s
    <3>1. /\ table'[x] = table[x]
          /\ i \in (numCached[x] \div BlockSize) + 1 .. Len(table[x])
      BY <1>11, <2>2
    <3>2. refCount[table[x][i]] = 1 /\ chain[table[x][i]] = <<>>
      BY <1>3, <3>1 DEF Contents, WritesPrivate
    <3>3. i \in 1 .. Len(table[x])
      BY <1>3, <3>1, CachedFit
    <3> QED
      BY <1>17, <3>1, <3>2, <3>3
  <2> QED
    BY <2>1, <2>2
<1> QED
  BY <1>12, <1>13, <1>14, <1>15, <1>16, <1>18, <1>19 DEF IInv, Contents
-----------------------------------------------------------------------------
(* A rejected admission, a new request, and one more block.                *)

LEMMA RejectStep ==
  ASSUME DigestSound, IInv, NEW s \in Seqs, RejectAdmission(s)
  PROVE  IInv'
<1>1. PICK c \in 0 .. num_blocks(s) - 1 :
        CachedBlocks(s, c) /\ RejectedLookup(s, c)
  BY DEF RejectAdmission
<1>2. TypeOK /\ FreeExact /\ MapSound /\ ChainsWhole
  BY DEF IInv, Accounting, Contents
<1>3. HitBlocks(s, c) \in Seq(Blocks) /\ IsInjective(HitBlocks(s, c))
  BY <1>1, <1>2, HitsCorrect DEF CachedBlocks
<1>4. /\ free' \in Seq(Blocks) /\ IsInjective(free') /\ Range(free') = Range(free)
      /\ UNCHANGED <<refCount, chain, hashToBlock, used>>
      /\ UNCHANGED seqVars
  BY <1>1, <1>2, <1>3, TouchedProperties DEF RejectedLookup
<1>5. TypeOK'
  BY <1>2, <1>4 DEF TypeOK, seqVars
<1>6. Accounting'
  BY <1>4 DEF IInv, Accounting, FreeExact, RefExact, Holders, seqVars
<1>7. Contents'
  BY <1>4 DEF IInv, Contents, MapSound, ChainsWhole, CachedPrefixCorrect,
              WritesPrivate, Prefix, seqVars
<1>8. CachedBounds' /\ BlocksAfterCreation'
  BY <1>4 DEF IInv, CachedBounds, BlocksAfterCreation, seqVars
<1> QED
  BY <1>5, <1>6, <1>7, <1>8 DEF IInv

LEMMA CreateStep ==
  ASSUME IInv, NEW s \in Seqs, NEW p \in Prompts, Create(s, p)
  PROVE  IInv'
<1>1. /\ tok' = [tok EXCEPT ![s] = p]
      /\ numPrompt' = [numPrompt EXCEPT ![s] = Len(p)]
      /\ UNCHANGED <<refCount, chain, hashToBlock, free, used, table, numCached>>
      /\ tok[s] = <<>>
  BY DEF Create, NewSequence, blockVars
<1>2. p \in Seq(Tokens) /\ p # <<>> /\ Len(p) \in Nat
  BY PromptsAssumption
<1>3. TypeOK /\ CachedBounds /\ BlocksAfterCreation /\ Accounting /\ Contents
  BY DEF IInv
<1>4. TypeOK'
  BY <1>1, <1>2, <1>3 DEF TypeOK
<1>5. /\ numCached[s] = 0 /\ Len(table[s]) = 0
      /\ numCached[s] \div BlockSize = 0
  <2>1. numCached[s] \in Nat /\ numCached[s] <= Len(tok[s])
    BY <1>3 DEF TypeOK, CachedBounds
  <2>2. numCached[s] = 0
    BY <1>1, <2>1
  <2>3. 0 \div BlockSize = 0
    BY DivUnique, BlockSizeAssumption
  <2> QED
    BY <1>1, <1>3, <2>2, <2>3 DEF BlocksAfterCreation
<1>6. /\ \A x \in Seqs : x # s => tok'[x] = tok[x]
      /\ tok'[s] = p
  BY <1>1, <1>3 DEF TypeOK
<1>7. CachedBounds'
  BY <1>1, <1>2, <1>3, <1>5, <1>6 DEF CachedBounds
<1>8. BlocksAfterCreation'
  BY <1>1, <1>2, <1>3, <1>6 DEF BlocksAfterCreation
<1>9. Accounting'
  BY <1>1, <1>3 DEF Accounting, FreeExact, RefExact, Holders
<1>10. CachedPrefixCorrect'
  <2> SUFFICES ASSUME NEW x \in Seqs,
                      NEW i \in 1 .. numCached'[x] \div BlockSize
               PROVE  chain'[table'[x][i]] = Prefix(x, i)'
    BY DEF CachedPrefixCorrect
  <2>1. x # s
    BY <1>1, <1>5
  <2>2. Prefix(x, i)' = Prefix(x, i)
    BY <1>6, <2>1 DEF Prefix
  <2> QED
    BY <1>1, <1>3, <2>2 DEF Contents, CachedPrefixCorrect
<1>11. MapSound' /\ ChainsWhole' /\ WritesPrivate'
  BY <1>1, <1>3 DEF Contents, MapSound, ChainsWhole, WritesPrivate
<1> QED
  BY <1>4, <1>7, <1>8, <1>9, <1>10, <1>11 DEF IInv, Contents

LEMMA GrowTook ==
  ASSUME TypeOK, Accounting, NEW s \in Seqs, free # <<>>,
         num_blocks(s) > Len(table[s]), MayAppend(s)
  PROVE  /\ Took(s, <<>>, <<Head(free)>>)
         /\ table' = [table EXCEPT ![s] = Append(table[s], Head(free))]
         /\ UNCHANGED <<tok, numPrompt, numCached>>
<1> DEFINE b == Head(free)
<1>1. /\ refCount' = CountWith({}, {b})
      /\ chain' = ChainWithout({b})
      /\ hashToBlock' = MapWithout({b})
      /\ free' = Tail(free)
      /\ used' = used \cup {b}
      /\ table' = [table EXCEPT ![s] = Append(table[s], b)]
      /\ UNCHANGED <<tok, numPrompt, numCached>>
  BY DEF MayAppend
<1>2. free \in Seq(Blocks) /\ IsInjective(free) /\ table[s] \in Seq(Blocks)
  BY DEF TypeOK, Accounting, FreeExact
<1>3. Len(free) \in Nat /\ 1 \in 0 .. Len(free) /\ free[1] = b
  BY <1>2
<1>4. SubSeq(free, 1, 1) = <<b>> /\ Tail(free) = SubSeq(free, 1 + 1, Len(free))
  <2>1. /\ SubSeq(free, 1, 1) \in Seq(Blocks) /\ Len(SubSeq(free, 1, 1)) = 1
        /\ \A i \in 1 .. 1 : SubSeq(free, 1, 1)[i] = free[i]
    BY <1>2, <1>3, Cut
  <2>2. SubSeq(free, 1, 1)[1] = b
    BY <1>3, <2>1
  <2>3. SubSeq(free, 1, 1) = <<b>>
    <3> DEFINE p == SubSeq(free, 1, 1)
    <3>1. p \in Seq(Blocks) /\ Len(p) = 1 /\ p[1] = b /\ b \in Blocks
      BY <1>2, <1>3, <2>1, <2>2
    <3> HIDE DEF p, b
    <3>2. <<b>> \in Seq(Blocks) /\ Len(<<b>>) = 1
      BY <3>1
    <3>3. \A i \in 1 .. Len(p) : p[i] = <<b>>[i]
      BY <3>1
    <3>4. p = <<b>>
      BY <3>1, <3>2, <3>3, SeqEqual
    <3> QED
      BY <3>4 DEF p
  <2>4. Tail(free) = SubSeq(free, 2, Len(free))
    BY <1>2, TailIsSubSeq
  <2> QED
    BY <2>3, <2>4
<1>5. b \in Blocks /\ Tail(free) \in Seq(Blocks)
  BY <1>2, <1>3
<1>6. /\ IsInjective(SubSeq(free, 1, 1))
      /\ IsInjective(SubSeq(free, 1 + 1, Len(free)))
      /\ Range(SubSeq(free, 1, 1)) \subseteq Range(free)
      /\ Range(SubSeq(free, 1 + 1, Len(free)))
           = Range(free) \ Range(SubSeq(free, 1, 1))
  BY <1>2, <1>3, CutInjective
<1> HIDE DEF b
<1>7. Range(<<b>>) = {b}
  BY DEF Range
<1>8. Range(<<>>) = {} /\ IsInjective(<<>>)
  BY DEF Range, IsInjective
<1>9. <<>> \in Seq(Blocks) /\ <<b>> \in Seq(Blocks)
  BY <1>5
<1>10. table[s] \o (<<>> \o <<b>>) = Append(table[s], b)
  <2>1. <<>> \o <<b>> = <<b>>
    BY <1>9, ConcatEmptySeq
  <2>2. table[s] \o <<b>> = Append(table[s], b)
    BY <1>2, <1>5
  <2> QED
    BY <2>1, <2>2
<1>11. Took(s, <<>>, <<b>>)
  BY <1>1, <1>4, <1>5, <1>6, <1>7, <1>8, <1>9, <1>10 DEF Took
<1> QED
  BY <1>1, <1>11 DEF b

LEMMA GrowStep ==
  ASSUME IInv, NEW s \in Seqs, Grow(s)
  PROVE  IInv'
<1> DEFINE b == Head(free)
<1>1. TypeOK /\ CachedBounds /\ BlocksAfterCreation /\ Accounting /\ Contents
  BY DEF IInv
<1>2. /\ Took(s, <<>>, <<b>>)
      /\ table' = [table EXCEPT ![s] = Append(table[s], b)]
      /\ UNCHANGED <<tok, numPrompt, numCached>>
  BY <1>1, GrowTook DEF Grow, CanAppend
<1> HIDE DEF b
<1>3. table \in [Seqs -> Seq(Blocks)] /\ numCached \in [Seqs -> Nat]
  BY <1>1 DEF TypeOK
<1>4. /\ \A x \in Seqs : x # s => table'[x] = table[x]
      /\ table'[s] = Append(table[s], b)
  BY <1>2, <1>3
<1>5. /\ Len(table[s]) \in Nat
      /\ Len(table'[s]) = Len(table[s]) + 1
      /\ table'[s][Len(table[s]) + 1] = b
      /\ \A i \in 1 .. Len(table[s]) : table'[s][i] = table[s][i]
  BY <1>3, <1>4
<1>6. /\ refCount' \in [Blocks -> Nat] /\ used' \in SUBSET Blocks /\ Accounting'
  BY <1>1, <1>2, TookAccounting
<1>7. /\ chain' \in [Blocks -> Seq(Tokens)]
      /\ hashToBlock' \in [DOMAIN hashToBlock' -> Blocks]
      /\ ChainsWhole' /\ MapSound'
  BY <1>1, <1>2, TookMap DEF Contents
<1>8. table' \in [Seqs -> Seq(Blocks)]
  BY <1>1, <1>2, TookTable
<1>9. TypeOK'
  BY <1>1, <1>2, <1>6, <1>7, <1>8 DEF TypeOK, Took
<1>10. CachedBounds'
  <2>1. BlockSize * (Len(table[s]) + 1) = BlockSize * Len(table[s]) + BlockSize
    BY <1>5, BlockSizeAssumption
  <2>2. BlockSize * Len(table[s]) \in Nat /\ BlockSize \in Nat
    BY <1>5, BlockSizeAssumption
  <2>3. numCached[s] \in Nat /\ numCached[s] <= BlockSize * Len(table[s])
    BY <1>1, <1>3 DEF CachedBounds
  <2>4. numCached[s] <= BlockSize * Len(table'[s])
    BY <1>5, <2>1, <2>2, <2>3
  <2> QED
    BY <1>1, <1>2, <1>4, <2>4 DEF CachedBounds
<1>11. BlocksAfterCreation'
  <2>1. table[s] # <<>>
    BY DEF Grow
  <2> QED
    BY <1>1, <1>2, <1>4, <2>1 DEF BlocksAfterCreation
<1>12. \A x \in Seqs : \A i \in 1 .. Len(table[x]) :
         /\ chain'[table[x][i]] = chain[table[x][i]]
         /\ chain[table[x][i]] = <<>> =>
              refCount'[table[x][i]] = refCount[table[x][i]]
         /\ table'[x][i] = table[x][i]
  <2>1. \A x \in Seqs : \A i \in 1 .. Len(table[x]) : table[x][i] \in Range(table[x])
    BY <1>3 DEF Range
  <2> QED
    BY <1>1, <1>2, <1>4, <1>5, <2>1, TookHeld
<1>13. CachedPrefixCorrect'
  <2> SUFFICES ASSUME NEW x \in Seqs,
                      NEW i \in 1 .. numCached'[x] \div BlockSize
               PROVE  chain'[table'[x][i]] = Prefix(x, i)'
    BY DEF CachedPrefixCorrect
  <2>1. Prefix(x, i)' = Prefix(x, i)
    BY <1>2 DEF Prefix
  <2>2. i \in 1 .. numCached[x] \div BlockSize
    BY <1>2
  <2>3. i \in 1 .. Len(table[x])
    BY <1>1, <2>2, CachedFit
  <2>4. chain[table[x][i]] = Prefix(x, i)
    BY <1>1, <2>2 DEF Contents, CachedPrefixCorrect
  <2> QED
    BY <1>12, <2>1, <2>3, <2>4
<1>14. WritesPrivate'
  <2> SUFFICES ASSUME NEW x \in Seqs,
                      NEW i \in (numCached'[x] \div BlockSize) + 1 .. Len(table'[x])
               PROVE  /\ refCount'[table'[x][i]] = 1
                      /\ chain'[table'[x][i]] = <<>>
    BY DEF WritesPrivate
  <2>1. i \in (numCached[x] \div BlockSize) + 1 .. Len(table'[x])
    BY <1>2
  <2>2. numCached[x] \div BlockSize \in 0 .. Len(table[x]) /\ Len(table[x]) \in Nat
    BY <1>1, CachedFit
  <2>3. CASE i \in 1 .. Len(table[x])
    <3>1. i \in (numCached[x] \div BlockSize) + 1 .. Len(table[x])
      BY <2>1, <2>2, <2>3
    <3>2. refCount[table[x][i]] = 1 /\ chain[table[x][i]] = <<>>
      BY <1>1, <3>1 DEF Contents, WritesPrivate
    <3> QED
      BY <1>12, <2>3, <3>2
  <2>4. CASE ~(i \in 1 .. Len(table[x]))
    <3>1. x = s
      BY <1>4, <2>1, <2>2, <2>4
    <3>2. i = Len(table[s]) + 1
      BY <1>5, <2>1, <2>2, <2>4, <3>1
    <3>3. b \in Range(<<b>>)
      BY DEF Range
    <3> QED
      BY <1>1, <1>2, <1>5, <3>1, <3>2, <3>3, TookFresh
  <2> QED
    BY <2>3, <2>4
<1> QED
  BY <1>6, <1>7, <1>9, <1>10, <1>11, <1>13, <1>14 DEF IInv, Contents
-----------------------------------------------------------------------------
(* Hashing the blocks that became full.                                    *)

LEMMA FilledFit ==
  ASSUME TypeOK, CachedBounds, NEW s \in Seqs, NEW n \in Nat, HasRoom(s, n)
  PROVE  /\ numCached[s] \div BlockSize \in Nat
         /\ (numCached[s] + n) \div BlockSize \in Nat
         /\ numCached[s] \div BlockSize <= (numCached[s] + n) \div BlockSize
         /\ \A i \in 1 .. (numCached[s] + n) \div BlockSize :
              i \in 1 .. Len(table[s]) /\ i * BlockSize <= Len(tok[s])
<1> DEFINE m == numCached[s] + n
           q == m \div BlockSize
           q0 == numCached[s] \div BlockSize
<1>1. /\ numCached[s] \in Nat /\ m \in Nat /\ BlockSize \in Nat \ {0}
      /\ numCached[s] <= m
      /\ Len(table[s]) \in Nat /\ Len(tok[s]) \in Nat
      /\ m <= Len(tok[s]) /\ m <= BlockSize * Len(table[s])
  BY BlockSizeAssumption DEF TypeOK, HasRoom
<1> HIDE DEF m
<1>2. q \in Nat /\ q0 \in Nat /\ q0 * BlockSize \in Nat
      /\ q0 * BlockSize <= numCached[s]
  BY <1>1, DivBounds
<1>3. \A i \in Nat : i <= q <=> i * BlockSize <= m
  BY <1>1, DivGreatest
<1> HIDE DEF q, q0
<1>4. q0 <= q
  BY <1>1, <1>2, <1>3
<1>5. ASSUME NEW i \in 1 .. q
      PROVE  i \in 1 .. Len(table[s]) /\ i * BlockSize <= Len(tok[s])
  <2>1. i \in Nat /\ 1 <= i /\ i * BlockSize \in Nat /\ i * BlockSize <= m
    BY <1>1, <1>2, <1>3
  <2>2. Len(table[s]) < i => Len(table[s]) * BlockSize + BlockSize <= i * BlockSize
    BY <1>1, <2>1, MulStep
  <2>3. Len(table[s]) * BlockSize \in Nat
        /\ BlockSize * Len(table[s]) = Len(table[s]) * BlockSize
    BY <1>1
  <2>4. i <= Len(table[s])
    BY <1>1, <2>1, <2>2, <2>3
  <2> QED
    BY <1>1, <2>1, <2>4
<1> QED
  BY <1>2, <1>4, <1>5 DEF q, q0, m

(* The chained hash of a newly full block is that of the whole prefix:     *)
(* the block it starts from holds the right one.                           *)
LEMMA NewChainIsPrefix ==
  ASSUME TypeOK, CachedBounds, CachedPrefixCorrect, NEW s \in Seqs,
         NEW n \in Nat, HasRoom(s, n), NEW i \in FilledBlocks(s, n)
  PROVE  NewChain(s, i) = Prefix(s, i)
<1> DEFINE start == numCached[s] \div BlockSize
           k == start * BlockSize
           q == tok[s]
<1>1. /\ BlockSize \in Nat \ {0} /\ start \in Nat /\ i \in Nat /\ start < i
      /\ i * BlockSize <= Len(q) /\ q \in Seq(Tokens)
  <2> DEFINE stop == (numCached[s] + n) \div BlockSize
  <2>1. /\ start \in Nat /\ stop \in Nat
        /\ \A j \in 1 .. stop : j * BlockSize <= Len(q)
    BY FilledFit
  <2>2. i \in start + 1 .. stop
    BY DEF FilledBlocks
  <2> HIDE DEF start, stop
  <2>3. i \in Nat /\ start < i /\ i \in 1 .. stop
    BY <2>1, <2>2
  <2> QED
    BY <2>1, <2>3, BlockSizeAssumption DEF TypeOK
<1>2. k \in Nat /\ i * BlockSize \in Nat /\ k <= i * BlockSize
  BY <1>1, MulStep
<1>3. NewChain(s, i) = (IF start > 0 THEN chain[table[s][start]] ELSE <<>>)
                         \o SubSeq(q, k + 1, i * BlockSize)
  BY DEF NewChain
<1>4. (IF start > 0 THEN chain[table[s][start]] ELSE <<>>) = SubSeq(q, 1, k)
  <2>1. CASE start > 0
    <3>1. start \in 1 .. numCached[s] \div BlockSize
      BY <1>1, <2>1
    <3>2. chain[table[s][start]] = Prefix(s, start)
      BY <3>1 DEF CachedPrefixCorrect
    <3> QED
      BY <2>1, <3>2 DEF Prefix
  <2>2. CASE ~(start > 0)
    <3>1. start = 0 /\ k = 0
      BY <1>1, <2>2
    <3>2. SubSeq(q, 1, 0) = <<>>
      BY SubSeqEmpty
    <3> QED
      BY <2>2, <3>1, <3>2
  <2> QED
    BY <2>1, <2>2
<1> HIDE DEF start, k, q
<1>5. SubSeq(q, 1, k) \o SubSeq(q, k + 1, i * BlockSize)
        = SubSeq(q, 1, i * BlockSize)
  <2> DEFINE u == i * BlockSize
  <2>1. 1 \in 1 .. Len(q) + 1 /\ k \in 1 - 1 .. Len(q) /\ u \in k .. Len(q)
    BY <1>1, <1>2
  <2> HIDE DEF u
  <2>2. SubSeq(q, 1, k) \o SubSeq(q, k + 1, u) = SubSeq(q, 1, u)
    BY <1>1, <2>1, ConcatAdjacentSubSeq
  <2> QED
    BY <2>2 DEF u
<1> QED
  BY <1>3, <1>4, <1>5 DEF Prefix, q

(* What hash_blocks does: each newly full block holds its prefix, no other *)
(* block changes, and the map stays sound.                                 *)
LEMMA HashEffect ==
  ASSUME TypeOK, CachedBounds, Accounting, Contents,
         NEW s \in Seqs, NEW n \in Nat, HasRoom(s, n), HashBlocks(s, n)
  PROVE  /\ chain' \in [Blocks -> Seq(Tokens)]
         /\ hashToBlock' \in [DOMAIN hashToBlock' -> Blocks]
         /\ ChainsWhole' /\ MapSound'
         /\ \A i \in FilledBlocks(s, n) : chain'[table[s][i]] = Prefix(s, i)
         /\ \A b \in Blocks : (\A i \in FilledBlocks(s, n) : table[s][i] # b)
                                => chain'[b] = chain[b]
<1> DEFINE filled == FilledBlocks(s, n)
           keys == {Digest(NewChain(s, i)) : i \in filled}
           latest(h) == CHOOSE i \in filled :
                          /\ Digest(NewChain(s, i)) = h
                          /\ \A j \in filled :
                               Digest(NewChain(s, j)) = h => j <= i
           at(b) == CHOOSE i \in filled : table[s][i] = b
<1>1. /\ chain' = [b \in Blocks |->
                     IF \E i \in filled : table[s][i] = b
                     THEN NewChain(s, at(b)) ELSE chain[b]]
      /\ hashToBlock' = [h \in DOMAIN hashToBlock \cup keys |->
                           IF h \in keys THEN table[s][latest(h)]
                           ELSE hashToBlock[h]]
  BY DEF HashBlocks
<1>2. /\ filled \in SUBSET Int /\ IsFiniteSet(filled)
      /\ \A i \in filled : i \in 1 .. Len(table[s]) /\ i \in Nat /\ i > 0
                           /\ i * BlockSize <= Len(tok[s])
                           /\ i \in (numCached[s] \div BlockSize) + 1
                                      .. Len(table[s])
  <2> DEFINE lo == numCached[s] \div BlockSize
             hi == (numCached[s] + n) \div BlockSize
  <2>1. /\ lo \in Nat /\ hi \in Nat
        /\ \A i \in 1 .. hi : i \in 1 .. Len(table[s])
                              /\ i * BlockSize <= Len(tok[s])
    BY FilledFit
  <2>2. filled = lo + 1 .. hi
    BY DEF FilledBlocks
  <2> HIDE DEF lo, hi, filled
  <2>3. IsFiniteSet(lo + 1 .. hi)
    BY <2>1, FS_Interval
  <2>4. ASSUME NEW i \in filled
        PROVE  i \in 1 .. hi /\ i \in Nat /\ i > 0 /\ i >= lo + 1
    BY <2>1, <2>2
  <2>5. Len(table[s]) \in Nat
    BY DEF TypeOK
  <2>6. ASSUME NEW i \in filled
        PROVE  i \in 1 .. Len(table[s]) /\ i * BlockSize <= Len(tok[s])
               /\ i \in lo + 1 .. Len(table[s])
    BY <2>1, <2>4, <2>5
  <2>7. filled \in SUBSET Int
    BY <2>1, <2>2
  <2> QED
    BY <2>2, <2>3, <2>4, <2>6, <2>7 DEF lo
<1>3. \A i \in filled : NewChain(s, i) = Prefix(s, i)
  BY NewChainIsPrefix DEF Contents
<1>4. \A i \in filled : /\ Prefix(s, i) \in Seq(Tokens)
                        /\ Prefix(s, i) \in WholeBlocks
                        /\ Prefix(s, i) # <<>>
  BY <1>2, PrefixProperties
<1>5. /\ table[s] \in Seq(Blocks)
      /\ \A i, j \in 1 .. Len(table[s]) : table[s][i] = table[s][j] => i = j
  <2>1. table[s] \in Seq(Blocks)
    BY DEF TypeOK
  <2>2. IsInjective(table[s])
    BY DEF Accounting, RefExact
  <2> QED
    BY <2>1, <2>2 DEF IsInjective
<1>6. \A i \in filled : table[s][i] \in Blocks /\ chain[table[s][i]] = <<>>
  BY <1>2, <1>5 DEF Contents, WritesPrivate
<1> HIDE DEF filled
<1>7. ASSUME NEW i \in filled PROVE chain'[table[s][i]] = Prefix(s, i)
  <2>1. at(table[s][i]) \in filled /\ table[s][at(table[s][i])] = table[s][i]
    OBVIOUS
  <2>2. at(table[s][i]) = i
    BY <1>2, <1>5, <2>1
  <2> HIDE DEF at
  <2> QED
    BY <1>1, <1>3, <1>6, <2>2
<1>8. \A b \in Blocks : (\A i \in filled : table[s][i] # b) => chain'[b] = chain[b]
  BY <1>1
<1> HIDE DEF at
<1>9. \A b \in Blocks : (\E i \in filled : table[s][i] = b) \/ chain'[b] = chain[b]
  BY <1>8
<1>10. /\ chain \in [Blocks -> Seq(Tokens)] /\ ChainsWhole /\ MapSound
       /\ \A h \in DOMAIN hashToBlock : hashToBlock[h] \in Blocks
  BY DEF TypeOK, Contents
<1>11. chain' \in [Blocks -> Seq(Tokens)]
  <2>1. \A b \in Blocks : chain'[b] \in Seq(Tokens)
    BY <1>4, <1>7, <1>9, <1>10
  <2>2. chain' = [b \in Blocks |-> chain'[b]]
    BY <1>1
  <2> QED
    BY <2>1, <2>2
<1>12. ChainsWhole'
  BY <1>4, <1>7, <1>9, <1>10 DEF ChainsWhole
<1>13. ASSUME NEW h \in keys
       PROVE  latest(h) \in filled /\ Digest(NewChain(s, latest(h))) = h
  <2> DEFINE I == {i \in filled : Digest(NewChain(s, i)) = h}
  <2>1. I \in SUBSET filled /\ I # {}
    OBVIOUS
  <2>2. IsFiniteSet(I) /\ I \in SUBSET Int
    BY <1>2, <2>1, FS_Subset
  <2> HIDE DEF I
  <2>3. \E i \in I : \A j \in I : j <= i
    BY <2>1, <2>2, Greatest
  <2>4. \E i \in filled : /\ Digest(NewChain(s, i)) = h
                          /\ \A j \in filled :
                               Digest(NewChain(s, j)) = h => j <= i
    BY <2>3 DEF I
  <2> QED
    BY <2>4
<1> HIDE DEF latest, keys
<1>14. ASSUME NEW h \in DOMAIN hashToBlock'
       PROVE  /\ hashToBlock'[h] \in Blocks
              /\ chain'[hashToBlock'[h]] # <<>>
              /\ Digest(chain'[hashToBlock'[h]]) = h
  <2>1. CASE h \in keys
    <3>1. hashToBlock'[h] = table[s][latest(h)]
      BY <1>1, <2>1
    <3>2. latest(h) \in filled /\ Digest(NewChain(s, latest(h))) = h
      BY <1>13, <2>1
    <3> QED
      BY <1>3, <1>4, <1>6, <1>7, <3>1, <3>2
  <2>2. CASE h \notin keys
    <3>1. h \in DOMAIN hashToBlock /\ hashToBlock'[h] = hashToBlock[h]
      BY <1>1, <2>2
    <3>2. /\ hashToBlock[h] \in Blocks /\ chain[hashToBlock[h]] # <<>>
          /\ Digest(chain[hashToBlock[h]]) = h
      BY <1>10, <3>1 DEF MapSound
    <3>3. chain'[hashToBlock[h]] = chain[hashToBlock[h]]
      BY <1>6, <1>8, <3>2
    <3> QED
      BY <3>1, <3>2, <3>3
  <2> QED
    BY <2>1, <2>2
<1>15. MapSound'
  BY <1>14 DEF MapSound
<1>16. hashToBlock' \in [DOMAIN hashToBlock' -> Blocks]
  <2>1. hashToBlock' = [h \in DOMAIN hashToBlock' |-> hashToBlock'[h]]
    BY <1>1
  <2> QED
    BY <1>14, <2>1
<1> QED
  BY <1>7, <1>8, <1>11, <1>12, <1>15, <1>16 DEF filled
(* A block in a table other than the newly full ones keeps its contents:   *)
(* the full ones have one holder.                                          *)
LEMMA HashOthers ==
  ASSUME TypeOK, CachedBounds, Accounting, Contents,
         NEW s \in Seqs, NEW n \in Nat, HasRoom(s, n), HashBlocks(s, n),
         NEW x \in Seqs, NEW i \in 1 .. Len(table[x]),
         x # s \/ i \notin FilledBlocks(s, n)
  PROVE  chain'[table[x][i]] = chain[table[x][i]]
<1>1. table[x] \in Seq(Blocks) /\ table[s] \in Seq(Blocks)
  BY DEF TypeOK
<1>2. table[x][i] \in Blocks /\ x \in Holders(table[x][i])
  BY <1>1 DEF Holders, Range
<1>3. ASSUME NEW j \in FilledBlocks(s, n), table[s][j] = table[x][i]
      PROVE  FALSE
  <2> DEFINE lo == numCached[s] \div BlockSize
             hi == (numCached[s] + n) \div BlockSize
  <2>1. lo \in Nat /\ hi \in Nat /\ \A k \in 1 .. hi : k \in 1 .. Len(table[s])
    BY FilledFit
  <2>2. j \in lo + 1 .. hi
    BY DEF FilledBlocks
  <2> HIDE DEF lo, hi
  <2>3. j \in 1 .. hi /\ Len(table[s]) \in Nat
    BY <1>1, <2>1, <2>2
  <2>4. j \in 1 .. Len(table[s]) /\ j \in lo + 1 .. Len(table[s])
    BY <2>1, <2>2, <2>3
  <2>5. refCount[table[s][j]] = 1
    BY <2>4 DEF lo, Contents, WritesPrivate
  <2>6. s \in Holders(table[x][i])
    BY <1>1, <1>3, <2>4 DEF Holders, Range
  <2>7. Holders(table[x][i]) = {s}
    BY <1>2, <1>3, <2>5, <2>6, HoldersCounted DEF Accounting
  <2>8. x = s
    BY <1>2, <2>7
  <2>9. i = j
    BY <1>3, <2>4, <2>8 DEF Accounting, RefExact, IsInjective
  <2> QED
    BY <2>8, <2>9
<1> QED
  BY <1>2, <1>3, HashEffect

(* A token more leaves the whole blocks as they are.                       *)
LEMMA TokensGrow ==
  ASSUME TypeOK, NEW s \in Seqs,
         \/ tok' = tok
         \/ \E t \in Tokens : tok' = [tok EXCEPT ![s] = Append(tok[s], t)]
  PROVE  /\ tok' \in [Seqs -> Seq(Tokens)]
         /\ \A x \in Seqs :
              /\ Len(tok[x]) \in Nat /\ Len(tok'[x]) \in Nat
              /\ Len(tok[x]) <= Len(tok'[x])
              /\ tok'[x] = <<>> => tok[x] = <<>>
              /\ \A i \in Nat : i * BlockSize <= Len(tok[x]) =>
                   Prefix(x, i)' = Prefix(x, i)
<1>1. tok \in [Seqs -> Seq(Tokens)] /\ BlockSize \in Nat
  BY BlockSizeAssumption DEF TypeOK
<1>2. CASE tok' = tok
  BY <1>1, <1>2 DEF Prefix
<1>3. ASSUME NEW t \in Tokens, tok' = [tok EXCEPT ![s] = Append(tok[s], t)]
      PROVE  /\ tok' \in [Seqs -> Seq(Tokens)]
             /\ \A x \in Seqs :
                  /\ Len(tok[x]) \in Nat /\ Len(tok'[x]) \in Nat
                  /\ Len(tok[x]) <= Len(tok'[x])
                  /\ tok'[x] = <<>> => tok[x] = <<>>
                  /\ \A i \in Nat : i * BlockSize <= Len(tok[x]) =>
                       Prefix(x, i)' = Prefix(x, i)
  <2>1. /\ tok' \in [Seqs -> Seq(Tokens)]
        /\ tok'[s] = Append(tok[s], t)
        /\ \A x \in Seqs : x # s => tok'[x] = tok[x]
    BY <1>1, <1>3
  <2>2. ASSUME NEW x \in Seqs
        PROVE  /\ Len(tok[x]) \in Nat /\ Len(tok'[x]) \in Nat
               /\ Len(tok[x]) <= Len(tok'[x])
               /\ tok'[x] = <<>> => tok[x] = <<>>
               /\ \A i \in 1 .. Len(tok[x]) : tok'[x][i] = tok[x][i]
    <3>1. tok[x] \in Seq(Tokens) /\ Len(tok[x]) \in Nat
      BY <1>1
    <3>2. CASE x # s
      BY <2>1, <3>1, <3>2
    <3>3. CASE x = s
      <4>1. /\ Len(Append(tok[x], t)) = Len(tok[x]) + 1
            /\ Append(tok[x], t) # <<>>
            /\ \A i \in 1 .. Len(tok[x]) : Append(tok[x], t)[i] = tok[x][i]
        BY <3>1, AppendProperties
      <4>2. tok'[x] = Append(tok[x], t)
        BY <2>1, <3>3
      <4> QED
        BY <3>1, <4>1, <4>2
    <3> QED
      BY <3>2, <3>3
  <2>3. ASSUME NEW x \in Seqs, NEW i \in Nat, i * BlockSize <= Len(tok[x])
        PROVE  Prefix(x, i)' = Prefix(x, i)
    <3> DEFINE k == i * BlockSize
    <3>1. tok[x] \in Seq(Tokens) /\ tok'[x] \in Seq(Tokens)
          /\ k \in 0 .. Len(tok[x]) /\ k \in 0 .. Len(tok'[x])
      BY <1>1, <2>1, <2>2, <2>3
    <3> HIDE DEF k
    <3>2. /\ SubSeq(tok[x], 1, k) \in Seq(Tokens)
          /\ Len(SubSeq(tok[x], 1, k)) = k
          /\ \A j \in 1 .. k : SubSeq(tok[x], 1, k)[j] = tok[x][j]
      BY <3>1, Cut
    <3>3. /\ SubSeq(tok'[x], 1, k) \in Seq(Tokens)
          /\ Len(SubSeq(tok'[x], 1, k)) = k
          /\ \A j \in 1 .. k : SubSeq(tok'[x], 1, k)[j] = tok'[x][j]
      BY <3>1, Cut
    <3>4. \A j \in 1 .. k : j \in 1 .. Len(tok[x])
      BY <2>2, <3>1
    <3>5. \A j \in 1 .. k : SubSeq(tok[x], 1, k)[j] = SubSeq(tok'[x], 1, k)[j]
      BY <2>2, <3>2, <3>3, <3>4
    <3>6. SubSeq(tok'[x], 1, k) = SubSeq(tok[x], 1, k)
      BY <3>2, <3>3, <3>5, SeqEqual
    <3> QED
      BY <3>6 DEF Prefix, k
  <2> QED
    BY <2>1, <2>2, <2>3
<1> QED
  BY <1>2, <1>3

(* Computing n tokens, with or without a token sampled, for a request that *)
(* keeps its blocks.                                                       *)
LEMMA ComputeStep ==
  ASSUME IInv, NEW s \in Seqs, NEW n \in Nat, HasRoom(s, n), HashBlocks(s, n),
         numCached' = [numCached EXCEPT ![s] = numCached[s] + n],
         UNCHANGED <<refCount, free, used, numPrompt, table>>,
         \/ tok' = tok
         \/ \E t \in Tokens : tok' = [tok EXCEPT ![s] = Append(tok[s], t)]
  PROVE  IInv'
<1>1. TypeOK /\ CachedBounds /\ BlocksAfterCreation /\ Accounting /\ Contents
  BY DEF IInv
<1> DEFINE filled == FilledBlocks(s, n)
           lo == numCached[s] \div BlockSize
           hi == (numCached[s] + n) \div BlockSize
<1>2. /\ chain' \in [Blocks -> Seq(Tokens)]
      /\ hashToBlock' \in [DOMAIN hashToBlock' -> Blocks]
      /\ ChainsWhole' /\ MapSound'
      /\ \A i \in filled : chain'[table[s][i]] = Prefix(s, i)
  BY <1>1, HashEffect
<1>3. /\ tok' \in [Seqs -> Seq(Tokens)]
      /\ \A x \in Seqs :
           /\ Len(tok[x]) \in Nat /\ Len(tok'[x]) \in Nat
           /\ Len(tok[x]) <= Len(tok'[x])
           /\ tok'[x] = <<>> => tok[x] = <<>>
           /\ \A i \in Nat : i * BlockSize <= Len(tok[x]) =>
                Prefix(x, i)' = Prefix(x, i)
  BY <1>1, TokensGrow
<1>4. /\ numCached \in [Seqs -> Nat]
      /\ numCached'[s] = numCached[s] + n
      /\ \A x \in Seqs : x # s => numCached'[x] = numCached[x]
      /\ numCached' \in [Seqs -> Nat]
  <2>1. numCached \in [Seqs -> Nat]
    BY <1>1 DEF TypeOK
  <2> QED
    BY <2>1
<1>5. /\ lo \in Nat /\ hi \in Nat /\ lo <= hi /\ filled = lo + 1 .. hi
      /\ \A i \in 1 .. hi : i \in 1 .. Len(table[s])
                            /\ i * BlockSize <= Len(tok[s])
  BY <1>1, FilledFit DEF FilledBlocks
<1>6. \A x \in Seqs : \A i \in 1 .. Len(table[x]) :
        x # s \/ i \notin filled => chain'[table[x][i]] = chain[table[x][i]]
  BY <1>1, HashOthers
<1> HIDE DEF filled
<1>7. TypeOK'
  BY <1>1, <1>2, <1>3, <1>4 DEF TypeOK
<1>8. CachedBounds'
  <2> SUFFICES ASSUME NEW x \in Seqs
               PROVE  /\ numCached'[x] <= Len(tok'[x])
                      /\ numCached'[x] <= BlockSize * Len(table[x])
    BY DEF CachedBounds
  <2>1. /\ numCached'[x] \in Nat /\ numCached'[x] <= Len(tok[x])
        /\ numCached'[x] <= BlockSize * Len(table[x])
    BY <1>1, <1>4 DEF CachedBounds, HasRoom
  <2> QED
    BY <1>3, <2>1
<1>9. BlocksAfterCreation'
  BY <1>1, <1>3 DEF BlocksAfterCreation
<1>10. Accounting'
  BY <1>1 DEF Accounting, FreeExact, RefExact, Holders
<1>11. CachedPrefixCorrect'
  <2> SUFFICES ASSUME NEW x \in Seqs,
                      NEW i \in 1 .. numCached'[x] \div BlockSize
               PROVE  chain'[table[x][i]] = Prefix(x, i)'
    BY DEF CachedPrefixCorrect
  <2>1. CASE x = s /\ i \in filled
    <3>1. i \in 1 .. hi /\ i \in Nat
      BY <1>5, <2>1
    <3>2. Prefix(s, i)' = Prefix(s, i)
      BY <1>3, <1>5, <3>1
    <3> QED
      BY <1>2, <2>1, <3>2
  <2>2. CASE x = s /\ i \notin filled
    <3>1. i \in 1 .. hi
      BY <1>4, <2>2
    <3>2. i \in 1 .. lo /\ i \in Nat
      BY <1>5, <2>2, <3>1
    <3>3. chain[table[s][i]] = Prefix(s, i)
      BY <1>1, <3>2 DEF Contents, CachedPrefixCorrect
    <3>4. Prefix(s, i)' = Prefix(s, i)
      BY <1>3, <1>5, <3>1, <3>2
    <3>5. chain'[table[s][i]] = chain[table[s][i]]
      BY <1>5, <1>6, <2>2, <3>1
    <3> QED
      BY <2>2, <3>3, <3>4, <3>5
  <2>3. CASE x # s
    <3>1. i \in 1 .. numCached[x] \div BlockSize
      BY <1>4, <2>3
    <3>2. i \in 1 .. Len(table[x]) /\ i \in Nat /\ i * BlockSize <= Len(tok[x])
      <4>1. /\ numCached[x] \div BlockSize \in 0 .. Len(table[x])
            /\ Len(table[x]) \in Nat
            /\ i \in Nat /\ i * BlockSize <= Len(tok[x])
        BY <1>1, <3>1, CachedFit
      <4> QED
        BY <3>1, <4>1
    <3>3. chain[table[x][i]] = Prefix(x, i)
      BY <1>1, <3>1 DEF Contents, CachedPrefixCorrect
    <3>4. Prefix(x, i)' = Prefix(x, i)
      BY <1>3, <3>2
    <3>5. chain'[table[x][i]] = chain[table[x][i]]
      BY <1>6, <2>3, <3>2
    <3> QED
      BY <3>3, <3>4, <3>5
  <2> QED
    BY <2>1, <2>2, <2>3
<1>12. WritesPrivate'
  <2> SUFFICES ASSUME NEW x \in Seqs,
                      NEW i \in (numCached'[x] \div BlockSize) + 1 .. Len(table[x])
               PROVE  /\ refCount[table[x][i]] = 1
                      /\ chain'[table[x][i]] = <<>>
    BY DEF WritesPrivate
  <2>1. Len(table[x]) \in Nat /\ Len(table[s]) \in Nat
    BY <1>1 DEF TypeOK
  <2>2. CASE x = s
    <3>1. i \in hi + 1 .. Len(table[s])
      BY <1>4, <2>2
    <3>2. i \notin filled /\ i \in lo + 1 .. Len(table[s]) /\ i \in 1 .. Len(table[s])
      BY <1>5, <2>1, <3>1
    <3>3. refCount[table[s][i]] = 1 /\ chain[table[s][i]] = <<>>
      BY <1>1, <3>2 DEF Contents, WritesPrivate
    <3>4. chain'[table[s][i]] = chain[table[s][i]]
      BY <1>6, <3>2
    <3> QED
      BY <2>2, <3>3, <3>4
  <2>3. CASE x # s
    <3>1. i \in (numCached[x] \div BlockSize) + 1 .. Len(table[x])
      BY <1>4, <2>3
    <3>2. i \in 1 .. Len(table[x])
      <4>1. numCached[x] \div BlockSize \in 0 .. Len(table[x])
        BY <1>1, CachedFit
      <4> QED
        BY <2>1, <3>1, <4>1
    <3>3. refCount[table[x][i]] = 1 /\ chain[table[x][i]] = <<>>
      BY <1>1, <3>1 DEF Contents, WritesPrivate
    <3>4. chain'[table[x][i]] = chain[table[x][i]]
      BY <1>6, <2>3, <3>2
    <3> QED
      BY <3>3, <3>4
  <2> QED
    BY <2>2, <2>3
<1> QED
  BY <1>2, <1>7, <1>8, <1>9, <1>10, <1>11, <1>12 DEF IInv, Contents
-----------------------------------------------------------------------------
(* Giving the blocks up.                                                   *)

(* A block with one holder is freed, the others lose a holder; what the    *)
(* other requests hold stays as it is.                                     *)
LEMMA DeallocateEffect ==
  ASSUME TypeOK, Accounting, NEW s \in Seqs, Deallocate(s)
  PROVE  /\ refCount' \in [Blocks -> Nat] /\ used' \in SUBSET Blocks
         /\ free' \in Seq(Blocks) /\ table' \in [Seqs -> Seq(Blocks)]
         /\ Accounting'
         /\ table'[s] = <<>>
         /\ \A x \in Seqs : x # s =>
              /\ table'[x] = table[x]
              /\ \A b \in Range(table[x]) :
                   refCount[b] = 1 => refCount'[b] = 1
<1> DEFINE held == Range(table[s])
           freed == FreedBlocks(s)
           back == Keep(Reverse(table[s]), freed)
<1>1. /\ refCount' = [b \in Blocks |-> IF b \in held THEN refCount[b] - 1
                                        ELSE refCount[b]]
      /\ used' = used \ freed
      /\ free' = free \o back
      /\ table' = [table EXCEPT ![s] = <<>>]
  BY DEF Deallocate
<1>2. freed = {b \in held : refCount[b] = 1}
  BY DEF FreedBlocks
<1>3. /\ table \in [Seqs -> Seq(Blocks)] /\ table[s] \in Seq(Blocks)
      /\ \A x \in Seqs : IsInjective(table[x])
      /\ free \in Seq(Blocks) /\ IsInjective(free) /\ Range(free) = Blocks \ used
      /\ used \subseteq Blocks /\ refCount \in [Blocks -> Nat]
      /\ \A b \in Blocks : refCount[b] = Cardinality(Holders(b))
      /\ used = {b \in Blocks : refCount[b] > 0}
  BY DEF TypeOK, Accounting, FreeExact, RefExact
<1>4. \A b \in held : b \in Blocks /\ b \in used /\ s \in Holders(b)
  BY HeldAreUsed DEF Accounting
<1>5. /\ Reverse(table[s]) \in Seq(Blocks) /\ Range(Reverse(table[s])) = held
      /\ IsInjective(Reverse(table[s]))
  BY <1>3, ReverseProperties
<1> HIDE DEF held, freed
<1>6. /\ back \in Seq(Blocks) /\ Range(back) = held \cap freed
      /\ IsInjective(back)
  BY <1>5, KeepProperties
<1> HIDE DEF back
<1>7. Range(back) = freed /\ freed \subseteq used
  BY <1>2, <1>4, <1>6
<1>8. /\ free \o back \in Seq(Blocks)
      /\ Range(free \o back) = Range(free) \cup freed
  BY <1>3, <1>6, <1>7, ConcatRange
<1>9. IsInjective(free \o back)
  <2>1. Range(free) \cap Range(back) = {}
    BY <1>3, <1>7
  <2> QED
    BY <1>3, <1>6, <2>1, ConcatInjective
<1>10. FreeExact'
  BY <1>1, <1>3, <1>7, <1>8, <1>9 DEF FreeExact
<1>11. \A b \in Blocks : refCount[b] \in Nat /\ (b \in held => refCount[b] >= 1)
  BY <1>3, <1>4
<1>12. /\ \A b \in Blocks : refCount'[b] = IF b \in held THEN refCount[b] - 1
                                           ELSE refCount[b]
       /\ refCount' \in [Blocks -> Nat]
  <2>1. \A b \in Blocks : refCount'[b] = IF b \in held THEN refCount[b] - 1
                                         ELSE refCount[b]
    BY <1>1
  <2>2. \A b \in Blocks : refCount'[b] \in Nat
    BY <1>11, <2>1
  <2>3. refCount' = [b \in Blocks |-> refCount'[b]]
    BY <1>1
  <2> QED
    BY <2>1, <2>2, <2>3
<1>13. /\ table'[s] = <<>>
       /\ \A x \in Seqs : x # s => table'[x] = table[x]
       /\ table' \in [Seqs -> Seq(Blocks)]
  BY <1>1, <1>3
<1>14. ASSUME NEW b \in Blocks PROVE refCount'[b] = Cardinality(Holders(b)')
  <2>1. Range(<<>>) = {}
    BY DEF Range
  <2>2. Holders(b)' = Holders(b) \ {s}
    BY <1>13, <2>1 DEF Holders
  <2>3. s \in Holders(b) <=> b \in held
    BY DEF Holders, held
  <2>4. IsFiniteSet(Holders(b))
    BY HoldersFinite
  <2>5. Cardinality(Holders(b) \ {s}) = IF s \in Holders(b)
                                        THEN Cardinality(Holders(b)) - 1
                                        ELSE Cardinality(Holders(b))
    BY <2>4, FS_RemoveElement
  <2> QED
    BY <1>3, <1>12, <2>2, <2>3, <2>5
<1>15. used' = {b \in Blocks : refCount'[b] > 0}
  BY <1>1, <1>2, <1>3, <1>4, <1>11, <1>12
<1>16. \A x \in Seqs : IsInjective(table'[x])
  <2>1. IsInjective(<<>>)
    BY DEF IsInjective
  <2> QED
    BY <1>3, <1>13, <2>1
<1>17. RefExact'
  BY <1>14, <1>15, <1>16 DEF RefExact
<1>18. ASSUME NEW x \in Seqs, x # s, NEW b \in Range(table[x]), refCount[b] = 1
       PROVE  refCount'[b] = 1
  <2>1. b \in Blocks /\ x \in Holders(b)
    BY <1>18, HeldAreUsed DEF Accounting
  <2>2. Holders(b) = {x}
    BY <1>18, <2>1, HoldersCounted DEF Accounting
  <2>3. b \notin held
    BY <1>4, <1>18, <2>2
  <2> QED
    BY <1>12, <1>18, <2>1, <2>3
<1> QED
  BY <1>1, <1>3, <1>8, <1>10, <1>12, <1>13, <1>17, <1>18 DEF Accounting

(* Giving the blocks up, with or without the last tokens computed first:   *)
(* hashing those leaves the blocks of the other requests as they are.      *)
LEMMA ReleaseKeeps ==
  ASSUME IInv, NEW s \in Seqs, Deallocate(s), numPrompt' = numPrompt,
         chain' \in [Blocks -> Seq(Tokens)],
         hashToBlock' \in [DOMAIN hashToBlock' -> Blocks],
         ChainsWhole', MapSound',
         \A x \in Seqs : \A i \in 1 .. Len(table[x]) :
           x # s => chain'[table[x][i]] = chain[table[x][i]],
         \/ tok' = tok
         \/ \E t \in Tokens : tok' = [tok EXCEPT ![s] = Append(tok[s], t)]
  PROVE  IInv'
<1>1. TypeOK /\ CachedBounds /\ BlocksAfterCreation /\ Accounting /\ Contents
  BY DEF IInv
<1>2. /\ refCount' \in [Blocks -> Nat] /\ used' \in SUBSET Blocks
      /\ free' \in Seq(Blocks) /\ table' \in [Seqs -> Seq(Blocks)]
      /\ Accounting'
      /\ table'[s] = <<>>
      /\ \A x \in Seqs : x # s =>
           /\ table'[x] = table[x]
           /\ \A b \in Range(table[x]) : refCount[b] = 1 => refCount'[b] = 1
  BY <1>1, DeallocateEffect
<1>3. /\ tok' \in [Seqs -> Seq(Tokens)]
      /\ \A x \in Seqs :
           /\ Len(tok[x]) \in Nat /\ Len(tok'[x]) \in Nat
           /\ Len(tok[x]) <= Len(tok'[x])
           /\ tok'[x] = <<>> => tok[x] = <<>>
           /\ \A i \in Nat : i * BlockSize <= Len(tok[x]) =>
                Prefix(x, i)' = Prefix(x, i)
  BY <1>1, TokensGrow
<1>4. /\ numCached' = [numCached EXCEPT ![s] = 0]
      /\ numCached \in [Seqs -> Nat] /\ table \in [Seqs -> Seq(Blocks)]
  BY <1>1 DEF Deallocate, TypeOK
<1>5. /\ numCached' \in [Seqs -> Nat] /\ numCached'[s] = 0
      /\ \A x \in Seqs : x # s => numCached'[x] = numCached[x]
  BY <1>4
<1>6. 0 \div BlockSize = 0 /\ Len(<<>>) = 0
  BY BlockSizeAssumption, DivUnique
<1>7. TypeOK'
  BY <1>1, <1>2, <1>3, <1>5 DEF TypeOK
<1>8. CachedBounds'
  <2> SUFFICES ASSUME NEW x \in Seqs
               PROVE  /\ numCached'[x] <= Len(tok'[x])
                      /\ numCached'[x] <= BlockSize * Len(table'[x])
    BY DEF CachedBounds
  <2>1. CASE x = s
    <3>1. BlockSize * 0 = 0
      BY BlockSizeAssumption
    <3> QED
      BY <1>2, <1>3, <1>5, <1>6, <2>1, <3>1
  <2>2. CASE x # s
    <3>1. numCached[x] \in Nat /\ numCached[x] <= Len(tok[x])
          /\ numCached[x] <= BlockSize * Len(table[x])
      BY <1>1, <1>4 DEF CachedBounds
    <3> QED
      BY <1>2, <1>3, <1>5, <2>2, <3>1
  <2> QED
    BY <2>1, <2>2
<1>9. BlocksAfterCreation'
  BY <1>1, <1>2, <1>3 DEF BlocksAfterCreation
<1>10. CachedPrefixCorrect'
  <2> SUFFICES ASSUME NEW x \in Seqs,
                      NEW i \in 1 .. numCached'[x] \div BlockSize
               PROVE  chain'[table'[x][i]] = Prefix(x, i)'
    BY DEF CachedPrefixCorrect
  <2>1. x # s
    BY <1>5, <1>6
  <2>2. i \in 1 .. numCached[x] \div BlockSize
    BY <1>5, <2>1
  <2>3. /\ numCached[x] \div BlockSize \in 0 .. Len(table[x])
        /\ Len(table[x]) \in Nat /\ i \in Nat /\ i * BlockSize <= Len(tok[x])
    BY <1>1, <2>2, CachedFit
  <2>4. i \in 1 .. Len(table[x])
    BY <2>2, <2>3
  <2>5. chain[table[x][i]] = Prefix(x, i)
    BY <1>1, <2>2 DEF Contents, CachedPrefixCorrect
  <2>6. Prefix(x, i)' = Prefix(x, i)
    BY <1>3, <2>3
  <2> QED
    BY SMTT(30), <1>2, <2>1, <2>4, <2>5, <2>6
<1>11. WritesPrivate'
  <2> SUFFICES ASSUME NEW x \in Seqs,
                      NEW i \in (numCached'[x] \div BlockSize) + 1 .. Len(table'[x])
               PROVE  /\ refCount'[table'[x][i]] = 1
                      /\ chain'[table'[x][i]] = <<>>
    BY DEF WritesPrivate
  <2>1. x # s
    BY <1>2, <1>5, <1>6
  <2>2. i \in (numCached[x] \div BlockSize) + 1 .. Len(table[x])
    BY <1>2, <1>5, <2>1
  <2>3. /\ numCached[x] \div BlockSize \in 0 .. Len(table[x])
        /\ Len(table[x]) \in Nat
    BY <1>1, CachedFit
  <2>4. i \in 1 .. Len(table[x])
    BY <2>2, <2>3
  <2>5. refCount[table[x][i]] = 1 /\ chain[table[x][i]] = <<>>
    BY <1>1, <2>2 DEF Contents, WritesPrivate
  <2>6. table[x][i] \in Range(table[x])
    BY <1>4, <2>4 DEF Range
  <2> QED
    BY SMTT(30), <1>2, <2>1, <2>4, <2>5, <2>6
<1> QED
  BY <1>2, <1>7, <1>8, <1>9, <1>10, <1>11 DEF IInv, Contents

-----------------------------------------------------------------------------
(* The invariant.                                                          *)

LEMMA InitIInv ==
  ASSUME Init
  PROVE  IInv
<1>1. TypeOK
  <2>1. [i \in 1 .. NumBlocks |-> i - 1] \in Seq(Blocks)
    <3>1. \A i \in 1 .. NumBlocks : i - 1 \in Blocks
      BY NumBlocksAssumption DEF Blocks
    <3>2. [i \in 1 .. NumBlocks |-> i - 1] \in [1 .. NumBlocks -> Blocks]
      BY <3>1
    <3> QED
      BY <3>2, NumBlocksAssumption
  <2>2. <<>> \in Seq(Tokens) /\ <<>> \in Seq(Blocks)
    OBVIOUS
  <2> QED
    BY <2>1, <2>2 DEF Init, TypeOK
<1>2. \A s \in Seqs : /\ Range(table[s]) = {} /\ IsInjective(table[s])
                      /\ Len(table[s]) = 0 /\ numCached[s] = 0
                      /\ tok[s] = <<>> /\ Len(tok[s]) = 0
  BY DEF Init, Range, IsInjective
<1>3. 0 \div BlockSize = 0 /\ BlockSize * 0 = 0
  BY BlockSizeAssumption, DivUnique
<1>4. CachedBounds /\ BlocksAfterCreation
  <2>1. CachedBounds
    BY <1>2, <1>3 DEF CachedBounds
  <2>2. BlocksAfterCreation
    BY DEF BlocksAfterCreation, Init
  <2> QED
    BY <2>1, <2>2
<1>5. FreeExact
  <2>1. free = [i \in 1 .. NumBlocks |-> i - 1] /\ used = {}
    BY DEF Init
  <2>2. IsInjective(free)
    BY <2>1, NumBlocksAssumption DEF IsInjective
  <2>3. \A i \in 1 .. NumBlocks : i - 1 \in Blocks
    BY NumBlocksAssumption DEF Blocks
  <2>4. \A b \in Blocks : b + 1 \in 1 .. NumBlocks /\ free[b + 1] = b
    BY <2>1, NumBlocksAssumption DEF Blocks
  <2>5. Range(free) = Blocks
    BY <2>1, <2>3, <2>4 DEF Range
  <2> QED
    BY <2>1, <2>2, <2>5 DEF FreeExact
<1>6. RefExact
  <2>1. \A b \in Blocks : Holders(b) = {}
    BY <1>2 DEF Holders
  <2>2. \A b \in Blocks : refCount[b] = 0
    BY DEF Init
  <2>3. \A b \in Blocks : refCount[b] = Cardinality(Holders(b))
    BY <2>1, <2>2, FS_EmptySet
  <2>4. used = {b \in Blocks : refCount[b] > 0}
    BY <2>2 DEF Init
  <2> QED
    BY <1>2, <2>3, <2>4 DEF RefExact
<1>7. MapSound
  BY DEF Init, MapSound
<1>8. ChainsWhole
  <2>1. Len(<<>>) = 0 * BlockSize
    BY BlockSizeAssumption
  <2>2. <<>> \in WholeBlocks
    BY <2>1 DEF WholeBlocks
  <2> QED
    BY <2>2 DEF Init, ChainsWhole
<1>9. CachedPrefixCorrect /\ WritesPrivate
  BY <1>2, <1>3 DEF CachedPrefixCorrect, WritesPrivate
<1> QED
  BY <1>1, <1>4, <1>5, <1>6, <1>7, <1>8, <1>9 DEF IInv, Accounting, Contents

LEMMA NextIInv ==
  ASSUME DigestSound, IInv, [Next]_vars
  PROVE  IInv'
<1>1. ASSUME NEW s \in Seqs, NEW p \in Prompts, Create(s, p) PROVE IInv'
  BY <1>1, CreateStep
<1>2. ASSUME NEW s \in Seqs, Admit(s) PROVE IInv'
  BY <1>2, AdmitStep
<1>3. ASSUME NEW s \in Seqs, RejectAdmission(s) PROVE IInv'
  BY <1>3, RejectStep
<1>4. ASSUME NEW s \in Seqs, Grow(s) PROVE IInv'
  BY <1>4, GrowStep
<1>5. ASSUME NEW s \in Seqs, NEW n \in 1 .. Len(tok[s]), ComputePart(s, n)
      PROVE  IInv'
  <2>1. n \in Nat
    OBVIOUS
  <2> QED
    BY <1>5, <2>1, ComputeStep DEF ComputePart, ComputeChunk
<1>6. ASSUME NEW s \in Seqs, NEW n \in 1 .. Len(tok[s]), NEW t \in Tokens,
             ComputeAll(s, n, t)
      PROVE  IInv'
  <2>1. n \in Nat
    OBVIOUS
  <2> QED
    BY <1>6, <2>1, ComputeStep DEF ComputeAll, ComputeToken
<1>7. ASSUME NEW s \in Seqs, NEW n \in 1 .. Len(tok[s]), NEW t \in Tokens,
             ComputeFinal(s, n, t)
      PROVE  IInv'
  <2>1. n \in Nat /\ HasRoom(s, n) /\ HashBlocks(s, n) /\ Deallocate(s)
        /\ tok' = [tok EXCEPT ![s] = Append(tok[s], t)]
        /\ numPrompt' = numPrompt
    BY <1>7 DEF ComputeFinal, ComputeLast
  <2>2. /\ chain' \in [Blocks -> Seq(Tokens)]
        /\ hashToBlock' \in [DOMAIN hashToBlock' -> Blocks]
        /\ ChainsWhole' /\ MapSound'
    BY <2>1, HashEffect DEF IInv
  <2>3. \A x \in Seqs : \A i \in 1 .. Len(table[x]) :
          x # s => chain'[table[x][i]] = chain[table[x][i]]
    BY <2>1, HashOthers DEF IInv
  <2> QED
    BY <2>1, <2>2, <2>3, ReleaseKeeps
<1>8. ASSUME NEW s \in Seqs, Release(s) PROVE IInv'
  <2>1. Deallocate(s) /\ UNCHANGED <<chain, hashToBlock, tok, numPrompt>>
    BY <1>8 DEF Release
  <2>2. /\ chain' \in [Blocks -> Seq(Tokens)]
        /\ hashToBlock' \in [DOMAIN hashToBlock' -> Blocks]
        /\ ChainsWhole' /\ MapSound'
    BY <2>1 DEF IInv, TypeOK, Contents, ChainsWhole, MapSound
  <2> QED
    BY <2>1, <2>2, ReleaseKeeps
<1>9. CASE UNCHANGED vars
  BY SMTT(30), <1>9 DEF vars, IInv, TypeOK, CachedBounds, BlocksAfterCreation, Accounting,
              FreeExact, RefExact, Holders, Contents, MapSound, ChainsWhole,
              CachedPrefixCorrect, WritesPrivate, Prefix
<1> QED
  BY <1>1, <1>2, <1>3, <1>4, <1>5, <1>6, <1>7, <1>8, <1>9 DEF Next
-----------------------------------------------------------------------------
(* What follows from it.                                                   *)

LEMMA Invariance == ASSUME DigestSound PROVE Spec => []IInv
<1>1. Init => IInv
  BY InitIInv
<1>2. IInv /\ [Next]_vars => IInv'
  BY NextIInv
<1> QED
  BY <1>1, <1>2, PTL DEF Spec

(* Every variable keeps its type: no count goes below zero, and deque, map *)
(* and tables never name anything but blocks.                              *)
THEOREM TypeCorrect == ASSUME DigestSound PROVE Spec => []TypeOK
<1>1. IInv => TypeOK
  BY DEF IInv
<1> QED
  BY <1>1, Invariance, PTL

(* No more tokens count as cached than a request has or its table holds.   *)
THEOREM CachedBoundsHolds == ASSUME DigestSound PROVE Spec => []CachedBounds
<1>1. IInv => CachedBounds
  BY DEF IInv
<1> QED
  BY <1>1, Invariance, PTL

(* No block is lost or free twice.                                         *)
THEOREM FreeExactHolds == ASSUME DigestSound PROVE Spec => []FreeExact
<1>1. IInv => FreeExact
  BY DEF IInv, Accounting
<1> QED
  BY <1>1, Invariance, PTL

(* ref_count counts the tables a block is in.                              *)
THEOREM RefExactHolds == ASSUME DigestSound PROVE Spec => []RefExact
<1>1. IInv => RefExact
  BY DEF IInv, Accounting
<1> QED
  BY <1>1, Invariance, PTL

(* hash_to_block_id never dangles.                                         *)
THEOREM MapSoundHolds == ASSUME DigestSound PROVE Spec => []MapSound
<1>1. IInv => MapSound
  BY DEF IInv, Contents
<1> QED
  BY <1>1, Invariance, PTL

(* What a request counts as cached was computed for its own tokens.        *)
THEOREM CachedPrefixHolds ==
  ASSUME DigestSound PROVE Spec => []CachedPrefixCorrect
<1>1. IInv => CachedPrefixCorrect
  BY DEF IInv, Contents
<1> QED
  BY <1>1, Invariance, PTL

(* A request writes only into blocks that are its own and not cached.      *)
THEOREM WritesPrivateHolds == ASSUME DigestSound PROVE Spec => []WritesPrivate
<1>1. IInv => WritesPrivate
  BY DEF IInv, Contents
<1> QED
  BY <1>1, Invariance, PTL

(* allocate never pops from an empty deque once can_allocate has agreed.   *)
THEOREM AdmissionHolds == ASSUME DigestSound PROVE Spec => []AdmissionSuffices
<1>1. IInv => AdmissionSuffices
  <2> SUFFICES ASSUME IInv, NEW s \in Seqs, Unfinished(s),
                      NEW c \in 0 .. num_blocks(s) - 1,
                      CachedBlocks(s, c), CanAllocate(s, c)
               PROVE  Cardinality(Range(free) \ Range(HitBlocks(s, c)))
                        >= allocation_target(s) - c
    BY DEF AdmissionSuffices
  <2>1. TypeOK /\ FreeExact /\ MapSound /\ ChainsWhole
    BY DEF IInv, Accounting, Contents
  <2>2. c \in Nat /\ allocation_target(s) \in Nat
    BY <2>1, TargetProperties
  <2>3. HitBlocks(s, c) \in Seq(Blocks) /\ Len(HitBlocks(s, c)) = c
    BY <2>1, HitsCorrect DEF CachedBlocks
  <2> QED
    BY <2>1, <2>2, <2>3, EnoughBlocks
<1> QED
  BY <1>1, Invariance, PTL

(* A block in use keeps its contents.                                      *)
THEOREM ContentsStableHolds == ASSUME DigestSound PROVE Spec => ContentsStable
<1>1. ASSUME IInv, NEW s \in Seqs, NEW hits, NEW fresh, Took(s, hits, fresh)
      PROVE  UsedContentsStable
  <2>1. Range(fresh) \cap used = {} /\ used \subseteq Blocks
    BY <1>1 DEF Took, IInv, TypeOK, Accounting, FreeExact
  <2> QED
    BY <1>1, <2>1 DEF Took, ChainWithout, UsedContentsStable
<1>2. ASSUME IInv, NEW s \in Seqs, NEW n \in Nat, HasRoom(s, n), HashBlocks(s, n)
      PROVE  UsedContentsStable
  <2> SUFFICES ASSUME NEW b \in used, chain[b] # <<>>
               PROVE  chain'[b] = chain[b]
    BY DEF UsedContentsStable
  <2>1. b \in Blocks
    BY <1>2 DEF IInv, TypeOK
  <2>2. ASSUME NEW i \in FilledBlocks(s, n) PROVE table[s][i] # b
    <3> DEFINE lo == numCached[s] \div BlockSize
               hi == (numCached[s] + n) \div BlockSize
    <3>1. lo \in Nat /\ hi \in Nat /\ \A k \in 1 .. hi : k \in 1 .. Len(table[s])
      BY <1>2, FilledFit DEF IInv
    <3>2. i \in lo + 1 .. hi
      BY DEF FilledBlocks
    <3>3. Len(table[s]) \in Nat
      BY <1>2 DEF IInv, TypeOK
    <3> HIDE DEF lo, hi
    <3>4. i \in lo + 1 .. Len(table[s])
      BY <3>1, <3>2, <3>3
    <3> QED
      BY <1>2, <3>4 DEF lo, IInv, Contents, WritesPrivate
  <2> QED
    BY <1>2, <2>1, <2>2, HashEffect DEF IInv
<1>3. ASSUME DigestSound, IInv, [Next]_vars PROVE UsedContentsStable
  <2>1. CASE UNCHANGED vars
    BY <2>1 DEF vars, UsedContentsStable
  <2>2. ASSUME NEW s \in Seqs, Admit(s) PROVE UsedContentsStable
    <3>1. \E hits, fresh : Took(s, hits, fresh)
      BY <1>3, <2>2, AllocateTook DEF Admit, IInv, Contents
    <3> QED
      BY <1>1, <1>3, <3>1
  <2>3. ASSUME NEW s \in Seqs, Grow(s) PROVE UsedContentsStable
    <3>1. Took(s, <<>>, <<Head(free)>>)
      BY <1>3, <2>3, GrowTook DEF Grow, CanAppend, IInv
    <3>2. \E hits, fresh : Took(s, hits, fresh)
      BY <3>1
    <3> QED
      BY <1>1, <1>3, <3>2
  <2>4. ASSUME NEW s \in Seqs,
               \/ \E p \in Prompts : Create(s, p)
               \/ RejectAdmission(s)
               \/ Release(s)
        PROVE  UsedContentsStable
    <3>1. chain' = chain
      BY <2>4 DEF Create, NewSequence, blockVars, RejectAdmission,
                  RejectedLookup, Release
    <3> QED
      BY <3>1 DEF UsedContentsStable
  <2>5. ASSUME NEW s \in Seqs, NEW n \in 1 .. Len(tok[s]),
               \/ ComputePart(s, n)
               \/ \E t \in Tokens : ComputeAll(s, n, t) \/ ComputeFinal(s, n, t)
        PROVE  UsedContentsStable
    <3>1. n \in Nat /\ HasRoom(s, n) /\ HashBlocks(s, n)
      BY <2>5 DEF ComputePart, ComputeAll, ComputeFinal, ComputeChunk,
                  ComputeToken, ComputeLast
    <3> QED
      BY <1>2, <1>3, <3>1
  <2> QED
    BY <1>3, <2>1, <2>2, <2>3, <2>4, <2>5 DEF Next
<1>4. IInv /\ [Next]_vars => UsedContentsStable
  BY <1>3
<1> QED
  BY <1>4, Invariance, PTL DEF Spec, ContentsStable
-----------------------------------------------------------------------------
(* reserve_decode_kv.                                                      *)

(* A request never has more tokens than it was created to have at most,    *)
(* and with reserve_decode_kv its table has blocks for all of those.       *)
ReservedAhead ==
  \A s \in Seqs :
    /\ Len(tok[s]) <= numPrompt[s] + MaxTokens
    /\ Reserve /\ table[s] # <<>> => max_num_blocks(s) <= Len(table[s])

LEMMA ReservedAheadStep ==
  ASSUME DigestSound, IInv, ReservedAhead, [Next]_vars
  PROVE  ReservedAhead'
<1>1. TypeOK /\ BlocksAfterCreation
  BY DEF IInv
<1>2. \A x \in Seqs : /\ Len(tok[x]) \in Nat /\ numPrompt[x] \in Nat
                      /\ MaxTokens \in Nat
  BY <1>1, MaxTokensAssumption DEF TypeOK
<1>3. CASE UNCHANGED vars
  BY <1>3 DEF vars, ReservedAhead, max_num_blocks
<1>4. ASSUME NEW s \in Seqs, NEW p \in Prompts, Create(s, p)
      PROVE  ReservedAhead'
  <2>1. /\ \A x \in Seqs : x # s => tok'[x] = tok[x] /\ numPrompt'[x] = numPrompt[x]
        /\ tok'[s] = p /\ numPrompt'[s] = Len(p) /\ table' = table
        /\ table[s] = <<>>
    BY <1>1, <1>4 DEF Create, NewSequence, TypeOK, BlocksAfterCreation
  <2>2. Len(p) \in Nat /\ Len(p) <= Len(p) + MaxTokens
    BY PromptsAssumption, MaxTokensAssumption
  <2> QED
    BY <2>1, <2>2 DEF ReservedAhead, max_num_blocks
<1>5. ASSUME NEW s \in Seqs, Admit(s) PROVE ReservedAhead'
  <2>1. PICK c \in 0 .. num_blocks(s) - 1 :
          CachedBlocks(s, c) /\ CanAllocate(s, c) /\ Allocate(s, c)
    BY <1>5 DEF Admit
  <2>2. PICK hits, fresh :
          /\ Took(s, hits, fresh)
          /\ Len(hits) = c /\ Len(fresh) = allocation_target(s) - c
          /\ table' = [table EXCEPT ![s] = hits \o fresh]
          /\ UNCHANGED <<tok, numPrompt>>
    BY <1>5, <2>1, AllocateTook DEF IInv, Contents, Admit
  <2>3. hits \in Seq(Blocks) /\ fresh \in Seq(Blocks)
    BY <2>2 DEF Took
  <2>4. Len(hits \o fresh) = Len(hits) + Len(fresh)
    BY <2>3, ConcatProperties
  <2>5. allocation_target(s) \in Nat /\ c \in Nat
    BY <1>1, <1>5, TargetProperties DEF Admit
  <2>6. Len(hits \o fresh) = allocation_target(s)
    BY <2>2, <2>4, <2>5
  <2>7. /\ table'[s] = hits \o fresh
        /\ \A x \in Seqs : x # s => table'[x] = table[x]
    BY <1>1, <2>2 DEF TypeOK
  <2>8. Reserve => max_num_blocks(s) = Len(table'[s])
    BY <2>6, <2>7 DEF allocation_target
  <2>9. \A x \in Seqs : max_num_blocks(x)' = max_num_blocks(x)
    BY <2>2 DEF max_num_blocks
  <2>10. max_num_blocks(s) \in Nat
    <3>1. numPrompt[s] + MaxTokens \in Nat
      BY <1>2
    <3> QED
      BY <3>1, BlocksForBounds DEF max_num_blocks
  <2> QED
    BY <2>2, <2>7, <2>8, <2>9, <2>10 DEF ReservedAhead
<1>6. ASSUME NEW s \in Seqs, RejectAdmission(s) PROVE ReservedAhead'
  BY <1>6 DEF RejectAdmission, RejectedLookup, seqVars, ReservedAhead,
              max_num_blocks
<1>7. ASSUME NEW s \in Seqs, Grow(s) PROVE ReservedAhead'
  <2>1. /\ table' = [table EXCEPT ![s] = Append(table[s], Head(free))]
        /\ UNCHANGED <<tok, numPrompt>> /\ free # <<>> /\ table[s] # <<>>
    BY <1>1, <1>7, GrowTook DEF Grow, CanAppend, IInv
  <2>2. /\ \A x \in Seqs : x # s => table'[x] = table[x]
        /\ Len(table'[s]) = Len(table[s]) + 1
        /\ Len(table[s]) \in Nat
    BY <1>1, <2>1 DEF TypeOK
  <2>3. \A x \in Seqs : /\ max_num_blocks(x)' = max_num_blocks(x)
                        /\ max_num_blocks(x) \in Nat
    BY SMTT(30), <1>2, <2>1, BlocksForBounds DEF max_num_blocks
  <2>4. Reserve => max_num_blocks(s) <= Len(table'[s])
    BY <2>1, <2>2, <2>3 DEF ReservedAhead
  <2> QED
    BY <2>1, <2>2, <2>3, <2>4 DEF ReservedAhead
<1>8. ASSUME NEW s \in Seqs, NEW n \in 1 .. Len(tok[s]), ComputePart(s, n)
      PROVE  ReservedAhead'
  BY <1>8 DEF ComputePart, ComputeChunk, ReservedAhead, max_num_blocks
<1>9. ASSUME NEW s \in Seqs, NEW t \in Tokens, Unfinished(s),
             tok' = [tok EXCEPT ![s] = Append(tok[s], t)],
             numPrompt' = numPrompt,
             \A x \in Seqs : table'[x] = table[x] \/ table'[x] = <<>>
      PROVE  ReservedAhead'
  <2>1. /\ \A x \in Seqs : x # s => tok'[x] = tok[x]
        /\ Len(tok'[s]) = Len(tok[s]) + 1
    BY <1>1, <1>9 DEF TypeOK
  <2>2. Len(tok[s]) - numPrompt[s] < MaxTokens
    BY <1>9 DEF Unfinished, num_completion_tokens
  <2>3. Len(tok'[s]) <= numPrompt[s] + MaxTokens
    BY <1>2, <2>1, <2>2
  <2>4. \A x \in Seqs : max_num_blocks(x)' = max_num_blocks(x)
    BY <1>9 DEF max_num_blocks
  <2> QED
    BY <1>9, <2>1, <2>3, <2>4 DEF ReservedAhead
<1>10. ASSUME NEW s \in Seqs, NEW n \in 1 .. Len(tok[s]), NEW t \in Tokens,
              ComputeAll(s, n, t)
       PROVE  ReservedAhead'
  BY <1>9, <1>10 DEF ComputeAll, ComputeToken
<1>11. ASSUME NEW s \in Seqs, Deallocate(s)
       PROVE  \A x \in Seqs : table'[x] = table[x] \/ table'[x] = <<>>
  BY <1>1, <1>11 DEF Deallocate, TypeOK
<1>12. ASSUME NEW s \in Seqs, NEW n \in 1 .. Len(tok[s]), NEW t \in Tokens,
              ComputeFinal(s, n, t)
       PROVE  ReservedAhead'
  BY <1>9, <1>11, <1>12 DEF ComputeFinal, ComputeLast
<1>13. ASSUME NEW s \in Seqs, Release(s) PROVE ReservedAhead'
  <2>1. UNCHANGED <<tok, numPrompt>>
    BY <1>13 DEF Release
  <2>2. \A x \in Seqs : table'[x] = table[x] \/ table'[x] = <<>>
    BY <1>11, <1>13 DEF Release
  <2> QED
    BY <2>1, <2>2 DEF ReservedAhead, max_num_blocks
<1> QED
  BY <1>3, <1>4, <1>5, <1>6, <1>7, <1>8, <1>10, <1>12, <1>13 DEF Next

(* With reserve_decode_kv an admitted request never needs another block.   *)
THEOREM ReserveHolds == ASSUME DigestSound PROVE Spec => []ReserveCovers
<1>1. Init => ReservedAhead
  <2> SUFFICES ASSUME Init, NEW s \in Seqs
               PROVE  /\ Len(tok[s]) <= numPrompt[s] + MaxTokens
                      /\ table[s] = <<>>
    BY DEF ReservedAhead
  <2>1. tok[s] = <<>> /\ numPrompt[s] = 0 /\ table[s] = <<>>
    BY DEF Init
  <2> QED
    BY <2>1, MaxTokensAssumption
<1>2. IInv /\ ReservedAhead /\ [Next]_vars => ReservedAhead'
  BY ReservedAheadStep
<1>3. IInv /\ ReservedAhead => ReserveCovers
  <2> SUFFICES ASSUME IInv, ReservedAhead, Reserve,
                      NEW s \in Seqs, table[s] # <<>>
               PROVE  num_blocks(s) <= Len(table[s])
    BY DEF ReserveCovers
  <2>1. /\ Len(tok[s]) \in Nat /\ numPrompt[s] + MaxTokens \in Nat
        /\ Len(tok[s]) <= numPrompt[s] + MaxTokens
        /\ Len(table[s]) \in Nat
    BY MaxTokensAssumption DEF IInv, TypeOK, ReservedAhead
  <2>2. num_blocks(s) <= max_num_blocks(s)
    BY <2>1, BlocksForMonotone DEF num_blocks, max_num_blocks
  <2>3. num_blocks(s) \in Nat /\ max_num_blocks(s) \in Nat
    BY <2>1, BlocksForBounds DEF num_blocks, max_num_blocks
  <2>4. max_num_blocks(s) <= Len(table[s])
    BY DEF ReservedAhead
  <2> QED
    BY <2>1, <2>2, <2>3, <2>4
<1> QED
  BY <1>1, <1>2, <1>3, Invariance, PTL DEF Spec
=============================================================================
