--------------------------- MODULE MCBlockManager ---------------------------
(***************************************************************************)
(* Instances of BlockManager for TLC: two-token blocks, prompts that share *)
(* a first block, differ in the second, or stop in the middle of one.      *)
(***************************************************************************)
EXTENDS BlockManager

CONSTANTS s1, s2, s3

TwoSeqs == {s1, s2}
ThreeSeqs == {s1, s2, s3}
Symmetry == Permutations({s1, s2, s3})

TwoTokens == {1, 2}
ShortPrompts == {<<1, 1>>, <<1, 1, 2, 1>>}
LongPrompts == {<<1, 1, 1>>, <<1, 1, 2, 1>>}

(* A digest under which sibling blocks collide: it forgets the last block  *)
(* but for its length.                                                     *)
SiblingDigest(p) == <<SubSeq(p, 1, Len(p) - BlockSize), Len(p)>>

ExactDigest(p) == p

AlignedPrefixes == UNION {[1 .. n * BlockSize -> Tokens] : n \in 0 .. 3}

ASSUME DigestSoundOn(AlignedPrefixes)

(* Deque's Keep is the filter it is meant to be.                           *)
ASSUME \A q \in AlignedPrefixes : \A S \in SUBSET Tokens :
         /\ Keep(q, S) = SelectSeq(q, LAMBDA x : x \in S)
         /\ Without(q, S) = SelectSeq(q, LAMBDA x : x \notin S)
=============================================================================
