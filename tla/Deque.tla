------------------------------- MODULE Deque -------------------------------
(***************************************************************************)
(* What the engine does to a collections.deque that Head, Tail, Append and *)
(* \o do not say: remove the entries of a set from wherever they stand.    *)
(*                                                                         *)
(* The kept entry number k is the one with k kept positions up to and      *)
(* including its own.  The definition is closed (no recursion), so that    *)
(* what it computes can be proved.                                         *)
(***************************************************************************)
EXTENDS SequencesExt

KeptIndices(s, S) == {i \in DOMAIN s : s[i] \in S}

Rank(I, i) == Cardinality({j \in I : j <= i})

IndexOfRank(I, k) == CHOOSE i \in I : Rank(I, i) = k

(* The entries of s that are in S, in their order.                         *)
Keep(s, S) ==
  LET kept == KeptIndices(s, S)
  IN  [k \in 1 .. Cardinality(kept) |-> s[IndexOfRank(kept, k)]]

(* deque.remove(b) for every b of S.                                       *)
Without(s, S) == Keep(s, Range(s) \ S)
=============================================================================
