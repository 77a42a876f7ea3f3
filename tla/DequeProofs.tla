---------------------------- MODULE DequeProofs ----------------------------
(***************************************************************************)
(* What Keep and Without compute, for every sequence.                      *)
(***************************************************************************)
EXTENDS Deque, Integers, FiniteSetTheorems, FunctionTheorems, SequenceTheorems,
        TLAPS

(* The positions that are kept are positions of the sequence.              *)
LEMMA KeptIndicesFinite ==
  ASSUME NEW T, NEW s \in Seq(T), NEW S
  PROVE  /\ KeptIndices(s, S) \in SUBSET Int
         /\ IsFiniteSet(KeptIndices(s, S))
         /\ Cardinality(KeptIndices(s, S)) \in Nat
<1>1. Len(s) \in Nat /\ DOMAIN s = 1 .. Len(s)
  OBVIOUS
<1>2. IsFiniteSet(1 .. Len(s))
  BY <1>1, FS_Interval
<1>3. KeptIndices(s, S) \in SUBSET (1 .. Len(s))
  BY <1>1 DEF KeptIndices
<1>4. IsFiniteSet(KeptIndices(s, S))
  BY <1>2, <1>3, FS_Subset
<1>5. KeptIndices(s, S) \in SUBSET Int
  BY <1>3
<1> QED
  BY <1>4, <1>5, FS_CardinalityType

(* The rank numbers the elements of a finite set of numbers from 1 on.     *)
LEMMA RankType ==
  ASSUME NEW I \in SUBSET Int, IsFiniteSet(I), NEW i \in I
  PROVE  Rank(I, i) \in 1 .. Cardinality(I)
<1> DEFINE J == {j \in I : j <= i}
<1>1. J \in SUBSET I
  OBVIOUS
<1>2. IsFiniteSet(J) /\ Cardinality(J) <= Cardinality(I)
  BY <1>1, FS_Subset
<1>3. Cardinality(J) \in Nat /\ Cardinality(I) \in Nat
  BY <1>2, FS_CardinalityType
<1>4. i \in J
  OBVIOUS
<1>5. Cardinality(J) # 0
  BY <1>2, <1>4, FS_EmptySet
<1>6. Rank(I, i) = Cardinality(J)
  BY DEF Rank
<1> HIDE DEF J
<1> QED
  BY <1>2, <1>3, <1>5, <1>6

LEMMA RankIncreases ==
  ASSUME NEW I \in SUBSET Int, IsFiniteSet(I), NEW i \in I, NEW j \in I, i < j
  PROVE  Rank(I, i) < Rank(I, j)
<1> DEFINE A == {k \in I : k <= i}
           B == {k \in I : k <= j}
<1>1. B \in SUBSET I
  OBVIOUS
<1>2. IsFiniteSet(B)
  BY <1>1, FS_Subset
<1>3. A \in SUBSET B
  <2>1. \A k \in I : k <= i => k <= j
    OBVIOUS
  <2> QED
    BY <2>1
<1>4. j \in B /\ j \notin A
  OBVIOUS
<1>5. Rank(I, i) = Cardinality(A) /\ Rank(I, j) = Cardinality(B)
  BY DEF Rank
<1> HIDE DEF A, B
<1>6. IsFiniteSet(A) /\ Cardinality(A) <= Cardinality(B)
  BY <1>2, <1>3, FS_Subset
<1>7. Cardinality(A) # Cardinality(B)
  BY <1>2, <1>3, <1>4, FS_Subset
<1>8. Cardinality(A) \in Nat /\ Cardinality(B) \in Nat
  BY <1>2, <1>6, FS_CardinalityType
<1> QED
  BY <1>5, <1>6, <1>7, <1>8

LEMMA RankInjective ==
  ASSUME NEW I \in SUBSET Int, IsFiniteSet(I), NEW i \in I, NEW j \in I,
         Rank(I, i) = Rank(I, j)
  PROVE  i = j
<1>1. Cardinality(I) \in Nat
  BY FS_CardinalityType
<1>2. Rank(I, i) \in 1 .. Cardinality(I)
  BY RankType
<1>3. Rank(I, i) \in Int
  BY <1>1, <1>2
<1>4. ~(i < j) /\ ~(j < i)
  BY <1>3, RankIncreases
<1> QED
  BY <1>4

LEMMA RankOnto ==
  ASSUME NEW I \in SUBSET Int, IsFiniteSet(I), NEW k \in 1 .. Cardinality(I)
  PROVE  \E i \in I : Rank(I, i) = k
<1> DEFINE N == 1 .. Cardinality(I)
           f == [i \in I |-> Rank(I, i)]
<1>1. Cardinality(I) \in Nat
  BY FS_CardinalityType
<1>2. IsFiniteSet(N)
  BY <1>1, FS_Interval
<1>3. Cardinality(N) = IF 1 > Cardinality(I) THEN 0 ELSE Cardinality(I) - 1 + 1
  BY <1>1, FS_Interval
<1>4. Cardinality(N) = Cardinality(I)
  BY SMTT(30), <1>1, <1>3
<1>5. f \in [I -> N]
  BY RankType
<1>6. \A i, j \in I : f[i] = f[j] => i = j
  BY RankInjective
<1>7. k \in N /\ \A i \in I : f[i] = Rank(I, i)
  OBVIOUS
<1> HIDE DEF f, N
<1>8. f \in Injection(I, N)
  BY <1>5, <1>6, Fun_IsInj
<1>9. f \in Surjection(I, N)
  BY <1>2, <1>4, <1>8, FS_Injection
<1>10. \E i \in I : f[i] = k
  BY <1>7, <1>9, Fun_SurjectionProperties
<1> QED
  BY <1>7, <1>10

(* A finite set of numbers has a greatest.                                 *)
LEMMA Greatest ==
  ASSUME NEW I \in SUBSET Int, IsFiniteSet(I), I # {}
  PROVE  \E i \in I : \A j \in I : j <= i
<1>1. Cardinality(I) \in Nat
  BY FS_CardinalityType
<1>2. Cardinality(I) # 0
  BY FS_EmptySet
<1>3. Cardinality(I) \in 1 .. Cardinality(I)
  BY <1>1, <1>2
<1>4. PICK i \in I : Rank(I, i) = Cardinality(I)
  BY <1>3, RankOnto
<1> DEFINE J == {j \in I : j <= i}
<1>5. J \in SUBSET I /\ Cardinality(I) = Cardinality(J)
  BY <1>4 DEF Rank
<1> HIDE DEF J
<1>6. I = J
  BY <1>5, FS_Subset
<1> QED
  BY <1>6 DEF J

LEMMA IndexOfRankCorrect ==
  ASSUME NEW I \in SUBSET Int, IsFiniteSet(I), NEW k \in 1 .. Cardinality(I)
  PROVE  IndexOfRank(I, k) \in I /\ Rank(I, IndexOfRank(I, k)) = k
BY RankOnto DEF IndexOfRank

(* Appending sequences.                                                    *)
LEMMA ConcatRange ==
  ASSUME NEW T, NEW p \in Seq(T), NEW q \in Seq(T)
  PROVE  /\ p \o q \in Seq(T)
         /\ Range(p \o q) = Range(p) \cup Range(q)
<1>1. p \o q \in Seq(T) /\ Len(p \o q) = Len(p) + Len(q)
  BY ConcatProperties
<1>2. \A i \in 1 .. Len(p) + Len(q) :
        (p \o q)[i] = IF i <= Len(p) THEN p[i] ELSE q[i - Len(p)]
  BY ConcatProperties
<1>3. ASSUME NEW x \in Range(p \o q) PROVE x \in Range(p) \cup Range(q)
  <2>1. PICK i \in 1 .. Len(p) + Len(q) : x = (p \o q)[i]
    BY <1>1 DEF Range
  <2>2. CASE i <= Len(p)
    BY <1>2, <2>1, <2>2 DEF Range
  <2>3. CASE ~(i <= Len(p))
    <3>1. i - Len(p) \in 1 .. Len(q) /\ x = q[i - Len(p)]
      BY <1>2, <2>1, <2>3
    <3> QED
      BY <3>1 DEF Range
  <2> QED
    BY <2>2, <2>3
<1>4. ASSUME NEW x \in Range(p) PROVE x \in Range(p \o q)
  <2>1. PICK i \in 1 .. Len(p) : x = p[i]
    BY DEF Range
  <2>2. i \in 1 .. Len(p) + Len(q) /\ (p \o q)[i] = x
    BY <1>2, <2>1
  <2> QED
    BY <1>1, <2>2 DEF Range
<1>5. ASSUME NEW x \in Range(q) PROVE x \in Range(p \o q)
  <2>1. PICK i \in 1 .. Len(q) : x = q[i]
    BY DEF Range
  <2>2. i + Len(p) \in 1 .. Len(p) + Len(q)
        /\ ~(i + Len(p) <= Len(p)) /\ (i + Len(p)) - Len(p) = i
    OBVIOUS
  <2>3. (p \o q)[i + Len(p)] = x
    BY <1>2, <2>1, <2>2
  <2> QED
    BY <1>1, <2>2, <2>3 DEF Range
<1> QED
  BY <1>1, <1>3, <1>4, <1>5

LEMMA ConcatInjective ==
  ASSUME NEW T, NEW p \in Seq(T), NEW q \in Seq(T),
         IsInjective(p), IsInjective(q), Range(p) \cap Range(q) = {}
  PROVE  IsInjective(p \o q)
<1>1. p \o q \in Seq(T) /\ Len(p \o q) = Len(p) + Len(q)
  BY ConcatProperties
<1>2. \A i \in 1 .. Len(p) + Len(q) :
        (p \o q)[i] = IF i <= Len(p) THEN p[i] ELSE q[i - Len(p)]
  BY ConcatProperties
<1>3. \A i \in 1 .. Len(p) : p[i] \in Range(p)
  BY DEF Range
<1>4. \A i \in 1 .. Len(q) : q[i] \in Range(q)
  BY DEF Range
<1>5. \A i, j \in 1 .. Len(p) : p[i] = p[j] => i = j
  BY DEF IsInjective
<1>6. \A i, j \in 1 .. Len(q) : q[i] = q[j] => i = j
  BY DEF IsInjective
<1> SUFFICES ASSUME NEW i \in 1 .. Len(p) + Len(q),
                    NEW j \in 1 .. Len(p) + Len(q),
                    (p \o q)[i] = (p \o q)[j]
             PROVE  i = j
  BY <1>1 DEF IsInjective
<1>7. CASE i <= Len(p) /\ j <= Len(p)
  <2>1. i \in 1 .. Len(p) /\ j \in 1 .. Len(p) /\ p[i] = p[j]
    BY <1>2, <1>7
  <2> QED
    BY <2>1, <1>5
<1>8. CASE ~(i <= Len(p)) /\ ~(j <= Len(p))
  <2>1. /\ i - Len(p) \in 1 .. Len(q)
        /\ j - Len(p) \in 1 .. Len(q)
        /\ q[i - Len(p)] = q[j - Len(p)]
    BY <1>2, <1>8
  <2>2. i - Len(p) = j - Len(p)
    BY <2>1, <1>6
  <2> QED
    BY <2>2
<1>9. CASE i <= Len(p) /\ ~(j <= Len(p))
  <2>1. i \in 1 .. Len(p) /\ j - Len(p) \in 1 .. Len(q) /\ p[i] = q[j - Len(p)]
    BY <1>2, <1>9
  <2> QED
    BY <2>1, <1>3, <1>4
<1>10. CASE ~(i <= Len(p)) /\ j <= Len(p)
  <2>1. j \in 1 .. Len(p) /\ i - Len(p) \in 1 .. Len(q) /\ p[j] = q[i - Len(p)]
    BY <1>2, <1>10
  <2> QED
    BY <2>1, <1>3, <1>4
<1> QED
  BY <1>7, <1>8, <1>9, <1>10

(* Cutting a sequence in two.                                              *)
LEMMA Cut ==
  ASSUME NEW T, NEW s \in Seq(T), NEW k \in 0 .. Len(s)
  PROVE  /\ SubSeq(s, 1, k) \in Seq(T) /\ Len(SubSeq(s, 1, k)) = k
         /\ \A i \in 1 .. k : SubSeq(s, 1, k)[i] = s[i]
         /\ SubSeq(s, k + 1, Len(s)) \in Seq(T)
         /\ Len(SubSeq(s, k + 1, Len(s))) = Len(s) - k
         /\ \A i \in 1 .. Len(s) - k : SubSeq(s, k + 1, Len(s))[i] = s[k + i]
OBVIOUS

(* Both parts of a sequence without duplicates have none, and share none.  *)
LEMMA CutInjective ==
  ASSUME NEW T, NEW s \in Seq(T), NEW k \in 0 .. Len(s), IsInjective(s)
  PROVE  /\ IsInjective(SubSeq(s, 1, k))
         /\ IsInjective(SubSeq(s, k + 1, Len(s)))
         /\ Range(SubSeq(s, 1, k)) \subseteq Range(s)
         /\ Range(SubSeq(s, k + 1, Len(s))) = Range(s) \ Range(SubSeq(s, 1, k))
<1> DEFINE p == SubSeq(s, 1, k)
           q == SubSeq(s, k + 1, Len(s))
<1>1. /\ p \in Seq(T) /\ Len(p) = k /\ \A i \in 1 .. k : p[i] = s[i]
      /\ q \in Seq(T) /\ Len(q) = Len(s) - k
      /\ \A i \in 1 .. Len(s) - k : q[i] = s[k + i]
  BY Cut
<1> HIDE DEF p, q
<1>2. /\ DOMAIN p = 1 .. k /\ DOMAIN q = 1 .. Len(s) - k
      /\ DOMAIN s = 1 .. Len(s) /\ Len(s) \in Nat
  BY <1>1
<1>3. \A i, j \in 1 .. Len(s) : s[i] = s[j] => i = j
  BY <1>2 DEF IsInjective
<1>4. \A i \in 1 .. k : i \in 1 .. Len(s)
  BY <1>2
<1>5. \A i \in 1 .. Len(s) - k : k + i \in 1 .. Len(s)
  BY <1>2
<1>6. IsInjective(p)
  BY <1>1, <1>2, <1>3, <1>4 DEF IsInjective
<1>7. IsInjective(q)
  <2> SUFFICES ASSUME NEW i \in 1 .. Len(s) - k, NEW j \in 1 .. Len(s) - k,
                      q[i] = q[j]
               PROVE  i = j
    BY <1>2 DEF IsInjective
  <2>1. k + i = k + j
    BY <1>1, <1>3, <1>5
  <2> QED
    BY <2>1
<1>8. Range(p) \subseteq Range(s)
  BY <1>1, <1>2, <1>4 DEF Range
<1>9. ASSUME NEW x \in Range(q) PROVE x \in Range(s) \ Range(p)
  <2>1. PICK i \in 1 .. Len(s) - k : x = q[i]
    BY <1>2 DEF Range
  <2>2. x = s[k + i] /\ k + i \in 1 .. Len(s)
    BY <1>1, <1>5, <2>1
  <2>3. ASSUME NEW j \in 1 .. k, p[j] = x PROVE FALSE
    <3>1. s[j] = s[k + i] /\ j \in 1 .. Len(s)
      BY <1>1, <1>4, <2>2, <2>3
    <3>2. j = k + i
      BY <1>3, <2>2, <3>1
    <3> QED
      BY <3>2
  <2> QED
    BY <1>2, <2>2, <2>3 DEF Range
<1>10. ASSUME NEW x \in Range(s) \ Range(p) PROVE x \in Range(q)
  <2>1. PICK i \in 1 .. Len(s) : x = s[i]
    BY <1>2 DEF Range
  <2>2. ~(i \in 1 .. k)
    BY <1>1, <1>2, <1>10, <2>1 DEF Range
  <2>3. i - k \in 1 .. Len(s) - k /\ k + (i - k) = i
    BY <1>2, <2>2
  <2>4. q[i - k] = x
    BY <1>1, <2>1, <2>3
  <2> QED
    BY <1>2, <2>3, <2>4 DEF Range
<1> QED
  BY <1>6, <1>7, <1>8, <1>9, <1>10 DEF p, q

(* Reading a sequence backwards.                                           *)
LEMMA ReverseProperties ==
  ASSUME NEW T, NEW s \in Seq(T)
  PROVE  /\ Reverse(s) \in Seq(T)
         /\ Range(Reverse(s)) = Range(s)
         /\ IsInjective(s) => IsInjective(Reverse(s))
<1>1. /\ DOMAIN s = 1 .. Len(s) /\ Len(s) \in Nat
      /\ Reverse(s) = [i \in 1 .. Len(s) |-> s[(Len(s) - i) + 1]]
  BY DEF Reverse
<1>2. \A i \in 1 .. Len(s) : (Len(s) - i) + 1 \in 1 .. Len(s)
                          /\ (Len(s) - ((Len(s) - i) + 1)) + 1 = i
  BY <1>1
<1>3. Reverse(s) \in [1 .. Len(s) -> T]
  BY <1>1, <1>2
<1>4. Reverse(s) \in Seq(T)
  BY <1>1, <1>3
<1>5. ASSUME NEW x \in Range(s) PROVE x \in Range(Reverse(s))
  <2>1. PICK i \in 1 .. Len(s) : x = s[i]
    BY DEF Range
  <2>2. Reverse(s)[(Len(s) - i) + 1] = x
    BY <1>1, <1>2, <2>1
  <2> QED
    BY <1>1, <1>2, <2>2 DEF Range
<1>6. ASSUME NEW x \in Range(Reverse(s)) PROVE x \in Range(s)
  <2>1. PICK i \in 1 .. Len(s) : x = s[(Len(s) - i) + 1]
    BY <1>1 DEF Range
  <2> QED
    BY <1>1, <1>2, <2>1 DEF Range
<1>7. ASSUME IsInjective(s) PROVE IsInjective(Reverse(s))
  <2> SUFFICES ASSUME NEW i \in 1 .. Len(s), NEW j \in 1 .. Len(s),
                      Reverse(s)[i] = Reverse(s)[j]
               PROVE  i = j
    BY <1>1 DEF IsInjective
  <2>1. s[(Len(s) - i) + 1] = s[(Len(s) - j) + 1]
    BY <1>1
  <2>2. (Len(s) - i) + 1 = (Len(s) - j) + 1
    BY <1>1, <1>2, <1>7, <2>1 DEF IsInjective
  <2> QED
    BY <2>2, <1>1
<1> QED
  BY <1>4, <1>5, <1>6, <1>7

(* A sequence without duplicates has as many entries as members.           *)
LEMMA InjectiveRange ==
  ASSUME NEW T, NEW s \in Seq(T)
  PROVE  /\ IsFiniteSet(Range(s))
         /\ Cardinality(Range(s)) <= Len(s)
         /\ IsInjective(s) => Cardinality(Range(s)) = Len(s)
<1> DEFINE N == 1 .. Len(s)
           R == Range(s)
<1>1. Len(s) \in Nat /\ DOMAIN s = N
  OBVIOUS
<1>2. IsFiniteSet(N)
  BY <1>1, FS_Interval
<1>3. Cardinality(N) = IF 1 > Len(s) THEN 0 ELSE Len(s) - 1 + 1
  BY <1>1, FS_Interval
<1>4. Cardinality(N) = Len(s)
  BY <1>1, <1>3
<1>5. s \in [N -> R] /\ \A y \in R : \E x \in N : s[x] = y
  BY <1>1 DEF Range
<1>6. IsInjective(s) => \A i, j \in N : s[i] = s[j] => i = j
  BY <1>1 DEF IsInjective
<1> HIDE DEF N, R
<1>7. s \in Surjection(N, R)
  BY <1>5, Fun_IsSurj
<1>8. /\ IsFiniteSet(R) /\ Cardinality(R) <= Cardinality(N)
      /\ Cardinality(R) = Cardinality(N) <=> s \in Injection(N, R)
  BY <1>2, <1>7, FS_Surjection
<1>9. IsInjective(s) => s \in Injection(N, R)
  BY <1>5, <1>6, Fun_IsInj
<1> QED
  BY <1>4, <1>8, <1>9 DEF R

(* Keep is the sequence of the entries in S, each as often as before, and  *)
(* it keeps a sequence without duplicates one.                             *)
THEOREM KeepProperties ==
  ASSUME NEW T, NEW s \in Seq(T), NEW S
  PROVE  /\ Keep(s, S) \in Seq(T)
         /\ Len(Keep(s, S)) = Cardinality(KeptIndices(s, S))
         /\ Range(Keep(s, S)) = Range(s) \cap S
         /\ IsInjective(s) => IsInjective(Keep(s, S))
<1> DEFINE I == KeptIndices(s, S)
           n == Cardinality(I)
           at(k) == IndexOfRank(I, k)
<1>1. I \in SUBSET Int /\ IsFiniteSet(I) /\ n \in Nat
  BY KeptIndicesFinite
<1>2. \A k \in 1 .. n : at(k) \in I /\ Rank(I, at(k)) = k
  BY <1>1, IndexOfRankCorrect
<1>3. \A i \in I : i \in 1 .. Len(s) /\ s[i] \in S /\ s[i] \in T
  BY DEF KeptIndices
<1>4. Keep(s, S) = [k \in 1 .. n |-> s[at(k)]]
  BY DEF Keep
<1> HIDE DEF I, n, at
<1>5. Keep(s, S) \in Seq(T) /\ Len(Keep(s, S)) = n
  <2>1. Keep(s, S) \in [1 .. n -> T]
    BY <1>2, <1>3, <1>4
  <2> QED
    BY <2>1, <1>1
<1>6. Range(Keep(s, S)) = Range(s) \cap S
  <2>1. ASSUME NEW x \in Range(Keep(s, S)) PROVE x \in Range(s) \cap S
    <3>1. PICK k \in 1 .. n : x = s[at(k)]
      BY <1>4 DEF Range
    <3> QED
      BY <3>1, <1>2, <1>3 DEF Range
  <2>2. ASSUME NEW x \in Range(s) \cap S PROVE x \in Range(Keep(s, S))
    <3>1. PICK i \in I : s[i] = x
      BY DEF Range, I, KeptIndices
    <3>2. Rank(I, i) \in 1 .. n
      BY <1>1, RankType DEF n
    <3>3. at(Rank(I, i)) = i
      <4>1. at(Rank(I, i)) \in I /\ Rank(I, at(Rank(I, i))) = Rank(I, i)
        BY <1>2, <3>2
      <4> QED
        BY <1>1, <4>1, RankInjective
    <3>4. Keep(s, S)[Rank(I, i)] = x
      BY <1>4, <3>1, <3>2, <3>3
    <3> QED
      BY <1>4, <3>2, <3>4 DEF Range
  <2> QED
    BY <2>1, <2>2
<1>7. ASSUME IsInjective(s) PROVE IsInjective(Keep(s, S))
  <2> SUFFICES ASSUME NEW a \in 1 .. n, NEW b \in 1 .. n,
                      Keep(s, S)[a] = Keep(s, S)[b]
               PROVE  a = b
    BY <1>4 DEF IsInjective
  <2>1. s[at(a)] = s[at(b)]
    BY <1>4
  <2>2. at(a) = at(b)
    BY <2>1, <1>2, <1>3, <1>7 DEF IsInjective
  <2> QED
    BY <2>2, <1>2
<1> QED
  BY <1>5, <1>6, <1>7 DEF n, I

THEOREM WithoutProperties ==
  ASSUME NEW T, NEW s \in Seq(T), NEW S
  PROVE  /\ Without(s, S) \in Seq(T)
         /\ Range(Without(s, S)) = Range(s) \ S
         /\ IsInjective(s) => IsInjective(Without(s, S))
BY KeepProperties DEF Without

-----------------------------------------------------------------------------
(* The queues of the scheduler.                                            *)

(* Append at the end of a queue.                                           *)
LEMMA AppendQueue ==
  ASSUME NEW T, NEW q \in Seq(T), NEW e \in T
  PROVE  /\ Append(q, e) \in Seq(T)
         /\ Range(Append(q, e)) = Range(q) \cup {e}
         /\ Len(Append(q, e)) = Len(q) + 1
         /\ IsInjective(q) /\ e \notin Range(q) => IsInjective(Append(q, e))
<1> DEFINE one == <<e>>
<1>1. one \in Seq(T) /\ Range(one) = {e} /\ IsInjective(one)
  <2>1. <<e>> \in Seq(T) /\ DOMAIN <<e>> = {1} /\ <<e>>[1] = e
    OBVIOUS
  <2> QED
    BY <2>1 DEF Range, IsInjective
<1>2. Append(q, e) = q \o one
  BY AppendIsConcat
<1> HIDE DEF one
<1>3. Len(Append(q, e)) = Len(q) + 1
  BY AppendProperties
<1>4. q \o one \in Seq(T) /\ Range(q \o one) = Range(q) \cup {e}
  BY <1>1, ConcatRange
<1>5. ASSUME IsInjective(q), e \notin Range(q) PROVE IsInjective(q \o one)
  <2>1. Range(q) \cap Range(one) = {}
    BY <1>1, <1>5
  <2> QED
    BY <1>1, <1>5, <2>1, ConcatInjective
<1> QED
  BY <1>2, <1>3, <1>4, <1>5

(* Put a request back at the front of a queue.                             *)
LEMMA PushQueue ==
  ASSUME NEW T, NEW q \in Seq(T), NEW e \in T
  PROVE  /\ <<e>> \o q \in Seq(T)
         /\ <<e>> \o q # <<>>
         /\ Range(<<e>> \o q) = Range(q) \cup {e}
         /\ IsInjective(q) /\ e \notin Range(q) => IsInjective(<<e>> \o q)
<1> DEFINE one == <<e>>
<1>1. one \in Seq(T) /\ Range(one) = {e} /\ IsInjective(one)
  <2>1. <<e>> \in Seq(T) /\ DOMAIN <<e>> = {1} /\ <<e>>[1] = e
    OBVIOUS
  <2> QED
    BY <2>1 DEF Range, IsInjective
<1>2. one \o q # <<>>
  BY <1>1, ConcatProperties, EmptySeq
<1> HIDE DEF one
<1>3. one \o q \in Seq(T) /\ Range(one \o q) = {e} \cup Range(q)
  BY <1>1, ConcatRange
<1>4. ASSUME IsInjective(q), e \notin Range(q) PROVE IsInjective(one \o q)
  <2>1. Range(one) \cap Range(q) = {}
    BY <1>1, <1>4
  <2> QED
    BY <1>1, <1>4, <2>1, ConcatInjective
<1> QED
  BY <1>2, <1>3, <1>4 DEF one

(* Take the first entry of a queue.                                        *)
LEMMA TailQueue ==
  ASSUME NEW T, NEW q \in Seq(T), q # <<>>
  PROVE  /\ Head(q) \in T
         /\ Head(q) \in Range(q)
         /\ Head(q) = q[1]
         /\ Len(q) \in Nat \ {0}
         /\ Tail(q) \in Seq(T)
         /\ Len(Tail(q)) = Len(q) - 1
         /\ \A i \in 1 .. Len(q) - 1 : Tail(q)[i] = q[i + 1]
         /\ IsInjective(q) => /\ IsInjective(Tail(q))
                              /\ Range(Tail(q)) = Range(q) \ {Head(q)}
<1>1. Len(q) \in Nat \ {0} /\ DOMAIN q = 1 .. Len(q) /\ Head(q) = q[1]
  BY EmptySeq, LenProperties
<1>2. /\ Head(q) \in T /\ Tail(q) \in Seq(T) /\ Len(Tail(q)) = Len(q) - 1
      /\ \A i \in 1 .. Len(q) - 1 : Tail(q)[i] = q[i + 1]
  BY HeadTailProperties
<1>3. Head(q) \in Range(q)
  BY <1>1 DEF Range
<1>4. ASSUME IsInjective(q)
      PROVE  IsInjective(Tail(q)) /\ Range(Tail(q)) = Range(q) \ {Head(q)}
  <2>1. DOMAIN Tail(q) = 1 .. Len(q) - 1
    BY <1>2, LenProperties
  <2>2. \A i, j \in 1 .. Len(q) : q[i] = q[j] => i = j
    BY <1>1, <1>4 DEF IsInjective
  <2>3. IsInjective(Tail(q))
    <3> SUFFICES ASSUME NEW i \in 1 .. Len(q) - 1, NEW j \in 1 .. Len(q) - 1,
                        Tail(q)[i] = Tail(q)[j]
                 PROVE  i = j
      BY <2>1 DEF IsInjective
    <3>1. i + 1 \in 1 .. Len(q) /\ j + 1 \in 1 .. Len(q)
      BY <1>1
    <3>2. q[i + 1] = q[j + 1]
      BY <1>2
    <3> QED
      BY <3>1, <3>2, <2>2
  <2>4. ASSUME NEW x \in Range(Tail(q)) PROVE x \in Range(q) \ {Head(q)}
    <3>1. PICK i \in 1 .. Len(q) - 1 : x = Tail(q)[i]
      BY <2>1 DEF Range
    <3>2. i + 1 \in 1 .. Len(q) /\ i + 1 # 1 /\ x = q[i + 1] /\ 1 \in 1 .. Len(q)
      BY <1>1, <1>2, <3>1
    <3> QED
      BY <3>2, <2>2, <1>1 DEF Range
  <2>5. ASSUME NEW x \in Range(q) \ {Head(q)} PROVE x \in Range(Tail(q))
    <3>1. PICK i \in 1 .. Len(q) : x = q[i]
      BY <1>1 DEF Range
    <3>2. i # 1 /\ i - 1 \in 1 .. Len(q) - 1 /\ (i - 1) + 1 = i
      BY <1>1, <3>1
    <3>3. x = Tail(q)[i - 1]
      BY <1>2, <3>1, <3>2
    <3> QED
      BY <3>2, <3>3, <2>1 DEF Range
  <2> QED
    BY <2>3, <2>4, <2>5
<1> QED
  BY <1>1, <1>2, <1>3, <1>4

(* Take the last entry of a queue.                                         *)
LEMMA FrontQueue ==
  ASSUME NEW T, NEW q \in Seq(T), q # <<>>
  PROVE  /\ Last(q) \in T
         /\ Last(q) \in Range(q)
         /\ Front(q) \in Seq(T)
         /\ Front(q) = <<>> => q[1] = Last(q) /\ Len(q) = 1
         /\ IsInjective(q) => /\ IsInjective(Front(q))
                              /\ Range(Front(q)) = Range(q) \ {Last(q)}
<1> DEFINE n == Len(q) - 1
<1>1. Len(q) \in Nat \ {0} /\ DOMAIN q = 1 .. Len(q)
  BY EmptySeq, LenProperties
<1>2. n \in 0 .. Len(q) /\ n \in Nat /\ n + 1 = Len(q) /\ Front(q) = SubSeq(q, 1, n)
  BY <1>1 DEF Front
<1>3. Last(q) = q[Len(q)] /\ Len(q) \in 1 .. Len(q)
  BY <1>1 DEF Last
<1>4. Last(q) \in T /\ Last(q) \in Range(q)
  BY <1>1, <1>3, ElementOfSeq DEF Range
<1>5. /\ Front(q) \in Seq(T) /\ Len(Front(q)) = n
      /\ \A i \in 1 .. n : Front(q)[i] = q[i]
  BY <1>2, Cut
<1> HIDE DEF n
<1>6. Front(q) = <<>> => q[1] = Last(q) /\ Len(q) = 1
  BY <1>1, <1>2, <1>3, <1>5, EmptySeq
<1>7. ASSUME IsInjective(q)
      PROVE  IsInjective(Front(q)) /\ Range(Front(q)) = Range(q) \ {Last(q)}
  <2>1. DOMAIN Front(q) = 1 .. n
    BY <1>5, LenProperties
  <2>2. \A i, j \in 1 .. Len(q) : q[i] = q[j] => i = j
    BY <1>1, <1>7 DEF IsInjective
  <2>3. IsInjective(Front(q))
    BY <1>2, <1>7, CutInjective
  <2>4. ASSUME NEW x \in Range(Front(q)) PROVE x \in Range(q) \ {Last(q)}
    <3>1. PICK i \in 1 .. n : x = Front(q)[i]
      BY <2>1 DEF Range
    <3>2. i \in 1 .. Len(q) /\ i # Len(q) /\ x = q[i]
      BY <1>2, <1>5, <3>1
    <3> QED
      BY <3>2, <2>2, <1>1, <1>3 DEF Range
  <2>5. ASSUME NEW x \in Range(q) \ {Last(q)} PROVE x \in Range(Front(q))
    <3>1. PICK i \in 1 .. Len(q) : x = q[i]
      BY <1>1 DEF Range
    <3>2. i # Len(q)
      BY <1>3, <3>1
    <3>3. i \in 1 .. n
      BY <1>2, <3>1, <3>2
    <3> QED
      BY <3>1, <3>3, <1>5, <2>1 DEF Range
  <2> QED
    BY <2>3, <2>4, <2>5
<1> QED
  BY <1>4, <1>5, <1>6, <1>7

(* A queue with an entry holds something.                                  *)
LEMMA NonemptyQueue ==
  ASSUME NEW T, NEW q \in Seq(T)
  PROVE  /\ q = <<>> <=> Len(q) = 0
         /\ q = <<>> <=> Range(q) = {}
<1>1. Len(q) \in Nat /\ DOMAIN q = 1 .. Len(q)
  BY LenProperties
<1>2. q = <<>> <=> Len(q) = 0
  BY EmptySeq
<1>3. Range(q) = {} <=> Len(q) = 0
  <2>1. Len(q) = 0 => Range(q) = {}
    BY <1>1 DEF Range
  <2>2. Len(q) # 0 => q[1] \in Range(q)
    BY <1>1 DEF Range
  <2> QED
    BY <2>1, <2>2
<1> QED
  BY <1>2, <1>3

(* The least of three numbers.                                             *)
LEMMA LeastOfThree ==
  ASSUME NEW a \in Int, NEW b \in Int, NEW c \in Int
  PROVE  /\ Min({a, b, c}) \in {a, b, c}
         /\ Min({a, b, c}) <= a /\ Min({a, b, c}) <= b /\ Min({a, b, c}) <= c
<1>1. \E x \in {a, b, c} : \A y \in {a, b, c} : x <= y
  <2>1. CASE a <= b /\ a <= c
    BY <2>1
  <2>2. CASE b <= a /\ b <= c
    BY <2>2
  <2>3. CASE c <= a /\ c <= b
    BY <2>3
  <2> QED
    BY <2>1, <2>2, <2>3
<1>2. /\ Min({a, b, c}) \in {a, b, c}
      /\ \A y \in {a, b, c} : Min({a, b, c}) <= y
  BY <1>1 DEF Min
<1> QED
  BY <1>2
=============================================================================
