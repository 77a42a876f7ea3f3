---------------------------- MODULE EngineProofs ----------------------------
(***************************************************************************)
(* The engine drives the scheduler as Scheduler's specification allows,    *)
(* and answers its clients as RequestService says, for any prompts, in any *)
(* order of addition, with online requests between the calls of generate.  *)
(*                                                                         *)
(* The inductive invariant is the scheduler's JInv with EngineOnly: a      *)
(* request is FINISHED exactly when its completion is complete (Answered); *)
(* what was returned for it is that completion, once, and a finished one   *)
(* that was not returned is of the step in progress (GivenOut, InStep); an *)
(* index no longer in order has its request (Adding); and the requests     *)
(* have the numbers the counter gave out (Numbered).                       *)
(*                                                                         *)
(* Assumed beyond the modules' own assumptions: DigestSound.  That every   *)
(* completion is finished and every call returns is liveness, which is     *)
(* model-checked (ServiceSpec).                                            *)
(***************************************************************************)
EXTENDS Engine, SchedulerProofs

-----------------------------------------------------------------------------
(* The order of addition.                                                  *)

(* The lesser of two numbers.                                              *)
LEMMA LeastOfTwo ==
  ASSUME NEW a \in Nat, NEW b \in Nat
  PROVE  /\ Min({a, b}) \in Nat
         /\ Min({a, b}) <= a /\ Min({a, b}) <= b
         /\ Min({a, b}) = a \/ Min({a, b}) = b
<1>1. \E x \in {a, b} : \A y \in {a, b} : x <= y
  <2>1. a <= b \/ b <= a
    OBVIOUS
  <2> QED
    BY <2>1
<1>2. Min({a, b}) \in {a, b} /\ \A y \in {a, b} : Min({a, b}) <= y
  BY <1>1 DEF Min
<1> QED
  BY <1>2

(* a and b are the same up to n, and there a ends or is less.              *)
LessAt(a, b, n) ==
  /\ n <= Len(a) /\ n < Len(b)
  /\ \A k \in 1 .. n : a[k] = b[k]
  /\ n < Len(a) => a[n + 1] < b[n + 1]

(* LexLess is LessAt at some place.                                        *)
LEMMA LexLessAt ==
  ASSUME NEW a \in Seq(Nat), NEW b \in Seq(Nat)
  PROVE  LexLess(a, b) <=> \E n \in Nat : LessAt(a, b, n)
<1> DEFINE m == Min({Len(a), Len(b)})
<1>1. Len(a) \in Nat /\ Len(b) \in Nat
  BY LenProperties
<1>2. /\ m \in Nat /\ m <= Len(a) /\ m <= Len(b)
      /\ m = Len(a) \/ m = Len(b)
  BY <1>1, LeastOfTwo
<1> HIDE DEF m
<1>3. ASSUME NEW n \in 0 .. m
      PROVE  (/\ \A k \in 1 .. n : a[k] = b[k]
              /\ \/ n = Len(a) /\ n < Len(b)
                 \/ n < Len(a) /\ n < Len(b) /\ a[n + 1] < b[n + 1])
             => LessAt(a, b, n)
  BY <1>1, <1>2 DEF LessAt
<1>4. ASSUME NEW n \in Nat, LessAt(a, b, n)
      PROVE  /\ n \in 0 .. m
             /\ \A k \in 1 .. n : a[k] = b[k]
             /\ \/ n = Len(a) /\ n < Len(b)
                \/ n < Len(a) /\ n < Len(b) /\ a[n + 1] < b[n + 1]
  BY <1>1, <1>2, <1>4 DEF LessAt
<1>5. ASSUME LexLess(a, b) PROVE \E n \in Nat : LessAt(a, b, n)
  <2>1. PICK n \in 0 .. m :
           /\ \A k \in 1 .. n : a[k] = b[k]
           /\ \/ n = Len(a) /\ n < Len(b)
              \/ n < Len(a) /\ n < Len(b) /\ a[n + 1] < b[n + 1]
    BY <1>5 DEF LexLess, m
  <2>2. LessAt(a, b, n)
    BY <1>3, <2>1
  <2>3. n \in Nat
    BY <1>2
  <2> QED
    BY <2>2, <2>3
<1>6. (\E n \in Nat : LessAt(a, b, n)) => LexLess(a, b)
  BY <1>4 DEF LexLess, m
<1> QED
  BY <1>5, <1>6

(* The order of tuples is a strict total order.                            *)
LEMMA LexTransitive ==
  ASSUME NEW a \in Seq(Nat), NEW b \in Seq(Nat), NEW c \in Seq(Nat),
         LexLess(a, b), LexLess(b, c)
  PROVE  LexLess(a, c)
<1>1. Len(a) \in Nat /\ Len(b) \in Nat /\ Len(c) \in Nat
  BY LenProperties
<1>2. /\ \A k \in 1 .. Len(a) : a[k] \in Nat
      /\ \A k \in 1 .. Len(b) : b[k] \in Nat
      /\ \A k \in 1 .. Len(c) : c[k] \in Nat
  BY ElementOfSeq
<1>3. PICK n \in Nat : LessAt(a, b, n)
  BY LexLessAt
<1>4. PICK m \in Nat : LessAt(b, c, m)
  BY LexLessAt
<1>5. CASE n < m
  <2>1. LessAt(a, c, n)
    BY <1>1, <1>3, <1>4, <1>5 DEF LessAt
  <2> QED
    BY <2>1, LexLessAt
<1>6. CASE m < n
  <2>1. m + 1 \in 1 .. n /\ m < Len(a) /\ m < Len(b) /\ m < Len(c)
    BY <1>1, <1>3, <1>4, <1>6 DEF LessAt
  <2>2. a[m + 1] = b[m + 1] /\ b[m + 1] < c[m + 1]
    BY <1>3, <1>4, <2>1 DEF LessAt
  <2>3. \A k \in 1 .. m : k \in 1 .. n
    BY <1>6
  <2>4. \A k \in 1 .. m : a[k] = c[k]
    BY <1>3, <1>4, <2>3 DEF LessAt
  <2>5. LessAt(a, c, m)
    BY <1>1, <2>1, <2>2, <2>4 DEF LessAt
  <2> QED
    BY <2>5, LexLessAt
<1>7. CASE n = m
  <2>1. ASSUME n < Len(a) PROVE a[n + 1] < c[n + 1]
    <3>1. PICK i : i = n + 1
      OBVIOUS
    <3>2. n < Len(b) /\ n < Len(c)
      BY <1>1, <1>3, <1>4, <1>7, <2>1 DEF LessAt
    <3>3. a[i] < b[i]
      BY <1>3, <2>1, <3>1 DEF LessAt
    <3>4. b[i] < c[i]
      BY <1>4, <1>7, <3>1, <3>2 DEF LessAt
    <3>5. i \in 1 .. Len(a) /\ i \in 1 .. Len(b) /\ i \in 1 .. Len(c)
      BY <1>1, <2>1, <3>1, <3>2
    <3>6. a[i] \in Nat /\ b[i] \in Nat /\ c[i] \in Nat
      BY <1>2, <3>5
    <3>7. a[i] < c[i]
      BY ONLY <3>3, <3>4, <3>6
    <3> QED
      BY ONLY <3>1, <3>7
  <2>2. LessAt(a, c, n)
    BY <1>1, <1>3, <1>4, <1>7, <2>1 DEF LessAt
  <2> QED
    BY <2>2, LexLessAt
<1> QED
  BY <1>5, <1>6, <1>7

(* No sequence is less than itself.                                        *)
LEMMA LexIrreflexive ==
  ASSUME NEW a \in Seq(Nat)
  PROVE  ~LexLess(a, a)
<1> SUFFICES ASSUME NEW n \in Nat, LessAt(a, a, n) PROVE FALSE
  BY LexLessAt
<1>1. Len(a) \in Nat /\ n < Len(a) /\ a[n + 1] < a[n + 1]
  BY LenProperties DEF LessAt
<1>2. a[n + 1] \in Nat
  BY <1>1, ElementOfSeq
<1> QED
  BY <1>1, <1>2

(* Of two different sequences one is less.                                 *)
LEMMA LexTotal ==
  ASSUME NEW a \in Seq(Nat), NEW b \in Seq(Nat), a # b
  PROVE  LexLess(a, b) \/ LexLess(b, a)
<1>1. Len(a) \in Nat /\ Len(b) \in Nat
  BY LenProperties
<1>2. /\ \A k \in 1 .. Len(a) : a[k] \in Nat
      /\ \A k \in 1 .. Len(b) : b[k] \in Nat
  BY ElementOfSeq
<1> DEFINE Same(n) == n <= Len(a) /\ n <= Len(b) /\ \A k \in 1 .. n : a[k] = b[k]
           P == {n \in 0 .. Len(a) : Same(n)}
<1>3. P \in SUBSET Int /\ IsFiniteSet(P) /\ 0 \in P
  <2>1. P \in SUBSET (0 .. Len(a)) /\ 0 \in P
    BY <1>1
  <2>2. IsFiniteSet(0 .. Len(a))
    BY <1>1, FS_Interval
  <2> QED
    BY <1>1, <2>1, <2>2, FS_Subset
<1>4. PICK n \in P : \A j \in P : j <= n
  <2>1. P # {}
    BY <1>3
  <2> HIDE DEF P
  <2> QED
    BY <1>3, <2>1, Greatest
<1>5. n \in Nat /\ Same(n)
  BY <1>1, <1>4
<1>6. CASE n = Len(a) /\ n = Len(b)
  BY <1>5, <1>6, SeqEqual
<1>7. CASE n = Len(a) /\ n # Len(b)
  <2>1. LessAt(a, b, n)
    BY <1>1, <1>5, <1>7 DEF LessAt
  <2> QED
    BY <1>5, <2>1, LexLessAt
<1>8. CASE n = Len(b) /\ n # Len(a)
  <2>1. LessAt(b, a, n)
    BY <1>1, <1>5, <1>8 DEF LessAt
  <2> QED
    BY <1>5, <2>1, LexLessAt
<1>9. CASE n # Len(a) /\ n # Len(b)
  <2>1. n < Len(a) /\ n < Len(b)
    BY <1>1, <1>5, <1>9
  <2>2. a[n + 1] # b[n + 1]
    <3> SUFFICES ASSUME a[n + 1] = b[n + 1] PROVE FALSE
      OBVIOUS
    <3>1. \A k \in 1 .. n + 1 : k \in 1 .. n \/ k = n + 1
      BY <1>5
    <3>2. Same(n + 1)
      <4>1. n + 1 <= Len(a) /\ n + 1 <= Len(b)
        BY <1>1, <1>5, <2>1
      <4>2. \A k \in 1 .. n : a[k] = b[k]
        BY <1>5
      <4>3. \A k \in 1 .. n + 1 : a[k] = b[k]
        BY <3>1, <4>2
      <4> QED
        BY <4>1, <4>3
    <3>3. n + 1 \in P
      BY <1>1, <1>5, <2>1, <3>2
    <3>4. n + 1 <= n
      BY <1>4, <3>3
    <3> QED
      BY <1>5, <3>4
  <2>3. a[n + 1] \in Nat /\ b[n + 1] \in Nat
    <3>1. n + 1 \in 1 .. Len(a) /\ n + 1 \in 1 .. Len(b)
      BY <1>1, <1>5, <2>1
    <3> QED
      BY <1>2, <3>1
  <2>4. CASE a[n + 1] < b[n + 1]
    <3>1. LessAt(a, b, n)
      BY <1>1, <1>5, <2>1, <2>4 DEF LessAt
    <3> QED
      BY <1>5, <3>1, LexLessAt
  <2>5. CASE b[n + 1] < a[n + 1]
    <3>1. LessAt(b, a, n)
      BY <1>1, <1>5, <2>1, <2>5 DEF LessAt
    <3> QED
      BY <1>5, <3>1, LexLessAt
  <2> QED
    BY <2>2, <2>3, <2>4, <2>5
<1> QED
  BY <1>6, <1>7, <1>8, <1>9

(* The key's prefix is a sequence of token ids.                            *)
LEMMA PrefixType ==
  ASSUME NEW p \in Prompts
  PROVE  PromptPrefix(p) \in Seq(Nat)
<1>1. p \in Seq(Tokens) /\ Len(p) \in Nat /\ PrefixReorderTokens \in Nat
  BY PromptsAssumption, PrefixReorderAssumption, LenProperties
<1> DEFINE m == Min({PrefixReorderTokens, Len(p)})
<1>2. m \in 0 .. Len(p)
  BY <1>1, LeastOfTwo
<1> HIDE DEF m
<1>3. SubSeq(p, 1, m) \in Seq(Tokens)
  BY <1>1, <1>2, Cut
<1>4. SubSeq(p, 1, m) \in Seq(Nat)
  BY <1>3, TokenIdsAssumption, SeqMonotonic
<1> QED
  BY <1>4 DEF PromptPrefix, m

(* So the key orders the indices of the prompts totally.                   *)
LEMMA KeyOrders ==
  ASSUME NEW ps \in Seq(Prompts), NEW i \in DOMAIN ps, NEW j \in DOMAIN ps
  PROVE  /\ ~ComesBefore(ps, i, i)
         /\ i # j => ComesBefore(ps, i, j) \/ ComesBefore(ps, j, i)
         /\ \A k \in DOMAIN ps :
              ComesBefore(ps, i, j) /\ ComesBefore(ps, j, k) =>
                ComesBefore(ps, i, k)
<1>1. \A k \in DOMAIN ps : k \in Nat /\ PromptPrefix(ps[k]) \in Seq(Nat)
  BY PrefixType, LenProperties, ElementOfSeq
<1>2. PICK a \in Seq(Nat) : a = PromptPrefix(ps[i])
  BY <1>1
<1>3. PICK b \in Seq(Nat) : b = PromptPrefix(ps[j])
  BY <1>1
<1>4. ~ComesBefore(ps, i, i)
  BY <1>1, <1>2, LexIrreflexive DEF ComesBefore
<1>5. ASSUME i # j PROVE ComesBefore(ps, i, j) \/ ComesBefore(ps, j, i)
  <2>1. a # b => LexLess(a, b) \/ LexLess(b, a)
    BY LexTotal
  <2>2. i < j \/ j < i
    BY <1>1, <1>5
  <2> QED
    BY <1>2, <1>3, <2>1, <2>2 DEF ComesBefore
<1>6. ASSUME NEW k \in DOMAIN ps, ComesBefore(ps, i, j), ComesBefore(ps, j, k)
      PROVE  ComesBefore(ps, i, k)
  <2>1. PICK c \in Seq(Nat) : c = PromptPrefix(ps[k])
    BY <1>1
  <2>2. LexLess(a, b) \/ (a = b /\ i < j)
    BY <1>2, <1>3, <1>6 DEF ComesBefore
  <2>3. LexLess(b, c) \/ (b = c /\ j < k)
    BY <1>3, <1>6, <2>1 DEF ComesBefore
  <2>4. i < j /\ j < k => i < k
    BY <1>1
  <2>5. LexLess(a, c) \/ (a = c /\ i < k)
    BY <2>2, <2>3, <2>4, LexTransitive
  <2> QED
    BY <1>2, <2>1, <2>5 DEF ComesBefore
<1> QED
  BY <1>4, <1>5, <1>6

(* The indices before i, as many as i has places before it.                *)
Earlier(ps, i) == {j \in DOMAIN ps : ComesBefore(ps, j, i)}

(* No two indices have as many before them.                                *)
LEMMA EarlierCounts ==
  ASSUME NEW ps \in Seq(Prompts)
  PROVE  /\ \A i \in DOMAIN ps : Cardinality(Earlier(ps, i)) + 1 \in 1 .. Len(ps)
         /\ \A i, j \in DOMAIN ps :
              Cardinality(Earlier(ps, i)) = Cardinality(Earlier(ps, j)) => i = j
<1>1. Len(ps) \in Nat /\ DOMAIN ps = 1 .. Len(ps)
  BY LenProperties
<1>2. IsFiniteSet(DOMAIN ps) /\ Cardinality(DOMAIN ps) = Len(ps)
  <2>1. Cardinality(1 .. Len(ps)) = IF 1 > Len(ps) THEN 0 ELSE Len(ps) - 1 + 1
    BY <1>1, FS_Interval
  <2>2. IsFiniteSet(1 .. Len(ps))
    BY <1>1, FS_Interval
  <2> QED
    BY <1>1, <2>1, <2>2
<1>3. ASSUME NEW i \in DOMAIN ps
      PROVE  /\ Earlier(ps, i) \subseteq DOMAIN ps /\ i \notin Earlier(ps, i)
             /\ IsFiniteSet(Earlier(ps, i))
             /\ Cardinality(Earlier(ps, i)) \in Nat
             /\ Cardinality(Earlier(ps, i)) < Len(ps)
  <2>1. Earlier(ps, i) \subseteq DOMAIN ps /\ i \notin Earlier(ps, i)
    BY KeyOrders DEF Earlier
  <2>2. /\ IsFiniteSet(Earlier(ps, i))
        /\ Cardinality(Earlier(ps, i)) <= Cardinality(DOMAIN ps)
        /\ Cardinality(Earlier(ps, i)) # Cardinality(DOMAIN ps)
    BY <1>2, <2>1, FS_Subset
  <2>3. Cardinality(Earlier(ps, i)) \in Nat
    BY <2>2, FS_CardinalityType
  <2> QED
    BY <1>1, <1>2, <2>1, <2>2, <2>3
<1>4. ASSUME NEW i \in DOMAIN ps, NEW j \in DOMAIN ps, ComesBefore(ps, i, j)
      PROVE  Cardinality(Earlier(ps, i)) < Cardinality(Earlier(ps, j))
  <2>1. Earlier(ps, i) \subseteq Earlier(ps, j)
    BY <1>4, KeyOrders DEF Earlier
  <2>2. i \in Earlier(ps, j) /\ i \notin Earlier(ps, i)
    BY <1>3, <1>4 DEF Earlier
  <2>3. /\ Cardinality(Earlier(ps, i)) <= Cardinality(Earlier(ps, j))
        /\ Cardinality(Earlier(ps, i)) # Cardinality(Earlier(ps, j))
    BY <1>3, <2>1, <2>2, FS_Subset
  <2> QED
    BY <1>3, <2>3
<1>5. ASSUME NEW i \in DOMAIN ps, NEW j \in DOMAIN ps,
             Cardinality(Earlier(ps, i)) = Cardinality(Earlier(ps, j))
      PROVE  i = j
  <2>1. ~ComesBefore(ps, i, j) /\ ~ComesBefore(ps, j, i)
    BY <1>3, <1>4, <1>5
  <2> QED
    BY <2>1, KeyOrders
<1>6. ASSUME NEW i \in DOMAIN ps
      PROVE  Cardinality(Earlier(ps, i)) + 1 \in 1 .. Len(ps)
  BY <1>1, <1>3
<1> QED
  BY <1>5, <1>6

(* An order of addition: each index of the prompts once.                   *)
OrderOf(o, ps) ==
  /\ o \in Seq(DOMAIN ps) /\ Len(o) = Len(ps)
  /\ Range(o) = DOMAIN ps /\ IsInjective(o)

(* Sorting puts each index in one place.                                   *)
LEMMA ReorderedIsOrder ==
  ASSUME NEW ps \in Seq(Prompts)
  PROVE  OrderOf(ReorderedByPrefix(ps), ps)
<1> DEFINE N == DOMAIN ps
           place == [i \in N |-> Cardinality(Earlier(ps, i)) + 1]
<1>1. Len(ps) \in Nat /\ N = 1 .. Len(ps) /\ IsFiniteSet(N)
  <2>1. Len(ps) \in Nat /\ N = 1 .. Len(ps)
    BY LenProperties
  <2> QED
    BY <2>1, FS_Interval
<1>2. \A i \in N : Cardinality(Earlier(ps, i)) \in Nat
  <2>1. ASSUME NEW i \in N PROVE Cardinality(Earlier(ps, i)) \in Nat
    <3>1. Earlier(ps, i) \subseteq N
      BY DEF Earlier
    <3> HIDE DEF N
    <3>2. IsFiniteSet(Earlier(ps, i))
      BY <1>1, <3>1, FS_Subset
    <3> QED
      BY <3>2, FS_CardinalityType
  <2> QED
    BY <2>1
<1>3. place \in [N -> N]
  BY <1>1, EarlierCounts
<1>4. \A i, j \in N : place[i] = place[j] => i = j
  BY <1>2, EarlierCounts
<1>5. \A i \in N : place[i] = Cardinality(Earlier(ps, i)) + 1
  OBVIOUS
<1> HIDE DEF N, place
<1>6. place \in Injection(N, N)
  BY <1>3, <1>4, Fun_IsInj
<1>7. place \in Surjection(N, N)
  BY <1>1, <1>6, FS_Injection
<1>8. ASSUME NEW k \in N
      PROVE  /\ ReorderedByPrefix(ps)[k] \in N
             /\ Cardinality(Earlier(ps, ReorderedByPrefix(ps)[k])) = k - 1
  <2>1. PICK i \in N : place[i] = k
    BY <1>7, Fun_SurjectionProperties
  <2>2. k \in Nat
    BY <1>1
  <2>3. Cardinality(Earlier(ps, i)) = k - 1
    BY <1>2, <1>5, <2>1, <2>2
  <2>4. ReorderedByPrefix(ps)[k]
          = CHOOSE x \in N : Cardinality(Earlier(ps, x)) = k - 1
    BY DEF ReorderedByPrefix, Earlier, N
  <2> QED
    BY <2>3, <2>4
<1>9. DOMAIN ReorderedByPrefix(ps) = N
  BY DEF ReorderedByPrefix, N
<1>10. PICK o : o = ReorderedByPrefix(ps)
  OBVIOUS
<1>11. o \in [1 .. Len(ps) -> N]
  <2> DEFINE Chosen(k) ==
               CHOOSE i \in N :
                 Cardinality({j \in N : ComesBefore(ps, j, i)}) = k - 1
  <2>1. o = [k \in N |-> Chosen(k)]
    BY <1>10 DEF ReorderedByPrefix, N
  <2> HIDE DEF Chosen
  <2>2. \A k \in N : Chosen(k) \in N
    BY <1>8, <1>10, <2>1
  <2> QED
    BY <1>1, <2>1, <2>2
<1>12. o \in Seq(N) /\ Len(o) = Len(ps)
  BY <1>1, <1>11
<1>13. IsInjective(o)
  <2>1. ASSUME NEW k \in N, NEW l \in N, o[k] = o[l] PROVE k = l
    <3>1. k - 1 = l - 1 /\ k \in Nat /\ l \in Nat
      BY <1>1, <1>8, <1>10, <2>1
    <3> QED
      BY <3>1
  <2> QED
    BY <1>9, <1>10, <2>1 DEF IsInjective
<1>14. Range(o) = N
  <2>1. ASSUME NEW i \in N PROVE i \in Range(o)
    <3>1. place[i] \in N
      BY <1>3
    <3>2. /\ Cardinality(Earlier(ps, o[place[i]])) = place[i] - 1
          /\ o[place[i]] \in N
      BY <1>8, <1>10, <3>1
    <3>3. place[o[place[i]]] = place[i]
      BY <1>2, <1>5, <3>2
    <3>4. o[place[i]] = i
      BY <1>4, <3>2, <3>3
    <3> QED
      BY <1>9, <1>10, <3>1, <3>4 DEF Range
  <2>2. ASSUME NEW x \in Range(o) PROVE x \in N
    BY <1>8, <1>9, <1>10 DEF Range
  <2> QED
    BY <2>1, <2>2
<1> QED
  BY <1>10, <1>12, <1>13, <1>14 DEF OrderOf, N

(* So does taking them as they come.                                       *)
LEMMA PlainIsOrder ==
  ASSUME NEW ps \in Seq(Prompts)
  PROVE  OrderOf([i \in DOMAIN ps |-> i], ps)
<1>1. Len(ps) \in Nat /\ DOMAIN ps = 1 .. Len(ps)
  BY LenProperties
<1>2. PICK o : o = [i \in DOMAIN ps |-> i]
  OBVIOUS
<1>3. o \in [1 .. Len(ps) -> DOMAIN ps] /\ DOMAIN o = DOMAIN ps
  BY <1>1, <1>2
<1>4. o \in Seq(DOMAIN ps) /\ Len(o) = Len(ps)
  BY <1>1, <1>3
<1>5. Range(o) = DOMAIN ps /\ IsInjective(o)
  BY <1>2 DEF Range, IsInjective
<1> QED
  BY <1>2, <1>4, <1>5 DEF OrderOf

-----------------------------------------------------------------------------
(* What the engine keeps.                                                  *)

Asked == {s \in Seqs : tok[s] # <<>>}

(* The completion of s is complete, as Complete(s) of RequestService says. *)
SaidAll(s) ==
  /\ completion_token_ids(s) # <<>>
  /\ \/ Len(completion_token_ids(s)) = MaxTokens
     \/ /\ s \notin IgnoreEos
        /\ completion_token_ids(s)[Len(completion_token_ids(s))] = Eos

(* The scheduler finishes a request exactly when its completion is.        *)
Answered(s) ==
  /\ tok[s] = <<>> <=> status[s] = "NONE"
  /\ numPrompt[s] <= Len(tok[s])
  /\ status[s] = "FINISHED" <=> SaidAll(s)

(* What was returned for s is its completion, once; a finished request     *)
(* that was not returned yet is of the step in progress.                   *)
GivenOut(s) ==
  /\ outputs[s] # <<>> =>
       status[s] = "FINISHED" /\ outputs[s] = <<completion_token_ids(s)>>
  /\ status[s] = "FINISHED" /\ outputs[s] = <<>> =>
       phase = "postprocess" /\ s \in Range(stepSeqs)

InStep ==
  phase = "postprocess" =>
    /\ Range(batch) \subseteq Range(stepSeqs)
    /\ \A s \in Range(stepSeqs) : outputs[s] = <<>>

(* The call of generate: an index no longer in order has its request, and  *)
(* the counter has numbers left for those in it.                           *)
IndexAdded(i) ==
  /\ sequence_ids[i] \in Asked
  /\ order # <<>> => outputs[sequence_ids[i]] = <<>>

Adding ==
  /\ prompts = <<>> => order = <<>> /\ sequence_ids = <<>>
  /\ \A i \in DOMAIN prompts : i \notin Range(order) => IndexAdded(i)
  /\ order # <<>> => /\ phase = "idle"
                     /\ next_id + Len(order) <= Cardinality(Seqs) + 1

EngineTypes ==
  /\ prompts \in Seq(Prompts) /\ Len(prompts) <= Cardinality(Seqs)
  /\ order \in Seq(DOMAIN prompts) /\ IsInjective(order)
  /\ sequence_ids \in [DOMAIN prompts -> Seqs \cup {0}]
  /\ outputs \in [Seqs -> Seq(Seq(Tokens))]
  /\ stepSeqs \in Seq(Seqs)

Numbered == Asked = 1 .. next_id - 1

EngineOnly ==
  /\ EngineTypes
  /\ \A s \in Seqs : Answered(s) /\ GivenOut(s)
  /\ InStep
  /\ Adding
  /\ Numbered

-----------------------------------------------------------------------------
(* The completion of a request.                                            *)

(* The end of a sequence grows with it.                                    *)
LEMMA SuffixGrows ==
  ASSUME NEW T, NEW q \in Seq(T), NEW e \in T, NEW k \in 0 .. Len(q)
  PROVE  SubSeq(Append(q, e), k + 1, Len(q) + 1)
           = Append(SubSeq(q, k + 1, Len(q)), e)
<1>1. PICK n \in Nat : n = Len(q)
  BY LenProperties
<1>2. PICK long \in Seq(T) : long = Append(q, e)
  BY AppendProperties
<1>3. /\ Len(long) = n + 1 /\ k \in 0 .. n /\ k \in 0 .. n + 1
      /\ \A i \in 1 .. n : long[i] = q[i]
      /\ long[n + 1] = e
  BY <1>1, <1>2, AppendProperties
<1>4. PICK a \in Seq(T) : a = SubSeq(long, k + 1, n + 1)
  BY <1>3, Cut
<1>5. Len(a) = n + 1 - k /\ \A i \in 1 .. n + 1 - k : a[i] = long[k + i]
  BY <1>3, <1>4, Cut
<1>6. PICK c \in Seq(T) : c = SubSeq(q, k + 1, n)
  BY <1>1, <1>3, Cut
<1>7. Len(c) = n - k /\ \A i \in 1 .. n - k : c[i] = q[k + i]
  BY <1>1, <1>3, <1>6, Cut
<1>8. /\ Append(c, e) \in Seq(T) /\ Len(Append(c, e)) = n - k + 1
      /\ \A i \in 1 .. n - k : Append(c, e)[i] = c[i]
      /\ Append(c, e)[n - k + 1] = e
  BY <1>7, AppendProperties
<1>9. ASSUME NEW i \in 1 .. n + 1 - k PROVE a[i] = Append(c, e)[i]
  <2>1. CASE i = n + 1 - k
    <3>1. k + i = n + 1 /\ i = n - k + 1
      BY <1>3, <2>1
    <3> QED
      BY <1>3, <1>5, <1>8, <3>1
  <2>2. CASE i # n + 1 - k
    <3>1. i \in 1 .. n - k /\ k + i \in 1 .. n
      BY <1>3, <2>2
    <3> QED
      BY <1>3, <1>5, <1>7, <1>8, <3>1
  <2> QED
    BY <2>1, <2>2
<1>10. Len(a) = Len(Append(c, e))
  BY <1>3, <1>5, <1>8
<1>11. a = Append(c, e)
  BY <1>5, <1>8, <1>9, <1>10, SeqEqual
<1> QED
  BY <1>1, <1>2, <1>4, <1>6, <1>11

(* The completion has the tokens after the prompt.                         *)
LEMMA CompletionType ==
  ASSUME TypeOK, NEW s \in Seqs, numPrompt[s] <= Len(tok[s])
  PROVE  /\ completion_token_ids(s) \in Seq(Tokens)
         /\ Len(completion_token_ids(s)) = num_completion_tokens(s)
         /\ num_completion_tokens(s) \in Nat
<1>1. tok[s] \in Seq(Tokens) /\ numPrompt[s] \in Nat /\ Len(tok[s]) \in Nat
  BY LenProperties DEF TypeOK
<1>2. numPrompt[s] \in 0 .. Len(tok[s])
  BY <1>1
<1>3. PICK q \in Seq(Tokens) : q = tok[s]
  BY <1>1
<1>4. PICK k \in 0 .. Len(q) : k = numPrompt[s]
  BY <1>2, <1>3
<1>5. /\ SubSeq(q, k + 1, Len(q)) \in Seq(Tokens)
      /\ Len(SubSeq(q, k + 1, Len(q))) = Len(q) - k
  BY ONLY Cut
<1>6. completion_token_ids(s) = SubSeq(q, k + 1, Len(q))
  BY <1>3, <1>4 DEF completion_token_ids
<1>7. num_completion_tokens(s) = Len(q) - k
  BY <1>3, <1>4 DEF num_completion_tokens
<1>8. Len(q) - k \in Nat
  BY <1>1, <1>3, <1>4
<1> QED
  BY <1>5, <1>6, <1>7, <1>8

(* A sampled token is the next one of its request's completion.            *)
LEMMA CompletionGrows ==
  ASSUME TypeOK, NEW s \in Seqs, NEW t \in Tokens, numPrompt[s] <= Len(tok[s]),
         tok' = [tok EXCEPT ![s] = Append(tok[s], t)], numPrompt' = numPrompt
  PROVE  /\ completion_token_ids(s)' = Append(completion_token_ids(s), t)
         /\ \A x \in Seqs : x # s =>
              completion_token_ids(x)' = completion_token_ids(x)
         /\ numPrompt'[s] <= Len(tok'[s])
         /\ tok'[s] # <<>>
<1>1. tok[s] \in Seq(Tokens) /\ numPrompt[s] \in Nat /\ Len(tok[s]) \in Nat
  BY LenProperties DEF TypeOK
<1>2. numPrompt[s] \in 0 .. Len(tok[s])
  BY <1>1
<1>3. /\ tok'[s] = Append(tok[s], t)
      /\ \A x \in Seqs : x # s => tok'[x] = tok[x]
  BY DEF TypeOK
<1>4. Len(tok'[s]) = Len(tok[s]) + 1 /\ tok'[s] # <<>>
  BY <1>1, <1>3, AppendProperties
<1>5. completion_token_ids(s)' = Append(completion_token_ids(s), t)
  BY <1>1, <1>2, <1>3, <1>4, SuffixGrows DEF completion_token_ids
<1>6. \A x \in Seqs : x # s =>
        completion_token_ids(x)' = completion_token_ids(x)
  BY <1>3 DEF completion_token_ids
<1>7. numPrompt'[s] <= Len(tok'[s])
  BY <1>1, <1>4
<1> QED
  BY <1>4, <1>5, <1>6, <1>7

(* A completion that grows was not complete, and is so when the new token  *)
(* is the last.                                                            *)
LEMMA SaidAllGrows ==
  ASSUME TypeOK, NEW s \in Seqs, NEW t \in Tokens, numPrompt[s] <= Len(tok[s]),
         tok' = [tok EXCEPT ![s] = Append(tok[s], t)], numPrompt' = numPrompt
  PROVE  SaidAll(s)' <=> Finishes(s, t)
<1>1. PICK c \in Seq(Tokens) : c = completion_token_ids(s)
  BY CompletionType
<1>2. Len(c) = num_completion_tokens(s) /\ num_completion_tokens(s) \in Nat
  BY <1>1, CompletionType
<1>3. completion_token_ids(s)' = Append(c, t)
  BY <1>1, CompletionGrows
<1>4. /\ Append(c, t) # <<>> /\ Len(Append(c, t)) = Len(c) + 1
      /\ Append(c, t)[Len(c) + 1] = t
  BY <1>1, AppendProperties
<1> QED
  BY <1>2, <1>3, <1>4 DEF SaidAll, Finishes

-----------------------------------------------------------------------------
(* The scheduler's steps, as the engine sees them.                         *)

(* No request is made, says a token or finishes.                           *)
QuietFor(s) ==
  \/ status'[s] = status[s]
  \/ status[s] \in {"WAITING", "RUNNING"} /\ status'[s] \in {"WAITING", "RUNNING"}

Quiet == UNCHANGED <<tok, numPrompt>> /\ \A s \in Seqs : QuietFor(s)

(* One request moves between the queues.                                   *)
LEMMA MoveQuiet ==
  ASSUME SchedTypeOK, UNCHANGED <<tok, numPrompt>>, NEW s, NEW to,
         s \in Seqs => status[s] \in {"WAITING", "RUNNING"},
         to \in {"WAITING", "RUNNING"},
         status' = [status EXCEPT ![s] = to]
  PROVE  Quiet
<1>1. ASSUME NEW x \in Seqs PROVE QuietFor(x)
  <2>1. x = s => status'[x] = to
    BY <1>1 DEF SchedTypeOK
  <2>2. x # s => status'[x] = status[x]
    BY <1>1 DEF SchedTypeOK
  <2> QED
    BY <2>1, <2>2 DEF QuietFor
<1> QED
  BY <1>1 DEF Quiet

(* An iteration of schedule()'s loops is quiet.                            *)
LEMMA ScheduleQuiet ==
  ASSUME TypeOK, SInv,
         \/ StartStep \/ PreemptLast \/ ScheduleDecode \/ DecodeDone
         \/ PrefillReject \/ PrefillAdmit \/ PrefillContinue \/ PrefillDone
  PROVE  /\ Quiet
         /\ phase # "postprocess" /\ phase' # "postprocess"
<1>0. SchedTypeOK /\ Queues
  BY DEF SInv
<1>1. ASSUME UNCHANGED <<tok, numPrompt, status>> PROVE Quiet
  BY <1>1 DEF Quiet, QuietFor
<1>2. CASE StartStep
  BY <1>1, <1>2 DEF StartStep, vars, queueVars
<1>3. CASE DecodeDone
  BY <1>1, <1>3 DEF DecodeDone, vars
<1>4. CASE PrefillDone
  BY <1>1, <1>4 DEF PrefillDone, vars, queueVars
<1>5. CASE PreemptLast
  <2>1. PICK s : s = Last(running)
    OBVIOUS
  <2>2. /\ phase = "decode" /\ running # <<>> /\ phase' = phase
        /\ UNCHANGED <<tok, numPrompt>>
        /\ status' = [status EXCEPT ![s] = "WAITING"]
    BY <1>5, <2>1 DEF PreemptLast, DecodeMayTakeMore, Preempt
  <2>3. s \in Range(running)
    BY <1>0, <2>1, <2>2, FrontQueue DEF SchedTypeOK
  <2>4. s \in Runs
    BY <1>0, <2>2, <2>3 DEF Queues
  <2>5. Quiet
    BY <1>0, <2>2, <2>4, MoveQuiet DEF Runs
  <2> QED
    BY <2>2, <2>5
<1>6. CASE ScheduleDecode
  <2>1. PICK s : s = Head(running)
    OBVIOUS
  <2>2. /\ phase = "decode" /\ phase' = phase /\ status' = status
        /\ MayAppend(s)
    BY <1>6, <2>1 DEF ScheduleDecode, DecodeMayTakeMore
  <2>3. UNCHANGED <<tok, numPrompt>>
    BY <2>2 DEF MayAppend, vars
  <2> QED
    BY <1>1, <2>2, <2>3
<1>7. CASE PrefillReject
  <2>1. /\ phase = "prefill" /\ phase' = phase /\ status' = status
        /\ \E c : RejectedLookup(Head(waiting), c)
    BY <1>7 DEF PrefillReject, PrefillMayTakeMore
  <2>2. UNCHANGED <<tok, numPrompt>>
    BY <2>1 DEF RejectedLookup, seqVars
  <2> QED
    BY <1>1, <2>1, <2>2
<1>8. ASSUME NEW s, s = Head(waiting), PrefillMayTakeMore, NEW done,
             ScheduleChunk(s, done), UNCHANGED <<tok, numPrompt>>
      PROVE  Quiet /\ phase # "postprocess" /\ phase' # "postprocess"
  <2>1. phase = "prefill" /\ phase' = phase
    BY <1>8 DEF PrefillMayTakeMore, ScheduleChunk
  <2>2. s \in Seqs /\ status[s] = "WAITING"
    BY <1>8, NextWaiting
  <2>3. status' = status \/ status' = [status EXCEPT ![s] = "RUNNING"]
    BY <1>8 DEF ScheduleChunk
  <2>4. Quiet
    BY <1>0, <1>1, <1>8, <2>2, <2>3, MoveQuiet
  <2> QED
    BY <2>1, <2>4
<1>9. CASE PrefillAdmit
  <2>1. PICK s : s = Head(waiting)
    OBVIOUS
  <2>2. PrefillMayTakeMore
    BY <1>9 DEF PrefillAdmit
  <2>3. PICK c : Allocate(s, c) /\ ScheduleChunk(s, c * BlockSize)
    BY <1>9, <2>1 DEF PrefillAdmit
  <2>4. UNCHANGED <<tok, numPrompt>>
    BY <2>3 DEF Allocate
  <2> QED
    BY <1>8, <2>1, <2>2, <2>3, <2>4
<1>10. CASE PrefillContinue
  <2>1. PICK s : s = Head(waiting)
    OBVIOUS
  <2>2. PrefillMayTakeMore /\ ScheduleChunk(s, numCached[s]) /\ UNCHANGED vars
    BY <1>10, <2>1 DEF PrefillContinue
  <2> QED
    BY <1>8, <2>1, <2>2 DEF vars
<1> QED
  BY <1>2, <1>3, <1>4, <1>5, <1>6, <1>7, <1>9, <1>10

(* One sequence of the batch: more of its prompt, or its next token.       *)
LEMMA PostprocessSays ==
  ASSUME TypeOK, SInv
  PROVE  /\ PostprocessChunk => Quiet
         /\ \A t \in Tokens :
              PostprocessToken(t) \/ PostprocessLast(t) =>
                LET s == Head(batch)
                IN  /\ s \in Seqs /\ s \in Range(batch)
                    /\ status[s] = "RUNNING"
                    /\ tok' = [tok EXCEPT ![s] = Append(tok[s], t)]
                    /\ numPrompt' = numPrompt
                    /\ IF Finishes(s, t)
                       THEN status' = [status EXCEPT ![s] = "FINISHED"]
                       ELSE status' = status
         /\ (PostprocessChunk
             \/ \E t \in Tokens : PostprocessToken(t) \/ PostprocessLast(t)) =>
              /\ phase = "postprocess" /\ phase' = "postprocess"
              /\ Range(batch') \subseteq Range(batch)
<1>1. ASSUME PostprocessChunk PROVE Quiet
  BY <1>1 DEF PostprocessChunk, ComputeChunk, Quiet, QuietFor
<1>2. ASSUME NEW t \in Tokens, PostprocessToken(t) \/ PostprocessLast(t)
      PROVE  LET s == Head(batch)
             IN  /\ s \in Seqs /\ s \in Range(batch)
                 /\ status[s] = "RUNNING"
                 /\ tok' = [tok EXCEPT ![s] = Append(tok[s], t)]
                 /\ numPrompt' = numPrompt
                 /\ IF Finishes(s, t)
                    THEN status' = [status EXCEPT ![s] = "FINISHED"]
                    ELSE status' = status
  <2>1. PICK s : s = Head(batch)
    OBVIOUS
  <2>2. phase = "postprocess" /\ batch # <<>> /\ ~MorePrompt(s)
    BY <1>2, <2>1 DEF PostprocessToken, PostprocessLast
  <2>3. s \in Seqs /\ s \in Range(batch) /\ status[s] = "RUNNING"
    BY <2>1, <2>2, Computed
  <2>4. /\ tok' = [tok EXCEPT ![s] = Append(tok[s], t)]
        /\ numPrompt' = numPrompt
    BY <1>2, <2>1 DEF PostprocessToken, PostprocessLast, ComputeToken, ComputeLast
  <2>5. IF Finishes(s, t) THEN status' = [status EXCEPT ![s] = "FINISHED"]
        ELSE status' = status
    BY <1>2, <2>1 DEF PostprocessToken, PostprocessLast
  <2> QED
    BY <2>1, <2>3, <2>4, <2>5
<1>3. ASSUME PostprocessChunk
             \/ \E t \in Tokens : PostprocessToken(t) \/ PostprocessLast(t)
      PROVE  /\ phase = "postprocess" /\ phase' = "postprocess"
             /\ Range(batch') \subseteq Range(batch)
  <2>1. /\ phase = "postprocess" /\ phase' = phase
        /\ batch # <<>> /\ batch' = Tail(batch)
    BY <1>3 DEF PostprocessChunk, PostprocessToken, PostprocessLast, Postprocessed
  <2>2. Range(Tail(batch)) \subseteq Range(batch)
    BY <2>1, Computed
  <2> QED
    BY <2>1, <2>2
<1> QED
  BY <1>1, <1>2, <1>3

-----------------------------------------------------------------------------
(* The engine as RequestService sees it.                                   *)

Said == [s \in Seqs |-> completion_token_ids(s)]
Called == IF order = <<>> THEN sequence_ids ELSE <<>>

(* Nothing a client sees changes.                                          *)
LEMMA NothingSeen ==
  ASSUME Asked' = Asked, Said' = Said, outputs' = outputs, Called' = Called,
         results' = results
  PROVE  UNCHANGED Service!serviceVars
BY DEF Service!serviceVars, Asked, Said, Called

(* RequestService's Complete, with the engine's state for its own.         *)
LEMMA SeenComplete ==
  ASSUME NEW s \in Seqs
  PROVE  Service!Complete(s) <=> SaidAll(s)
BY DEF Service!Complete, SaidAll

(* RequestService counts as the engine does.                               *)
LEMMA SameCount ==
  ASSUME NEW S
  PROVE  Service!Cardinality(S) = Cardinality(S)
BY DEF Service!Cardinality, Cardinality

(* A new request is asked for.                                             *)
LEMMA SeenAsk ==
  ASSUME NEW s \in Seqs, s \notin Asked, Asked' = Asked \cup {s}, Said' = Said,
         outputs' = outputs, Called' = Called, results' = results
  PROVE  Service!ServiceNext
<1>1. Service!Ask(s)
  BY DEF Service!Ask, Asked, Said, Called
<1> QED
  BY <1>1 DEF Service!ServiceNext

(* With the last of its requests the call is made.                         *)
LEMMA SeenGenerate ==
  ASSUME NEW n \in 1 .. Cardinality(Seqs), Called = <<>>,
         Called' \in [1 .. n -> Seqs],
         NEW k \in 1 .. n, Called'[k] \notin Asked,
         Asked' = Asked \cup {Called'[k]},
         \A i \in 1 .. n : Called'[i] \in Asked' /\ outputs[Called'[i]] = <<>>,
         Said' = Said, outputs' = outputs, results' = results
  PROVE  Service!ServiceNext
<1>1. PICK rs \in [1 .. n -> Seqs] : rs = Called'
  OBVIOUS
<1>2. Len(rs) = n
  BY <1>1
<1>3. Service!Generate(rs)
  <2>1. \E i \in 1 .. Len(rs) : rs[i] \notin Asked /\ Asked' = Asked \cup {rs[i]}
    BY <1>1, <1>2
  <2>2. \A i \in 1 .. Len(rs) : rs[i] \in Asked' /\ outputs[rs[i]] = <<>>
    BY <1>1, <1>2
  <2> QED
    BY <1>1, <2>1, <2>2 DEF Service!Generate, Asked, Said, Called
<1>4. \E m \in 1 .. Cardinality(Seqs) : \E x \in [1 .. m -> Seqs] :
        Service!Generate(x)
  <2> WITNESS n \in 1 .. Cardinality(Seqs)
  <2> WITNESS rs \in [1 .. n -> Seqs]
  <2> QED
    BY <1>3
<1> QED
  BY <1>4, SameCount DEF Service!ServiceNext

(* A completion that is not complete has one token more.                   *)
LEMMA SeenSay ==
  ASSUME NEW s \in Seqs, NEW t \in Tokens, s \in Asked, ~SaidAll(s),
         Said' = [Said EXCEPT ![s] = Append(Said[s], t)],
         Asked' = Asked, outputs' = outputs, Called' = Called, results' = results
  PROVE  Service!ServiceNext
<1>1. ~Service!Complete(s)
  BY SeenComplete
<1>2. Service!Say(s, t)
  BY <1>1 DEF Service!Say, Asked, Said, Called
<1> QED
  BY <1>2 DEF Service!ServiceNext, Service!Work

(* The complete completions not given out yet.                             *)
Ready == {s \in Asked : SaidAll(s) /\ outputs[s] = <<>>}

(* They are given out together, or there are none.                         *)
LEMMA SeenGive ==
  ASSUME outputs \in [Seqs -> Seq(Seq(Tokens))],
         outputs' = [s \in Seqs |-> IF s \in Ready THEN <<Said[s]>>
                                    ELSE outputs[s]],
         Said' = Said, Asked' = Asked, Called' = Called, results' = results
  PROVE  [Service!ServiceNext]_(Service!serviceVars)
<1>1. CASE Ready = {}
  <2>1. outputs' = outputs
    BY <1>1
  <2> QED
    BY <2>1, NothingSeen
<1>2. CASE Ready # {}
  <2>1. Ready = {r \in Asked : Service!Complete(r) /\ outputs[r] = <<>>}
    BY SeenComplete DEF Ready, Asked
  <2>2. Service!Give
    BY <1>2, <2>1 DEF Service!Give, Asked, Said, Called
  <2> QED
    BY <2>2 DEF Service!ServiceNext, Service!Work
<1> QED
  BY <1>1, <1>2

(* The call returns the completions of its requests.                       *)
LEMMA SeenReturn ==
  ASSUME NEW n \in Nat \ {0}, Called \in [1 .. n -> Seqs], Called' = <<>>,
         \A i \in 1 .. n : outputs[Called[i]] # <<>>,
         results' = [i \in 1 .. n |-> outputs[Called[i]][1]],
         Said' = Said, Asked' = Asked, outputs' = outputs
  PROVE  Service!ServiceNext
<1>1. Len(Called) = n /\ Called # <<>>
  BY EmptySeq
<1>2. Service!Return
  BY <1>1 DEF Service!Return, Asked, Said, Called
<1> QED
  BY <1>2 DEF Service!ServiceNext, Service!Work

-----------------------------------------------------------------------------
(* The numbers of the requests.                                            *)

(* next_id is one more than the number of requests.                        *)
LEMMA NumbersGiven ==
  /\ IsFiniteSet(Asked) /\ next_id \in Nat \ {0}
  /\ Seqs = 1 .. Cardinality(Seqs) /\ Cardinality(Seqs) \in Nat
  /\ next_id = Cardinality(Asked) + 1
<1>1. Asked \in SUBSET Seqs
  BY DEF Asked
<1>2. IsFiniteSet(Asked)
  BY <1>1, SeqsAssumption, FS_Subset
<1>3. Cardinality(Asked) \in Nat /\ Cardinality(Seqs) \in Nat
  BY <1>2, SeqsAssumption, FS_CardinalityType
<1>4. next_id = Cardinality(Asked) + 1
  BY DEF next_id, Asked
<1> QED
  BY <1>2, <1>3, <1>4, SeqIdsAssumption

(* The counter gives each request the next number.                         *)
LEMMA NumberTaken ==
  ASSUME Numbered, Asked' = Asked \cup {next_id}
  PROVE  next_id \notin Asked /\ next_id' = next_id + 1 /\ Numbered'
<1>1. PICK n \in Nat \ {0} : n = next_id
  BY NumbersGiven
<1>2. Asked = 1 .. n - 1
  BY <1>1 DEF Numbered
<1>3. n \notin Asked
  BY <1>2
<1>4. Cardinality(Asked \cup {n}) = Cardinality(Asked) + 1
  BY <1>3, NumbersGiven, FS_AddElement
<1>5. next_id' = Cardinality(Asked') + 1
  BY DEF next_id, Asked
<1>6. next_id' = n + 1
  BY <1>1, <1>4, <1>5, NumbersGiven
<1>7. 1 .. n + 1 - 1 = (1 .. n - 1) \cup {n}
  BY <1>1
<1>8. Asked' = 1 .. n + 1 - 1
  BY <1>1, <1>2, <1>7
<1> QED
  BY <1>1, <1>3, <1>6, <1>8 DEF Numbered

-----------------------------------------------------------------------------
(* A new request.                                                          *)

(* add_request gives the request the next number; nothing is said for it.  *)
LEMMA NewRequest ==
  ASSUME JInv, EngineOnly, NEW p \in Prompts, next_id \in Seqs,
         AddRequest(next_id, p), UNCHANGED <<stepSeqs, outputs>>
  PROVE  /\ SchedNext
         /\ \A s \in Seqs : Answered(s)' /\ GivenOut(s)'
         /\ InStep' /\ Numbered'
         /\ phase = "idle" /\ phase' = "idle"
         /\ next_id \notin Asked /\ Asked' = Asked \cup {next_id}
         /\ next_id' = next_id + 1
         /\ Said' = Said
         /\ outputs[next_id] = <<>>
<1>1. PICK n \in Seqs : n = next_id
  OBVIOUS
<1>2. /\ phase = "idle" /\ phase' = "idle" /\ tok[n] = <<>>
      /\ tok' = [tok EXCEPT ![n] = p]
      /\ numPrompt' = [numPrompt EXCEPT ![n] = Len(p)]
      /\ status' = [status EXCEPT ![n] = "WAITING"]
  BY <1>1 DEF AddRequest, NewSequence
<1>3. TypeOK /\ SchedTypeOK
  BY DEF JInv, IInv, SInv
<1>4. p \in Seq(Tokens) /\ p # <<>> /\ Len(p) \in Nat
  BY PromptsAssumption, LenProperties
<1>5. /\ tok'[n] = p /\ numPrompt'[n] = Len(p) /\ status'[n] = "WAITING"
      /\ \A x \in Seqs : x # n => /\ tok'[x] = tok[x] /\ status'[x] = status[x]
                                  /\ numPrompt'[x] = numPrompt[x]
  BY <1>2, <1>3 DEF TypeOK, SchedTypeOK
<1>6. completion_token_ids(n)' = <<>> /\ completion_token_ids(n) = <<>>
  <2>1. SubSeq(p, Len(p) + 1, Len(p)) = <<>>
    BY <1>4, SubSeqEmpty
  <2>2. numPrompt[n] \in Nat /\ numPrompt[n] <= Len(tok[n])
    BY <1>3 DEF TypeOK, EngineOnly, Answered
  <2>3. Len(tok[n]) = 0
    BY <1>2, EmptySeq
  <2>4. numPrompt[n] = 0
    BY <2>2, <2>3
  <2>5. SubSeq(tok[n], 0 + 1, 0) = <<>>
    BY SubSeqEmpty
  <2> QED
    BY <1>5, <2>1, <2>3, <2>4, <2>5 DEF completion_token_ids
<1>7. \A x \in Seqs : completion_token_ids(x)' = completion_token_ids(x)
  BY <1>5, <1>6 DEF completion_token_ids
<1>8. Said' = Said
  BY <1>7 DEF Said
<1>9. Asked' = Asked \cup {n}
  BY <1>4, <1>5 DEF Asked
<1>10. next_id \notin Asked /\ next_id' = next_id + 1 /\ Numbered'
  BY <1>1, <1>9, NumberTaken DEF EngineOnly
<1>11. status[n] = "NONE" /\ outputs[n] = <<>>
  BY <1>2 DEF EngineOnly, Answered, GivenOut
<1>12. ASSUME NEW x \in Seqs PROVE Answered(x)' /\ GivenOut(x)'
  <2>1. CASE x = n
    <3>1. ~SaidAll(x)'
      BY <1>6, <2>1 DEF SaidAll
    <3> QED
      BY <1>4, <1>5, <1>11, <2>1, <3>1 DEF Answered, GivenOut
  <2>2. CASE x # n
    <3>1. Answered(x) /\ GivenOut(x) /\ (SaidAll(x)' <=> SaidAll(x))
      BY <1>7 DEF EngineOnly, SaidAll
    <3> QED
      BY <1>2, <1>5, <1>7, <2>2, <3>1 DEF Answered, GivenOut
  <2> QED
    BY <2>1, <2>2
<1>13. InStep'
  BY <1>2 DEF InStep
<1>14. SchedNext
  BY <1>1 DEF SchedNext
<1> QED
  BY <1>1, <1>2, <1>8, <1>9, <1>10, <1>11, <1>12, <1>13, <1>14

(* A request of a client that steps by itself.                             *)
LEMMA OnlineRequestStep ==
  ASSUME JInv, EngineOnly, NEW p \in Prompts, OnlineRequest(p)
  PROVE  /\ EngineOnly' /\ [SchedNext]_schedVars
         /\ [Service!ServiceNext]_(Service!serviceVars)
<1>1. /\ prompts = <<>> /\ next_id \in Seqs /\ AddRequest(next_id, p)
      /\ UNCHANGED <<prompts, order, sequence_ids>>
      /\ UNCHANGED <<stepSeqs, outputs, results>>
  BY DEF OnlineRequest, InGenerate, generateVars
<1>2. /\ SchedNext
      /\ \A s \in Seqs : Answered(s)' /\ GivenOut(s)'
      /\ InStep' /\ Numbered'
      /\ next_id \notin Asked /\ Asked' = Asked \cup {next_id} /\ Said' = Said
  BY <1>1, NewRequest
<1>3. order = <<>> /\ sequence_ids = <<>>
  BY <1>1 DEF EngineOnly, Adding
<1>4. Adding'
  BY <1>1, <1>3, EmptySeq DEF Adding
<1>5. EngineTypes'
  BY <1>1 DEF EngineOnly, EngineTypes
<1>6. Service!ServiceNext
  BY <1>1, <1>2, SeenAsk DEF Called
<1> QED
  BY <1>2, <1>4, <1>5, <1>6 DEF EngineOnly

(* A call of generate: nothing is asked for before its prompts are added.  *)
LEMMA GenerateStep ==
  ASSUME EngineOnly, NEW n \in 1 .. Cardinality(Seqs),
         NEW ps \in [1 .. n -> Prompts], NEW reorder \in BOOLEAN,
         Generate(ps, reorder)
  PROVE  /\ EngineOnly' /\ UNCHANGED schedVars
         /\ UNCHANGED Service!serviceVars
<1>1. /\ phase = "idle" /\ prompts = <<>> /\ prompts' = ps
      /\ next_id + Len(ps) <= Cardinality(Seqs) + 1
      /\ order' = ReorderedByPrefix(ps) \/ order' = [i \in DOMAIN ps |-> i]
      /\ sequence_ids' = [i \in DOMAIN ps |-> 0]
      /\ UNCHANGED schedVars /\ UNCHANGED <<stepSeqs, outputs, results>>
  BY DEF Generate, InGenerate
<1>2. /\ ps \in Seq(Prompts) /\ Len(ps) = n /\ n \in Nat /\ n # 0
      /\ n <= Cardinality(Seqs) /\ DOMAIN ps = 1 .. n
  BY NumbersGiven
<1>3. OrderOf(order', ps)
  BY <1>1, <1>2, ReorderedIsOrder, PlainIsOrder
<1>4. /\ order' \in Seq(DOMAIN ps) /\ Len(order') = n
      /\ Range(order') = DOMAIN ps /\ IsInjective(order')
  BY <1>2, <1>3 DEF OrderOf
<1>5. order' # <<>> /\ ps # <<>>
  BY <1>2, <1>4, EmptySeq
<1>6. Called = <<>> /\ Called' = <<>>
  BY <1>1, <1>5 DEF Called, EngineOnly, Adding
<1>7. /\ UNCHANGED <<tok, numPrompt, status, phase, batch>>
  BY <1>1 DEF schedVars, vars
<1>8. /\ Asked' = Asked /\ Said' = Said /\ next_id' = next_id
      /\ \A s \in Seqs : completion_token_ids(s)' = completion_token_ids(s)
  BY <1>7 DEF Asked, Said, next_id, completion_token_ids
<1>9. ASSUME NEW s \in Seqs PROVE Answered(s)' /\ GivenOut(s)'
  <2>1. Answered(s) /\ GivenOut(s) /\ (SaidAll(s)' <=> SaidAll(s))
    BY <1>8 DEF EngineOnly, SaidAll
  <2> QED
    BY <1>1, <1>7, <1>8, <2>1 DEF Answered, GivenOut
<1>10. InStep'
  BY <1>1, <1>7 DEF InStep
<1>11. Numbered'
  BY <1>8 DEF EngineOnly, Numbered
<1>12. EngineTypes'
  <2>1. sequence_ids' \in [DOMAIN ps -> Seqs \cup {0}]
    BY <1>1
  <2> QED
    BY <1>1, <1>2, <1>4, <2>1 DEF EngineOnly, EngineTypes
<1>13. Adding'
  <2>1. next_id' + Len(order') <= Cardinality(Seqs) + 1
    BY <1>1, <1>2, <1>4, <1>8
  <2> QED
    BY <1>1, <1>4, <1>5, <1>7, <2>1 DEF Adding
<1>14. UNCHANGED Service!serviceVars
  BY <1>1, <1>6, <1>8, NothingSeen
<1> QED
  BY <1>1, <1>9, <1>10, <1>11, <1>12, <1>13, <1>14 DEF EngineOnly

(* generate adds a prompt: the counter has a number for it, and with the   *)
(* last one its call is made.                                              *)
LEMMA AddPromptStep ==
  ASSUME JInv, EngineOnly, AddPrompt
  PROVE  /\ EngineOnly' /\ [SchedNext]_schedVars
         /\ [Service!ServiceNext]_(Service!serviceVars)
<1>1. PICK i : i = Head(order)
  OBVIOUS
<1>2. PICK s : s = next_id
  OBVIOUS
<1>3. /\ order # <<>> /\ AddRequest(s, prompts[i])
      /\ sequence_ids' = [sequence_ids EXCEPT ![i] = s]
      /\ order' = Tail(order)
      /\ UNCHANGED <<prompts, stepSeqs, outputs, results>>
  BY <1>1, <1>2 DEF AddPrompt
<1>4. EngineTypes /\ Adding /\ Numbered
  BY DEF EngineOnly
<1>5. /\ i \in DOMAIN prompts
      /\ order' \in Seq(DOMAIN prompts) /\ IsInjective(order')
      /\ Range(order') = Range(order) \ {i}
      /\ Len(order) \in Nat \ {0} /\ Len(order') = Len(order) - 1
  BY <1>1, <1>3, <1>4, TailQueue DEF EngineTypes
<1>6. s + Len(order) <= Cardinality(Seqs) + 1 /\ phase = "idle"
  BY <1>2, <1>3, <1>4 DEF Adding
<1>7. s \in Seqs
  <2>1. s \in 1 .. Cardinality(Seqs)
    BY <1>2, <1>5, <1>6, NumbersGiven
  <2> QED
    BY <2>1, NumbersGiven
<1>8. prompts[i] \in Prompts
  BY <1>4, <1>5, LenProperties, ElementOfSeq DEF EngineTypes
<1>9. /\ SchedNext
      /\ \A x \in Seqs : Answered(x)' /\ GivenOut(x)'
      /\ InStep' /\ Numbered' /\ phase' = "idle"
      /\ s \notin Asked /\ Asked' = Asked \cup {s} /\ Said' = Said
      /\ next_id' = s + 1
      /\ outputs[s] = <<>>
  BY <1>2, <1>3, <1>7, <1>8, NewRequest
<1>10. /\ sequence_ids' \in [DOMAIN prompts -> Seqs \cup {0}]
       /\ sequence_ids'[i] = s
       /\ \A j \in DOMAIN prompts : j # i => sequence_ids'[j] = sequence_ids[j]
  BY <1>3, <1>4, <1>5, <1>7 DEF EngineTypes
<1>11. EngineTypes'
  BY <1>3, <1>4, <1>5, <1>10 DEF EngineTypes
<1>12. ASSUME NEW j \in DOMAIN prompts, j \notin Range(order')
       PROVE  sequence_ids'[j] \in Asked' /\ outputs[sequence_ids'[j]] = <<>>
  <2>1. CASE j = i
    BY <1>9, <1>10, <2>1
  <2>2. CASE j # i
    <3>1. j \notin Range(order)
      BY <1>5, <1>12, <2>2
    <3>2. sequence_ids[j] \in Asked /\ outputs[sequence_ids[j]] = <<>>
      BY <1>3, <1>4, <3>1 DEF Adding, IndexAdded
    <3> QED
      BY <1>9, <1>10, <2>2, <3>2
  <2> QED
    BY <2>1, <2>2
<1>13. Adding'
  <2>1. prompts' # <<>>
    BY <1>3, <1>5
  <2>2. next_id' + Len(order') <= Cardinality(Seqs) + 1
    <3>1. Cardinality(Seqs) \in Nat /\ s \in Nat
      BY <1>2, NumbersGiven
    <3> QED
      BY <1>5, <1>6, <1>9, <3>1
  <2>3. \A j \in DOMAIN prompts' : j \notin Range(order') => IndexAdded(j)'
    BY <1>3, <1>12 DEF IndexAdded
  <2> QED
    BY <1>9, <2>1, <2>2, <2>3 DEF Adding
<1>14. Called = <<>>
  BY <1>3 DEF Called
<1>15. CASE order' # <<>>
  <2>1. Called' = <<>>
    BY <1>15 DEF Called
  <2>2. Service!ServiceNext
    BY <1>3, <1>7, <1>9, <1>14, <2>1, SeenAsk
  <2> QED
    BY <1>9, <1>11, <1>13, <2>2 DEF EngineOnly
<1>16. CASE order' = <<>>
  <2>1. PICK ids : ids = sequence_ids'
    OBVIOUS
  <2>2. Called' = ids
    BY <1>16, <2>1 DEF Called
  <2>3. PICK n \in Nat : n = Len(prompts) /\ DOMAIN prompts = 1 .. n
    BY <1>4, LenProperties DEF EngineTypes
  <2>4. n \in 1 .. Cardinality(Seqs)
    <3>1. n <= Cardinality(Seqs) /\ Cardinality(Seqs) \in Nat
      BY <1>4, <2>3, NumbersGiven DEF EngineTypes
    <3>2. i \in 1 .. n
      BY <1>5, <2>3
    <3> QED
      BY <3>1, <3>2
  <2>5. Range(order') = {}
    BY <1>16, <1>5, NonemptyQueue
  <2>6. \A j \in 1 .. n : ids[j] \in Asked' /\ outputs[ids[j]] = <<>>
    BY <1>12, <2>1, <2>3, <2>5
  <2>7. ids \in [1 .. n -> Seqs]
    <3>1. Asked' \subseteq Seqs
      BY DEF Asked
    <3>2. DOMAIN ids = 1 .. n /\ ids = [j \in 1 .. n |-> ids[j]]
      BY <1>10, <2>1, <2>3
    <3>3. \A j \in 1 .. n : ids[j] \in Seqs
      BY <2>6, <3>1
    <3> QED
      BY <3>2, <3>3
  <2>8. i \in 1 .. n /\ ids[i] = s
    BY <1>5, <1>10, <2>1, <2>3
  <2>9. Service!ServiceNext
    BY <1>3, <1>9, <1>14, <2>2, <2>4, <2>6, <2>7, <2>8, SeenGenerate
  <2> QED
    BY <1>9, <1>11, <1>13, <2>9 DEF EngineOnly
<1> QED
  BY <1>15, <1>16

-----------------------------------------------------------------------------
(* A step.                                                                 *)

(* While nothing is added a step keeps what was asked for in the call.     *)
LEMMA StepKeepsCall ==
  ASSUME EngineOnly, order = <<>>, UNCHANGED <<prompts, order, sequence_ids>>,
         Asked' = Asked
  PROVE  Adding' /\ Numbered' /\ Called' = Called
<1>1. next_id' = next_id
  BY DEF next_id, Asked
<1>2. Numbered'
  BY <1>1 DEF EngineOnly, Numbered
<1>3. Adding'
  BY DEF EngineOnly, Adding, IndexAdded
<1> QED
  BY <1>2, <1>3 DEF Called

(* A quiet step changes nothing a client sees.                             *)
LEMMA QuietStep ==
  ASSUME EngineOnly, order = <<>>, Quiet,
         UNCHANGED <<prompts, order, sequence_ids, stepSeqs, outputs, results>>,
         phase' = "postprocess" <=> phase = "postprocess",
         phase = "postprocess" => Range(batch') \subseteq Range(batch)
  PROVE  EngineOnly' /\ UNCHANGED Service!serviceVars
<1>1. UNCHANGED <<tok, numPrompt>> /\ \A s \in Seqs : QuietFor(s)
  BY DEF Quiet
<1>2. /\ Asked' = Asked /\ Said' = Said
      /\ \A s \in Seqs : completion_token_ids(s)' = completion_token_ids(s)
  BY <1>1 DEF Asked, Said, completion_token_ids
<1>3. Adding' /\ Numbered' /\ Called' = Called
  BY <1>2, StepKeepsCall
<1>4. ASSUME NEW s \in Seqs PROVE Answered(s)' /\ GivenOut(s)'
  <2>1. Answered(s) /\ GivenOut(s) /\ (SaidAll(s)' <=> SaidAll(s))
    BY <1>2 DEF EngineOnly, SaidAll
  <2>2. /\ status'[s] = "NONE" <=> status[s] = "NONE"
        /\ status'[s] = "FINISHED" <=> status[s] = "FINISHED"
    BY <1>1 DEF QuietFor
  <2> QED
    BY <1>1, <1>2, <2>1, <2>2 DEF Answered, GivenOut
<1>5. InStep'
  BY DEF EngineOnly, InStep
<1>6. EngineTypes'
  BY DEF EngineOnly, EngineTypes
<1>7. UNCHANGED Service!serviceVars
  BY <1>2, <1>3, NothingSeen
<1> QED
  BY <1>3, <1>4, <1>5, <1>6, <1>7 DEF EngineOnly

(* A sampled token is said for a request whose completion is not complete. *)
LEMMA SayStep ==
  ASSUME JInv, EngineOnly, order = <<>>, NEW t \in Tokens,
         PostprocessToken(t) \/ PostprocessLast(t),
         UNCHANGED <<prompts, order, sequence_ids, stepSeqs, outputs, results>>
  PROVE  EngineOnly' /\ [Service!ServiceNext]_(Service!serviceVars)
<1>0. TypeOK /\ SInv /\ SchedTypeOK
  BY DEF JInv, IInv, SInv
<1>1. PICK s : s = Head(batch)
  OBVIOUS
<1>2. /\ s \in Seqs /\ s \in Range(batch) /\ status[s] = "RUNNING"
      /\ tok' = [tok EXCEPT ![s] = Append(tok[s], t)]
      /\ numPrompt' = numPrompt
      /\ IF Finishes(s, t) THEN status' = [status EXCEPT ![s] = "FINISHED"]
         ELSE status' = status
      /\ phase = "postprocess" /\ phase' = "postprocess"
      /\ Range(batch') \subseteq Range(batch)
  BY <1>0, <1>1, PostprocessSays
<1>3. Answered(s) /\ GivenOut(s) /\ numPrompt[s] <= Len(tok[s])
  BY <1>2 DEF EngineOnly, Answered
<1>4. tok[s] # <<>> /\ ~SaidAll(s) /\ outputs[s] = <<>>
  BY <1>2, <1>3 DEF Answered, GivenOut
<1>5. /\ completion_token_ids(s)' = Append(completion_token_ids(s), t)
      /\ \A x \in Seqs : x # s =>
           completion_token_ids(x)' = completion_token_ids(x)
      /\ numPrompt'[s] <= Len(tok'[s]) /\ tok'[s] # <<>>
  BY <1>0, <1>2, <1>3, CompletionGrows
<1>6. SaidAll(s)' <=> Finishes(s, t)
  BY <1>0, <1>2, <1>3, SaidAllGrows
<1>7. /\ \A x \in Seqs : x # s => tok'[x] = tok[x] /\ status'[x] = status[x]
      /\ status'[s] = IF Finishes(s, t) THEN "FINISHED" ELSE "RUNNING"
  BY <1>0, <1>2 DEF TypeOK, SchedTypeOK
<1>8. Asked' = Asked
  BY <1>4, <1>5, <1>7 DEF Asked
<1>9. Said' = [Said EXCEPT ![s] = Append(Said[s], t)]
  BY <1>2, <1>5 DEF Said
<1>10. s \in Range(stepSeqs)
  BY <1>2 DEF EngineOnly, InStep
<1>11. ASSUME NEW x \in Seqs PROVE Answered(x)' /\ GivenOut(x)'
  <2>1. CASE x = s
    BY <1>2, <1>4, <1>5, <1>6, <1>7, <1>10, <2>1 DEF Answered, GivenOut
  <2>2. CASE x # s
    <3>1. Answered(x) /\ GivenOut(x) /\ (SaidAll(x)' <=> SaidAll(x))
      BY <1>5, <2>2 DEF EngineOnly, SaidAll
    <3> QED
      BY <1>2, <1>5, <1>7, <2>2, <3>1 DEF Answered, GivenOut
  <2> QED
    BY <2>1, <2>2
<1>12. InStep'
  BY <1>2 DEF EngineOnly, InStep
<1>13. EngineTypes'
  BY DEF EngineOnly, EngineTypes
<1>14. Adding' /\ Numbered' /\ Called' = Called
  BY <1>8, StepKeepsCall
<1>15. s \in Asked
  BY <1>2, <1>4 DEF Asked
<1>16. Service!ServiceNext
  BY <1>2, <1>4, <1>8, <1>9, <1>14, <1>15, SeenSay
<1> QED
  BY <1>11, <1>12, <1>13, <1>14, <1>16 DEF EngineOnly

(* The model takes a batch, none of whose requests is finished.            *)
LEMMA DispatchKeeps ==
  ASSUME JInv, EngineOnly, order = <<>>, Dispatch, stepSeqs' = batch,
         UNCHANGED <<prompts, order, sequence_ids, outputs, results>>
  PROVE  EngineOnly' /\ UNCHANGED Service!serviceVars
<1>1. SchedTypeOK /\ \A s \in Seqs : RequestOK(s)
  BY DEF JInv, SInv
<1>2. phase = "dispatch" /\ UNCHANGED <<tok, numPrompt, status, batch>>
  BY DEF Dispatch, vars, queueVars, batchVars
<1>3. /\ Asked' = Asked /\ Said' = Said
      /\ \A s \in Seqs : completion_token_ids(s)' = completion_token_ids(s)
  BY <1>2 DEF Asked, Said, completion_token_ids
<1>4. Adding' /\ Numbered' /\ Called' = Called
  BY <1>3, StepKeepsCall
<1>5. ASSUME NEW s \in Seqs PROVE Answered(s)' /\ GivenOut(s)'
  <2>1. Answered(s) /\ GivenOut(s) /\ (SaidAll(s)' <=> SaidAll(s))
    BY <1>3 DEF EngineOnly, SaidAll
  <2> QED
    BY <1>2, <1>3, <2>1 DEF Answered, GivenOut
<1>6. ASSUME NEW s \in Range(batch) PROVE outputs[s] = <<>>
  <2>1. s \in Seqs
    BY <1>1 DEF SchedTypeOK, Range
  <2>2. status[s] # "FINISHED"
    BY <1>1, <2>1 DEF RequestOK, InBatch
  <2> QED
    BY <2>1, <2>2 DEF EngineOnly, GivenOut
<1>7. InStep'
  BY <1>2, <1>6 DEF InStep
<1>8. EngineTypes'
  BY <1>1 DEF EngineOnly, EngineTypes, SchedTypeOK
<1>9. UNCHANGED Service!serviceVars
  BY <1>3, <1>4, NothingSeen
<1> QED
  BY <1>4, <1>5, <1>7, <1>8, <1>9 DEF EngineOnly

(* step() returns the completions of the batch's finished requests: all    *)
(* that are complete and were not returned before.                         *)
LEMMA EndStepGives ==
  ASSUME JInv, EngineOnly, order = <<>>, EndStep, StepOutputs,
         stepSeqs' = <<>>, UNCHANGED <<prompts, order, sequence_ids, results>>
  PROVE  EngineOnly' /\ [Service!ServiceNext]_(Service!serviceVars)
<1>1. /\ phase = "postprocess" /\ phase' = "idle"
      /\ UNCHANGED <<tok, numPrompt, status>>
  BY DEF EndStep, vars, queueVars
<1>2. /\ Asked' = Asked /\ Said' = Said
      /\ \A s \in Seqs : completion_token_ids(s)' = completion_token_ids(s)
  BY <1>1 DEF Asked, Said, completion_token_ids
<1>3. Adding' /\ Numbered' /\ Called' = Called
  BY <1>2, StepKeepsCall
<1>4. EngineTypes /\ TypeOK
  BY DEF EngineOnly, JInv, IInv
<1>5. ASSUME NEW s \in Seqs
      PROVE  (s \in Range(stepSeqs) /\ status[s] = "FINISHED") <=> s \in Ready
  <2>1. Answered(s) /\ GivenOut(s)
    BY DEF EngineOnly
  <2>2. s \in Range(stepSeqs) => outputs[s] = <<>>
    BY <1>1 DEF EngineOnly, InStep
  <2>3. status[s] = "FINISHED" => s \in Asked
    BY <2>1 DEF Answered, Asked
  <2> QED
    BY <2>1, <2>2, <2>3 DEF Answered, GivenOut, Ready
<1>6. ASSUME NEW s \in Seqs
      PROVE  /\ s \in Ready => outputs'[s] = <<completion_token_ids(s)>>
             /\ s \notin Ready => outputs'[s] = outputs[s]
  <2>1. outputs'[s] = IF s \in Range(stepSeqs) /\ status[s] = "FINISHED"
                      THEN Append(outputs[s], completion_token_ids(s))
                      ELSE outputs[s]
    BY DEF StepOutputs
  <2>2. s \in Ready => outputs[s] = <<>>
    BY DEF Ready
  <2>3. Append(<<>>, completion_token_ids(s)) = <<completion_token_ids(s)>>
    OBVIOUS
  <2> QED
    BY <1>5, <2>1, <2>2, <2>3
<1>7. outputs' = [s \in Seqs |-> outputs'[s]]
  BY DEF StepOutputs
<1>8. outputs' = [s \in Seqs |-> IF s \in Ready THEN <<Said[s]>> ELSE outputs[s]]
  <2>1. \A s \in Seqs :
          outputs'[s] = IF s \in Ready THEN <<Said[s]>> ELSE outputs[s]
    BY <1>6 DEF Said
  <2> QED
    BY <1>7, <2>1
<1>9. outputs' \in [Seqs -> Seq(Seq(Tokens))]
  <2>1. ASSUME NEW s \in Seqs PROVE outputs'[s] \in Seq(Seq(Tokens))
    <3>1. completion_token_ids(s) \in Seq(Tokens)
      BY <1>4, CompletionType DEF EngineOnly, Answered
    <3>2. <<completion_token_ids(s)>> \in Seq(Seq(Tokens))
      BY <3>1
    <3>3. outputs[s] \in Seq(Seq(Tokens))
      BY <1>4 DEF EngineTypes
    <3> QED
      BY <1>6, <3>2, <3>3
  <2> QED
    BY <1>7, <2>1
<1>10. ASSUME NEW s \in Seqs PROVE Answered(s)' /\ GivenOut(s)'
  <2>1. Answered(s) /\ GivenOut(s) /\ (SaidAll(s)' <=> SaidAll(s))
    BY <1>2 DEF EngineOnly, SaidAll
  <2>2. Answered(s)'
    BY <1>1, <2>1 DEF Answered
  <2>3. CASE s \in Ready
    <3>1. status[s] = "FINISHED" /\ outputs'[s] = <<completion_token_ids(s)>>
      BY <1>6, <2>1, <2>3 DEF Ready, Answered
    <3>2. outputs'[s] # <<>>
      BY <3>1
    <3> QED
      BY <1>1, <1>2, <2>2, <3>1, <3>2 DEF GivenOut
  <2>4. CASE s \notin Ready
    <3>1. outputs'[s] = outputs[s]
      BY <1>6, <2>4
    <3>2. status[s] = "FINISHED" => outputs[s] # <<>>
      BY <1>5, <2>1, <2>4 DEF GivenOut
    <3> QED
      BY <1>1, <1>2, <2>1, <2>2, <3>1, <3>2 DEF GivenOut
  <2> QED
    BY <2>3, <2>4
<1>11. InStep'
  BY <1>1 DEF InStep
<1>12. EngineTypes'
  BY <1>4, <1>9, EmptySeq DEF EngineTypes
<1>13. [Service!ServiceNext]_(Service!serviceVars)
  BY <1>2, <1>3, <1>4, <1>8, SeenGive DEF EngineTypes
<1> QED
  BY <1>3, <1>10, <1>11, <1>12, <1>13 DEF EngineOnly

(* Each of them is a step of the scheduler.                                *)
LEMMA EngineStepStep ==
  ASSUME JInv, EngineOnly, EngineStep
  PROVE  /\ EngineOnly' /\ [SchedNext]_schedVars
         /\ [Service!ServiceNext]_(Service!serviceVars)
<1>0. TypeOK /\ SInv
  BY DEF JInv, IInv
<1>1. order = <<>> /\ UNCHANGED <<prompts, order, sequence_ids, results>>
  BY DEF EngineStep, generateVars
<1>2. CASE Dispatch /\ stepSeqs' = batch /\ UNCHANGED outputs
  <2>1. SchedNext
    BY <1>2 DEF SchedNext, Step
  <2> QED
    BY <1>1, <1>2, <2>1, DispatchKeeps
<1>3. CASE EndStep /\ StepOutputs /\ stepSeqs' = <<>>
  <2>1. SchedNext
    BY <1>3 DEF SchedNext, Step
  <2> QED
    BY <1>1, <1>3, <2>1, EndStepGives
<1>4. CASE /\ phase \notin {"dispatch", "failed"}
           /\ ~(phase = "postprocess" /\ batch = <<>>)
           /\ Step /\ UNCHANGED <<stepSeqs, outputs>>
  <2>1. SchedNext
    BY <1>4 DEF SchedNext
  <2>2. ~Dispatch /\ ~EndStep
    BY <1>4 DEF Dispatch, EndStep
  <2>3. CASE \/ StartStep \/ PreemptLast \/ ScheduleDecode \/ DecodeDone
             \/ PrefillReject \/ PrefillAdmit \/ PrefillContinue \/ PrefillDone
    <3>1. Quiet /\ phase # "postprocess" /\ phase' # "postprocess"
      BY <1>0, <2>3, ScheduleQuiet
    <3> QED
      BY <1>1, <1>4, <2>1, <3>1, QuietStep
  <2>4. CASE PostprocessChunk
    <3>1. /\ Quiet /\ phase = "postprocess" /\ phase' = "postprocess"
          /\ Range(batch') \subseteq Range(batch)
      BY <1>0, <2>4, PostprocessSays
    <3> QED
      BY <1>1, <1>4, <2>1, <3>1, QuietStep
  <2>5. ASSUME NEW t \in Tokens, PostprocessToken(t) \/ PostprocessLast(t)
        PROVE  EngineOnly' /\ [Service!ServiceNext]_(Service!serviceVars)
    BY <1>1, <1>4, <2>5, SayStep
  <2> QED
    BY <1>4, <2>1, <2>2, <2>3, <2>4, <2>5 DEF Step
<1> QED
  BY <1>2, <1>3, <1>4 DEF EngineStep

-----------------------------------------------------------------------------
(* The end of a call.                                                      *)

(* When generate's loop ends every prompt has an output, so that looking   *)
(* it up is no KeyError.                                                   *)
PromptsAnswered ==
  /\ InGenerate /\ order = <<>>
  /\ phase = "idle" /\ waiting = <<>> /\ running = <<>>
  => \A i \in DOMAIN prompts : outputs[sequence_ids[i]] # <<>>

(* A request in no queue is finished, and between two steps given out.     *)
LEMMA LoopEndsAnswered ==
  ASSUME JInv, EngineOnly
  PROVE  PromptsAnswered
<1> SUFFICES ASSUME order = <<>>, phase = "idle", waiting = <<>>, running = <<>>,
                    NEW i \in DOMAIN prompts
             PROVE  outputs[sequence_ids[i]] # <<>>
  BY DEF PromptsAnswered
<1>1. SchedTypeOK /\ Queues
  BY DEF JInv, SInv
<1>2. Range(order) = {} /\ Range(waiting) = {} /\ Range(running) = {}
  BY DEF Range
<1>3. sequence_ids[i] \in Asked
  BY <1>2 DEF EngineOnly, Adding, IndexAdded
<1>4. PICK s \in Seqs : s = sequence_ids[i] /\ tok[s] # <<>>
  BY <1>3 DEF Asked
<1>5. status[s] \notin {"WAITING", "RUNNING"}
  BY <1>1, <1>2, <1>4 DEF Queues, Waits, Runs
<1>6. Answered(s) /\ GivenOut(s)
  BY DEF EngineOnly
<1>7. status[s] = "FINISHED"
  BY <1>1, <1>4, <1>5, <1>6 DEF SchedTypeOK, Answered
<1> QED
  BY <1>4, <1>6, <1>7 DEF GivenOut

(* While prompts are left to add, the counter has a number for the next    *)
(* one that no request has, so that adding does not stop half way.         *)
NumberFree ==
  order # <<>> => /\ phase = "idle"
                  /\ Head(order) \in DOMAIN prompts
                  /\ next_id \in Seqs /\ tok[next_id] = <<>>

(* It follows from how Adding counts.                                      *)
LEMMA NumberFreeFromInv ==
  ASSUME EngineOnly
  PROVE  NumberFree
<1> SUFFICES ASSUME order # <<>>
             PROVE  /\ phase = "idle" /\ Head(order) \in DOMAIN prompts
                    /\ next_id \in Seqs /\ tok[next_id] = <<>>
  BY DEF NumberFree
<1>1. /\ order \in Seq(DOMAIN prompts) /\ phase = "idle"
      /\ next_id + Len(order) <= Cardinality(Seqs) + 1
  BY DEF EngineOnly, EngineTypes, Adding
<1>2. Head(order) \in DOMAIN prompts /\ Len(order) \in Nat \ {0}
  BY <1>1, TailQueue
<1>3. PICK n \in Nat \ {0} : n = next_id
  BY NumbersGiven
<1>4. n \in 1 .. Cardinality(Seqs)
  BY <1>1, <1>2, <1>3, NumbersGiven
<1>5. n \in Seqs
  BY <1>4, NumbersGiven
<1>6. n \notin Asked
  BY <1>3 DEF EngineOnly, Numbered
<1> QED
  BY <1>1, <1>2, <1>3, <1>5, <1>6 DEF Asked

(* The call returns; an output is the one completion given out.            *)
LEMMA ReturnResultsStep ==
  ASSUME EngineOnly, ReturnResults
  PROVE  /\ EngineOnly' /\ UNCHANGED schedVars
         /\ [Service!ServiceNext]_(Service!serviceVars)
<1>1. /\ prompts # <<>> /\ order = <<>> /\ order' = order
      /\ \A i \in DOMAIN prompts : outputs[sequence_ids[i]] # <<>>
      /\ results' = [i \in DOMAIN prompts |-> Last(outputs[sequence_ids[i]])]
      /\ prompts' = <<>> /\ sequence_ids' = <<>>
      /\ UNCHANGED schedVars /\ UNCHANGED <<stepSeqs, outputs>>
  BY DEF ReturnResults, InGenerate
<1>2. UNCHANGED <<tok, numPrompt, status, phase, batch>>
  BY <1>1 DEF schedVars, vars
<1>3. /\ Asked' = Asked /\ Said' = Said /\ next_id' = next_id
      /\ \A s \in Seqs : completion_token_ids(s)' = completion_token_ids(s)
  BY <1>2 DEF Asked, Said, next_id, completion_token_ids
<1>4. EngineTypes /\ Adding
  BY DEF EngineOnly
<1>5. ASSUME NEW s \in Seqs PROVE Answered(s)' /\ GivenOut(s)'
  <2>1. Answered(s) /\ GivenOut(s) /\ (SaidAll(s)' <=> SaidAll(s))
    BY <1>3 DEF EngineOnly, SaidAll
  <2> QED
    BY <1>1, <1>2, <1>3, <2>1 DEF Answered, GivenOut
<1>6. InStep' /\ Numbered'
  BY <1>1, <1>2, <1>3 DEF EngineOnly, InStep, Numbered
<1>7. EngineTypes'
  <2>1. DOMAIN <<>> = {} /\ <<>> \in Seq(Prompts) /\ Len(<<>>) = 0
    BY EmptySeq
  <2>2. <<>> \in Seq(DOMAIN <<>>) /\ <<>> \in [DOMAIN <<>> -> Seqs \cup {0}]
    BY <2>1, EmptySeq
  <2> QED
    BY <1>1, <1>4, <2>1, <2>2, NumbersGiven DEF EngineTypes
<1>8. Adding'
  <2>1. DOMAIN <<>> = {}
    OBVIOUS
  <2> QED
    BY <1>1, <2>1 DEF Adding
<1>9. PICK n \in Nat : n = Len(prompts) /\ DOMAIN prompts = 1 .. n
  BY <1>4, LenProperties DEF EngineTypes
<1>10. n # 0
  BY <1>1, <1>4, <1>9, EmptySeq DEF EngineTypes
<1>11. PICK ids : ids = sequence_ids
  OBVIOUS
<1>12. Called = ids /\ Called' = <<>>
  BY <1>1, <1>11 DEF Called
<1>13. \A i \in 1 .. n : ids[i] \in Seqs
  <2>1. Range(order) = {}
    BY <1>1 DEF Range
  <2> QED
    BY <1>4, <1>9, <1>11, <2>1 DEF Adding, IndexAdded, Asked
<1>14. ids \in [1 .. n -> Seqs]
  <2>1. ids = [i \in 1 .. n |-> ids[i]]
    BY <1>4, <1>9, <1>11 DEF EngineTypes
  <2> QED
    BY <1>13, <2>1
<1>15. ASSUME NEW i \in 1 .. n PROVE Last(outputs[ids[i]]) = outputs[ids[i]][1]
  <2>1. ids[i] \in Seqs /\ outputs[ids[i]] # <<>>
    BY <1>1, <1>9, <1>11, <1>13
  <2>2. outputs[ids[i]] = <<completion_token_ids(ids[i])>>
    BY <2>1 DEF EngineOnly, GivenOut
  <2>3. Len(outputs[ids[i]]) = 1
    BY <2>2
  <2> QED
    BY <2>3 DEF Last
<1>16. results' = [i \in 1 .. n |-> outputs[ids[i]][1]]
  BY <1>1, <1>9, <1>11, <1>15
<1>17. \A i \in 1 .. n : outputs[ids[i]] # <<>>
  BY <1>1, <1>9, <1>11
<1>18. Service!ServiceNext
  BY <1>1, <1>3, <1>10, <1>12, <1>14, <1>16, <1>17, SeenReturn
<1> QED
  BY <1>1, <1>5, <1>6, <1>7, <1>8, <1>18 DEF EngineOnly

-----------------------------------------------------------------------------
(* The invariant, and what follows from it.                                *)

EngineInv == JInv /\ EngineOnly

(* Before the first request.                                               *)
LEMMA InitEngineInv == EngineInit => EngineInv
<1> SUFFICES ASSUME EngineInit PROVE EngineInv
  OBVIOUS
<1>1. /\ SchedInit /\ prompts = <<>> /\ order = <<>> /\ sequence_ids = <<>>
      /\ stepSeqs = <<>> /\ outputs = [s \in Seqs |-> <<>>]
  BY DEF EngineInit
<1>2. /\ tok = [s \in Seqs |-> <<>>] /\ numPrompt = [s \in Seqs |-> 0]
      /\ status = [s \in Seqs |-> "NONE"] /\ phase = "idle"
  BY <1>1 DEF SchedInit, Init
<1>3. JInv
  BY <1>1, InitJInv
<1>4. DOMAIN <<>> = {} /\ Len(<<>>) = 0 /\ IsInjective(<<>>)
  BY DEF IsInjective
<1>5. EngineTypes
  <2>1. /\ <<>> \in Seq(Prompts) /\ <<>> \in Seq(DOMAIN <<>>)
        /\ <<>> \in Seq(Seqs)
        /\ <<>> \in [DOMAIN <<>> -> Seqs \cup {0}] /\ <<>> \in Seq(Seq(Tokens))
    BY <1>4, EmptySeq
  <2> QED
    BY <1>1, <1>4, <2>1, NumbersGiven DEF EngineTypes
<1>6. ASSUME NEW s \in Seqs PROVE Answered(s) /\ GivenOut(s)
  <2>1. SubSeq(<<>>, 0 + 1, 0) = <<>>
    BY SubSeqEmpty
  <2>2. completion_token_ids(s) = <<>>
    BY <1>2, <1>4, <2>1 DEF completion_token_ids
  <2> QED
    BY <1>1, <1>2, <1>4, <2>2 DEF Answered, GivenOut, SaidAll
<1>7. InStep /\ Adding
  BY <1>1, <1>2, <1>4 DEF InStep, Adding
<1>8. Numbered
  <2>1. Asked = {}
    BY <1>2 DEF Asked
  <2>2. next_id = 1
    BY <2>1, NumbersGiven, FS_EmptySet
  <2> QED
    BY <2>1, <2>2 DEF Numbered
<1> QED
  BY <1>3, <1>5, <1>6, <1>7, <1>8 DEF EngineInv, EngineOnly

(* Every step keeps it, and maps to one of both specifications or none.    *)
LEMMA NextEngineInv ==
  ASSUME DigestSound
  PROVE  EngineInv /\ [EngineNext]_engineVars =>
           /\ EngineInv' /\ [SchedNext]_schedVars
           /\ [Service!ServiceNext]_(Service!serviceVars)
<1> SUFFICES ASSUME JInv, EngineOnly, [EngineNext]_engineVars
             PROVE  /\ JInv' /\ EngineOnly' /\ [SchedNext]_schedVars
                    /\ [Service!ServiceNext]_(Service!serviceVars)
  BY DEF EngineInv
<1>1. ASSUME EngineOnly', [SchedNext]_schedVars,
             [Service!ServiceNext]_(Service!serviceVars)
      PROVE  /\ JInv' /\ EngineOnly' /\ [SchedNext]_schedVars
             /\ [Service!ServiceNext]_(Service!serviceVars)
  BY <1>1, NextJInv
<1>2. CASE UNCHANGED engineVars
  <2>1. UNCHANGED schedVars /\ UNCHANGED <<prompts, order, sequence_ids>>
        /\ UNCHANGED <<stepSeqs, outputs, results>>
    BY <1>2 DEF engineVars, generateVars
  <2>2. UNCHANGED <<tok, numPrompt, status, phase, batch>>
    BY <2>1 DEF schedVars, vars
  <2>3. /\ Asked' = Asked /\ Said' = Said /\ Called' = Called
        /\ next_id' = next_id
        /\ \A s \in Seqs : completion_token_ids(s)' = completion_token_ids(s)
    BY <2>1, <2>2 DEF Asked, Said, Called, next_id, completion_token_ids
  <2>4. ASSUME NEW s \in Seqs PROVE Answered(s)' /\ GivenOut(s)'
    <3>1. Answered(s) /\ GivenOut(s) /\ (SaidAll(s)' <=> SaidAll(s))
      BY <2>3 DEF EngineOnly, SaidAll
    <3> QED
      BY <2>1, <2>2, <2>3, <3>1 DEF Answered, GivenOut
  <2>5. InStep' /\ Numbered' /\ EngineTypes'
    BY <2>1, <2>2, <2>3 DEF EngineOnly, InStep, Numbered, EngineTypes
  <2>6. Adding'
    BY <2>1, <2>2, <2>3 DEF EngineOnly, Adding, IndexAdded
  <2>7. UNCHANGED Service!serviceVars
    BY <2>1, <2>3, NothingSeen
  <2> QED
    BY <1>1, <2>1, <2>4, <2>5, <2>6, <2>7 DEF EngineOnly
<1>3. ASSUME NEW n \in 1 .. Cardinality(Seqs), NEW ps \in [1 .. n -> Prompts],
             NEW reorder \in BOOLEAN, Generate(ps, reorder)
      PROVE  /\ EngineOnly' /\ UNCHANGED schedVars
             /\ UNCHANGED Service!serviceVars
  BY <1>3, GenerateStep
<1>4. ASSUME NEW p \in Prompts, OnlineRequest(p)
      PROVE  /\ EngineOnly' /\ [SchedNext]_schedVars
             /\ [Service!ServiceNext]_(Service!serviceVars)
  BY <1>4, OnlineRequestStep
<1>5. CASE AddPrompt
  BY <1>1, <1>5, AddPromptStep
<1>6. CASE EngineStep
  BY <1>1, <1>6, EngineStepStep
<1>7. CASE ReturnResults
  BY <1>1, <1>7, ReturnResultsStep
<1> QED
  BY <1>1, <1>2, <1>3, <1>4, <1>5, <1>6, <1>7 DEF EngineNext

(* The engine drives the scheduler as the scheduler's specification says   *)
(* its caller does: it adds requests between two steps only, each under a  *)
(* number of its own. Every theorem about the scheduler is one about the   *)
(* engine.                                                                 *)
THEOREM EngineIsScheduler ==
  ASSUME DigestSound
  PROVE  EngineSpec => SchedSpec
<1>1. EngineInit => SchedInit
  BY DEF EngineInit
<1> QED
  BY <1>1, InitEngineInv, NextEngineInv, PTL DEF EngineSpec, SchedSpec

(* When generate finds nothing waiting or running, each of its prompts has *)
(* the output it looks up (PromptsAnswered).                               *)
THEOREM EveryPromptAnswered ==
  ASSUME DigestSound
  PROVE  EngineSpec => []PromptsAnswered
<1>1. EngineInv => PromptsAnswered
  BY LoopEndsAnswered DEF EngineInv
<1> QED
  BY <1>1, InitEngineInv, NextEngineInv, PTL DEF EngineSpec

(* Adding a prompt is always possible: requests that finished, or that a   *)
(* client added by itself, never leave the counter on a number in use      *)
(* (NumberFree).                                                           *)
THEOREM AddingNeverStops ==
  ASSUME DigestSound
  PROVE  EngineSpec => []NumberFree
<1>1. EngineInv => NumberFree
  BY NumberFreeFromInv DEF EngineInv
<1> QED
  BY <1>1, InitEngineInv, NextEngineInv, PTL DEF EngineSpec

(* The engine answers its clients as RequestService promises, but for the  *)
(* promise that it ends: a completion gets its tokens one by one until it  *)
(* is complete and none after, a step returns every completion that is     *)
(* complete, whole and once, and generate returns its prompts' in their    *)
(* order, however they were added.                                         *)
THEOREM AnswersRequests ==
  ASSUME DigestSound
  PROVE  EngineSpec =>
           Service!ServiceInit /\ [][Service!ServiceNext]_(Service!serviceVars)
<1>1. EngineInit => Service!ServiceInit
  <2> SUFFICES ASSUME EngineInit PROVE Service!ServiceInit
    OBVIOUS
  <2>1. /\ SchedInit /\ order = <<>> /\ sequence_ids = <<>> /\ results = <<>>
        /\ outputs = [s \in Seqs |-> <<>>]
    BY DEF EngineInit
  <2>2. tok = [s \in Seqs |-> <<>>] /\ numPrompt = [s \in Seqs |-> 0]
    BY <2>1 DEF SchedInit, Init
  <2>3. SubSeq(<<>>, 0 + 1, 0) = <<>> /\ Len(<<>>) = 0
    BY SubSeqEmpty
  <2>4. Said = [s \in Seqs |-> <<>>] /\ Asked = {} /\ Called = <<>>
    BY <2>1, <2>2, <2>3 DEF Said, Asked, Called, completion_token_ids
  <2> QED
    BY <2>1, <2>4 DEF Service!ServiceInit, Said, Asked, Called
<1> QED
  BY <1>1, InitEngineInv, NextEngineInv, PTL DEF EngineSpec
=============================================================================
