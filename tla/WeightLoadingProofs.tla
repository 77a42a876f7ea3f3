------------------------ MODULE WeightLoadingProofs ------------------------
(***************************************************************************)
(* Proofs about WeightLoading: for any number of ranks, any sizes that the *)
(* assertions of the code admit and any order in which the ranks read the  *)
(* tensors, the layers cut over the ranks are the uncut ones.              *)
(***************************************************************************)
EXTENDS WeightLoading, FiniteSetTheorems, TLAPS

(* Rank r has the shard of tensor t where its parameter expects it.        *)
ShardLoaded(r, t) ==
  \A i \in 0 .. shard_size(t) - 1 :
    param[r][ParamOf(t)][shard_offset(t) + i] = <<t, r * shard_size(t) + i>>

Shapes ==
  /\ pending \in [Ranks -> SUBSET Checkpoint]
  /\ DOMAIN param = Ranks
  /\ \A r \in Ranks : /\ DOMAIN param[r] = Params
                      /\ \A p \in Params : DOMAIN param[r][p] = 0 .. ParamSize(p) - 1

(* What has been read stays in its place, whatever is read after it.       *)
LoadedInPlace ==
  \A r \in Ranks : \A t \in Checkpoint \ pending[r] : ShardLoaded(r, t)

HeadTied ==
  Tied => \A r \in Ranks : param[r]["lm_head"] = param[r]["embed_tokens"]

LoadInv == Shapes /\ LoadedInPlace /\ HeadTied

-----------------------------------------------------------------------------
(* Arithmetic.                                                             *)

(* A row of b entries ends before a later row begins.                      *)
LEMMA MulStep ==
  ASSUME NEW i \in Nat, NEW j \in Nat, NEW b \in Nat, i < j
  PROVE  i * b + b <= j * b
<1>1. PICK d \in Nat : j = i + 1 + d
  <2>1. j - i - 1 \in Nat /\ j = i + 1 + (j - i - 1)
    OBVIOUS
  <2> QED
    BY <2>1
<1>2. j * b = i * b + b + d * b
  BY <1>1
<1>3. d * b \in Nat /\ i * b \in Nat
  OBVIOUS
<1> QED
  BY <1>2, <1>3

(* A quotient and a remainder make their number.                           *)
LEMMA PlaceParts ==
  ASSUME NEW g \in Nat, NEW n \in Nat \ {0}
  PROVE  /\ g \div n \in Nat
         /\ g % n \in 0 .. n - 1
         /\ g = ((g \div n) * n) + (g % n)
OBVIOUS

(* Entry i of row r has a row and a place in it only one way.              *)
LEMMA PlaceUnique ==
  ASSUME NEW n \in Nat \ {0}, NEW q \in Nat, NEW r \in Nat,
         NEW i \in 0 .. n - 1, NEW j \in 0 .. n - 1,
         (q * n) + i = (r * n) + j
  PROVE  q = r /\ i = j
<1>1. q * n \in Nat /\ r * n \in Nat
  OBVIOUS
<1>2. ~ (q < r)
  BY <1>1, MulStep
<1>3. ~ (r < q)
  BY <1>1, MulStep
<1>4. q = r
  BY <1>2, <1>3
<1> QED
  BY <1>1, <1>4

(* The row and the place of entry i of row r.                              *)
LEMMA PlaceBuilt ==
  ASSUME NEW n \in Nat \ {0}, NEW r \in Nat, NEW i \in 0 .. n - 1
  PROVE  /\ ((r * n) + i) \div n = r
         /\ ((r * n) + i) % n = i
<1> DEFINE g == (r * n) + i
<1>1. g \in Nat
  <2>1. r * n \in Nat
    OBVIOUS
  <2> QED
    BY <2>1
<1> HIDE DEF g
<1>2. /\ g \div n \in Nat
      /\ g % n \in 0 .. n - 1
      /\ g = ((g \div n) * n) + (g % n)
  BY <1>1, PlaceParts
<1>3. ((g \div n) * n) + (g % n) = (r * n) + i
  BY <1>2 DEF g
<1>4. g \div n = r /\ g % n = i
  BY <1>2, <1>3, PlaceUnique
<1> QED
  BY <1>4 DEF g

(* The rows of a table of m rows are those of its entries.                 *)
LEMMA PlaceBounds ==
  ASSUME NEW n \in Nat \ {0}, NEW m \in Nat
  PROVE  /\ \A r \in 0 .. m - 1, i \in 0 .. n - 1 :
              (r * n) + i \in 0 .. (m * n) - 1
         /\ \A g \in 0 .. (m * n) - 1 : g \div n \in 0 .. m - 1
<1>1. ASSUME NEW r \in 0 .. m - 1, NEW i \in 0 .. n - 1
      PROVE  (r * n) + i \in 0 .. (m * n) - 1
  <2>1. (r * n) + n <= m * n
    BY MulStep
  <2>2. r * n \in Nat /\ m * n \in Nat
    OBVIOUS
  <2> QED
    BY <2>1, <2>2
<1>2. ASSUME NEW g \in 0 .. (m * n) - 1
      PROVE  g \div n \in 0 .. m - 1
  <2>1. m * n \in Nat
    OBVIOUS
  <2>2. g \in Nat /\ g < m * n
    BY <2>1
  <2>3. g \div n \in Nat /\ g % n \in 0 .. n - 1 /\ g = ((g \div n) * n) + (g % n)
    BY <2>2, PlaceParts
  <2> DEFINE q == g \div n
  <2>4. (q * n) \in Nat /\ g >= q * n
    BY <2>3
  <2>5. m < q => (m * n) + n <= q * n
    BY <2>3, MulStep
  <2>6. m = q => m * n = q * n
    OBVIOUS
  <2> HIDE DEF q
  <2>7. ~ (m < q) /\ m # q
    BY <2>1, <2>2, <2>4, <2>5, <2>6
  <2> QED
    BY <2>3, <2>7 DEF q
<1> QED
  BY <1>1, <1>2

(* A size that n divides is n equal parts.                                 *)
LEMMA EvenCut ==
  ASSUME NEW a \in Nat \ {0}, NEW n \in Nat \ {0}, a % n = 0
  PROVE  /\ a \div n \in Nat \ {0}
         /\ a = (a \div n) * n
<1>1. a \div n \in Nat /\ a = ((a \div n) * n) + (a % n)
  BY PlaceParts
<1>2. (a \div n) * n \in Nat
  BY <1>1
<1>3. a = (a \div n) * n
  BY <1>1, <1>2
<1>4. a \div n # 0
  <2>1. SUFFICES ASSUME a \div n = 0 PROVE FALSE
    OBVIOUS
  <2>2. a = 0 * n
    BY <1>3, <2>1
  <2> QED
    BY <2>2
<1> QED
  BY <1>1, <1>3, <1>4

(* The length of a chunk of n equal parts, rounded up or not.              *)
LEMMA CutEven ==
  ASSUME NEW k \in Nat, NEW n \in Nat \ {0}
  PROVE  /\ (k * n) \div n = k
         /\ ((k * n) + (n - 1)) \div n = k
<1>1. (k * n) + 0 = k * n
  BY k * n \in Nat
<1>2. ((k * n) + 0) \div n = k
  BY PlaceBuilt
<1>3. ((k * n) + (n - 1)) \div n = k
  BY PlaceBuilt
<1> QED
  BY <1>1, <1>2, <1>3

(* Equal products with one factor in common.                               *)
LEMMA MulInjective ==
  ASSUME NEW i \in Nat, NEW j \in Nat, NEW b \in Nat \ {0}, i * b = j * b
  PROVE  i = j
<1>1. i * b \in Nat /\ j * b \in Nat
  OBVIOUS
<1>2. ~ (i < j)
  BY <1>1, MulStep
<1>3. ~ (j < i)
  BY <1>1, MulStep
<1> QED
  BY <1>2, <1>3

-----------------------------------------------------------------------------
(* The sizes.                                                              *)

MLPPart == Intermediate \div TPSize
VocabPart == Vocab \div TPSize
Group == NumHeads \div NumKVHeads

(* Every dimension is TPSize equal parts, and so is each parameter.        *)
LEMMA Parts ==
  /\ TPSize \in Nat \ {0} /\ HeadDim \in Nat \ {0}
  /\ num_heads \in Nat \ {0} /\ num_kv_heads \in Nat \ {0}
  /\ q_size \in Nat \ {0} /\ kv_size \in Nat \ {0}
  /\ MLPPart \in Nat \ {0} /\ VocabPart \in Nat \ {0}
  /\ NumHeads = num_heads * TPSize
  /\ NumKVHeads = num_kv_heads * TPSize
  /\ NumHeads * HeadDim = q_size * TPSize
  /\ NumKVHeads * HeadDim = kv_size * TPSize
  /\ Intermediate = MLPPart * TPSize
  /\ Vocab = VocabPart * TPSize
<1>1. TPSize \in Nat \ {0} /\ HeadDim \in Nat \ {0}
  BY SizesAssumption
<1>2. num_heads \in Nat \ {0} /\ NumHeads = num_heads * TPSize
  BY <1>1, SizesAssumption, EvenCut DEF num_heads
<1>3. num_kv_heads \in Nat \ {0} /\ NumKVHeads = num_kv_heads * TPSize
  BY <1>1, SizesAssumption, EvenCut DEF num_kv_heads
<1>4. MLPPart \in Nat \ {0} /\ Intermediate = MLPPart * TPSize
  BY <1>1, SizesAssumption, EvenCut DEF MLPPart
<1>5. VocabPart \in Nat \ {0} /\ Vocab = VocabPart * TPSize
  BY <1>1, SizesAssumption, EvenCut DEF VocabPart
<1>6. ASSUME NEW h \in Nat \ {0}
      PROVE  h * HeadDim \in Nat \ {0} /\ (h * TPSize) * HeadDim = (h * HeadDim) * TPSize
  <2>1. h * HeadDim \in Nat /\ (0 * HeadDim) + HeadDim <= h * HeadDim
    BY <1>1, MulStep
  <2>2. 0 * HeadDim = 0
    BY <1>1
  <2>3. (h * TPSize) * HeadDim = (h * HeadDim) * TPSize
    BY <1>1
  <2> QED
    BY <1>1, <2>1, <2>2, <2>3
<1>7. /\ q_size \in Nat \ {0} /\ NumHeads * HeadDim = q_size * TPSize
  BY <1>2, <1>6 DEF q_size
<1>8. /\ kv_size \in Nat \ {0} /\ NumKVHeads * HeadDim = kv_size * TPSize
  BY <1>3, <1>6 DEF kv_size
<1> QED
  BY <1>1, <1>2, <1>3, <1>4, <1>5, <1>7, <1>8

(* The length of each parameter of a rank.                                 *)
LEMMA ParamSizes ==
  /\ ParamSize("qkv_proj") = q_size + 2 * kv_size
  /\ ParamSize("gate_up_proj") = 2 * MLPPart
  /\ ParamSize("o_proj") = q_size
  /\ ParamSize("down_proj") = MLPPart
  /\ ParamSize("embed_tokens") = VocabPart
  /\ ParamSize("lm_head") = VocabPart
<1>1. (NumHeads + 2 * NumKVHeads) * HeadDim = (q_size + 2 * kv_size) * TPSize
  <2>1. (NumHeads + 2 * NumKVHeads) * HeadDim
          = NumHeads * HeadDim + 2 * (NumKVHeads * HeadDim)
    BY SizesAssumption
  <2>2. (q_size + 2 * kv_size) * TPSize = q_size * TPSize + 2 * (kv_size * TPSize)
    BY Parts
  <2> QED
    BY <2>1, <2>2, Parts
<1>2. q_size + 2 * kv_size \in Nat
  BY Parts
<1>3. ParamSize("qkv_proj") = q_size + 2 * kv_size
  BY <1>1, <1>2, Parts, CutEven DEF ParamSize
<1>4. 2 * Intermediate = (2 * MLPPart) * TPSize
  BY Parts
<1>5. 2 * MLPPart \in Nat
  BY Parts
<1>6. ParamSize("gate_up_proj") = 2 * MLPPart
  BY <1>4, <1>5, Parts, CutEven DEF ParamSize
<1>7. ParamSize("o_proj") = q_size
  BY Parts, CutEven DEF ParamSize, TensorSize
<1>8. ParamSize("down_proj") = MLPPart
  BY DEF ParamSize, TensorSize, MLPPart
<1>9. ParamSize("embed_tokens") = VocabPart /\ ParamSize("lm_head") = VocabPart
  BY DEF ParamSize, TensorSize, VocabPart
<1> QED
  BY <1>3, <1>6, <1>7, <1>8, <1>9

Tensors ==
  {"embed_tokens", "q_proj", "k_proj", "v_proj", "o_proj", "gate_proj",
   "up_proj", "down_proj", "lm_head"}

(* Each tensor's shard, as one table.                                      *)
LEMMA ShardTable ==
  /\ shard_size("q_proj") = q_size /\ shard_offset("q_proj") = 0
  /\ shard_size("k_proj") = kv_size /\ shard_offset("k_proj") = q_size
  /\ shard_size("v_proj") = kv_size /\ shard_offset("v_proj") = q_size + kv_size
  /\ shard_size("o_proj") = q_size /\ shard_offset("o_proj") = 0
  /\ shard_size("gate_proj") = MLPPart /\ shard_offset("gate_proj") = 0
  /\ shard_size("up_proj") = MLPPart /\ shard_offset("up_proj") = MLPPart
  /\ shard_size("down_proj") = MLPPart /\ shard_offset("down_proj") = 0
  /\ shard_size("embed_tokens") = VocabPart /\ shard_offset("embed_tokens") = 0
  /\ shard_size("lm_head") = VocabPart /\ shard_offset("lm_head") = 0
<1>1. /\ shard_size("q_proj") = q_size /\ shard_offset("q_proj") = 0
      /\ shard_size("k_proj") = kv_size /\ shard_offset("k_proj") = q_size
      /\ shard_size("v_proj") = kv_size /\ shard_offset("v_proj") = q_size + kv_size
  BY DEF shard_size, shard_offset
<1>2. /\ shard_size("gate_proj") = MLPPart /\ shard_offset("gate_proj") = 0
      /\ shard_size("up_proj") = MLPPart /\ shard_offset("up_proj") = MLPPart
  BY DEF shard_size, shard_offset, MLPPart
<1>3. /\ shard_size("o_proj") = q_size /\ shard_offset("o_proj") = 0
      /\ shard_size("down_proj") = MLPPart /\ shard_offset("down_proj") = 0
  BY ParamSizes DEF shard_size, shard_offset
<1>4. /\ shard_size("embed_tokens") = VocabPart /\ shard_offset("embed_tokens") = 0
      /\ shard_size("lm_head") = VocabPart /\ shard_offset("lm_head") = 0
  BY ParamSizes DEF shard_size, shard_offset
<1> QED
  BY <1>1, <1>2, <1>3, <1>4

(* The tensors of a parameter fill it without touching each other, and the *)
(* shard a rank takes starts where those of the ranks before it end.       *)
LEMMA ShardFacts ==
  ASSUME NEW t \in Tensors
  PROVE  /\ shard_size(t) \in Nat \ {0} /\ shard_offset(t) \in Nat
         /\ ParamOf(t) \in Params /\ ParamSize(ParamOf(t)) \in Nat
         /\ shard_offset(t) + shard_size(t) <= ParamSize(ParamOf(t))
         /\ \A r \in Ranks : start_idx(t, r) = r * shard_size(t)
<1>1. t \in {"q_proj", "k_proj", "v_proj", "gate_proj", "up_proj"}
      \/ t \in {"o_proj", "down_proj", "embed_tokens", "lm_head"}
  BY DEF Tensors
<1>2. ASSUME NEW k \in Nat, NEW r \in Nat
      PROVE  r * ((k * TPSize + TPSize - 1) \div TPSize) = r * k
  <2>1. ((k * TPSize) + (TPSize - 1)) \div TPSize = k
    BY Parts, CutEven
  <2>2. k * TPSize + TPSize - 1 = (k * TPSize) + (TPSize - 1)
    <3>1. k * TPSize \in Nat
      BY Parts
    <3> QED
      BY <3>1, Parts
  <2> QED
    BY <2>1, <2>2
<1>3. ASSUME NEW r \in Ranks, t \in {"q_proj", "k_proj", "v_proj", "gate_proj", "up_proj"}
      PROVE  start_idx(t, r) = r * shard_size(t)
  <2>1. r \in Nat
    BY Parts DEF Ranks
  <2>2. ParamOf(t) # t
    BY <1>3 DEF ParamOf
  <2>3. TensorSize(t) = shard_size(t) * TPSize /\ shard_size(t) \in Nat
    BY <1>3, Parts, ShardTable DEF TensorSize
  <2> QED
    BY <1>2, <2>1, <2>2, <2>3 DEF start_idx
<1>4. ASSUME NEW r \in Ranks, t \in {"o_proj", "down_proj", "embed_tokens", "lm_head"}
      PROVE  start_idx(t, r) = r * shard_size(t)
  BY <1>4 DEF start_idx, ParamOf
<1>5. /\ shard_size(t) \in Nat \ {0} /\ shard_offset(t) \in Nat
  BY ShardTable, Parts DEF Tensors
<1>6. ParamOf(t) \in Params
  BY DEF ParamOf, Params, Tensors
<1>7. /\ ParamSize(ParamOf(t)) \in Nat
      /\ shard_offset(t) + shard_size(t) <= ParamSize(ParamOf(t))
  <2>1. CASE t \in {"q_proj", "k_proj", "v_proj"}
    <3>1. ParamOf(t) = "qkv_proj"
      BY <2>1 DEF ParamOf
    <3> QED
      BY <2>1, <3>1, ParamSizes, ShardTable, Parts
  <2>2. CASE t \in {"gate_proj", "up_proj"}
    <3>1. ParamOf(t) = "gate_up_proj"
      BY <2>2 DEF ParamOf
    <3> QED
      BY <2>2, <3>1, ParamSizes, ShardTable, Parts
  <2>3. CASE t \in {"o_proj", "down_proj", "embed_tokens", "lm_head"}
    <3>1. ParamOf(t) = t
      BY <2>3 DEF ParamOf
    <3> QED
      BY <2>3, <3>1, ParamSizes, ShardTable, Parts
  <2> QED
    BY <1>1, <2>1, <2>2, <2>3
<1> QED
  BY <1>1, <1>3, <1>4, <1>5, <1>6, <1>7

(* Two tensors of one parameter have different entries of it.              *)
LEMMA ShardsDisjoint ==
  ASSUME NEW t \in Tensors, NEW u \in Tensors, t # u, ParamOf(t) = ParamOf(u),
         NEW i \in 0 .. shard_size(t) - 1
  PROVE  shard_offset(t) + i
           \notin shard_offset(u) .. shard_offset(u) + shard_size(u) - 1
<1>1. \/ t \in {"q_proj", "k_proj", "v_proj"} /\ u \in {"q_proj", "k_proj", "v_proj"}
      \/ t \in {"gate_proj", "up_proj"} /\ u \in {"gate_proj", "up_proj"}
  BY DEF Tensors, ParamOf
<1>2. CASE t \in {"q_proj", "k_proj", "v_proj"} /\ u \in {"q_proj", "k_proj", "v_proj"}
  BY <1>2, ShardTable, Parts
<1>3. CASE t \in {"gate_proj", "up_proj"} /\ u \in {"gate_proj", "up_proj"}
  BY <1>3, ShardTable, Parts
<1> QED
  BY <1>1, <1>2, <1>3

-----------------------------------------------------------------------------
(* Loading.                                                                *)

(* What a weight_loader leaves in the parameter.                           *)
LEMMA LoadedEntries ==
  ASSUME NEW t \in Tensors, NEW r \in Ranks, NEW old,
         DOMAIN old = 0 .. ParamSize(ParamOf(t)) - 1
  PROVE  /\ DOMAIN Loaded(old, t, r) = DOMAIN old
         /\ \A i \in 0 .. shard_size(t) - 1 :
              Loaded(old, t, r)[shard_offset(t) + i] = <<t, r * shard_size(t) + i>>
         /\ \A i \in DOMAIN old :
              i \notin shard_offset(t) .. shard_offset(t) + shard_size(t) - 1
                => Loaded(old, t, r)[i] = old[i]
<1>1. DOMAIN Loaded(old, t, r) = DOMAIN old
  BY DEF Loaded
<1>2. ASSUME NEW i \in 0 .. shard_size(t) - 1
      PROVE  Loaded(old, t, r)[shard_offset(t) + i] = <<t, r * shard_size(t) + i>>
  <2>1. /\ shard_offset(t) + i \in DOMAIN old
        /\ shard_offset(t) + i \in shard_offset(t) .. shard_offset(t) + shard_size(t) - 1
    BY ShardFacts
  <2>2. Loaded(old, t, r)[shard_offset(t) + i]
          = <<t, start_idx(t, r) + (shard_offset(t) + i) - shard_offset(t)>>
    BY <2>1 DEF Loaded
  <2>3. start_idx(t, r) + (shard_offset(t) + i) - shard_offset(t)
          = r * shard_size(t) + i
    <3>1. start_idx(t, r) = r * shard_size(t) /\ shard_offset(t) \in Nat
      BY ShardFacts
    <3>2. r * shard_size(t) \in Nat
      BY ShardFacts, Parts DEF Ranks
    <3> QED
      BY <3>1, <3>2
  <2> QED
    BY <2>2, <2>3
<1>3. ASSUME NEW i \in DOMAIN old,
             i \notin shard_offset(t) .. shard_offset(t) + shard_size(t) - 1
      PROVE  Loaded(old, t, r)[i] = old[i]
  BY <1>3 DEF Loaded
<1> QED
  BY <1>1, <1>2, <1>3

(* The tensors of a checkpoint.                                            *)
LEMMA CheckpointTensors ==
  /\ Checkpoint \subseteq Tensors
  /\ Tied <=> "lm_head" \notin Checkpoint
  /\ Tensors \ {"lm_head"} \subseteq Checkpoint
BY TiedAssumption DEF Checkpoint, Tensors

(* One tensor read on one rank keeps all the others.                       *)
LEMMA LoadStep ==
  ASSUME LoadInv, NEW r \in Ranks, NEW t \in Checkpoint, LoadWeight(r, t)
  PROVE  LoadInv'
<1> DEFINE p == ParamOf(t)
           new == Loaded(param[r][p], t, r)
           Written(q) == q = p \/ (Tied /\ p = "embed_tokens" /\ q = "lm_head")
<1>1. t \in Tensors /\ p \in Params
  BY CheckpointTensors, ShardFacts
<1>2. /\ pending \in [Ranks -> SUBSET Checkpoint]
      /\ pending' = [pending EXCEPT ![r] = @ \ {t}]
      /\ t \in pending[r]
  BY DEF LoadInv, Shapes, LoadWeight
<1>3. /\ pending' \in [Ranks -> SUBSET Checkpoint]
      /\ pending'[r] = pending[r] \ {t}
      /\ \A q \in Ranks \ {r} : pending'[q] = pending[q]
  BY <1>2
<1>4. /\ DOMAIN param' = Ranks
      /\ \A q \in Ranks \ {r} : param'[q] = param[q]
      /\ param'[r] = [q \in Params |-> IF Written(q) THEN new ELSE param[r][q]]
  BY DEF LoadWeight, LoadInv, Shapes
<1>5. /\ DOMAIN param[r] = Params
      /\ \A q \in Params : DOMAIN param[r][q] = 0 .. ParamSize(q) - 1
  BY DEF LoadInv, Shapes
<1>6. /\ DOMAIN new = 0 .. ParamSize(p) - 1
      /\ \A i \in 0 .. shard_size(t) - 1 :
           new[shard_offset(t) + i] = <<t, r * shard_size(t) + i>>
      /\ \A i \in DOMAIN new :
           i \notin shard_offset(t) .. shard_offset(t) + shard_size(t) - 1
             => new[i] = param[r][p][i]
  BY <1>1, <1>5, LoadedEntries
<1> HIDE DEF new, Written
<1>7. \A q \in Params : param'[r][q] = IF Written(q) THEN new ELSE param[r][q]
  BY <1>4
<1>8. Shapes'
  <2>1. ASSUME NEW q \in Params
        PROVE  DOMAIN param'[r][q] = 0 .. ParamSize(q) - 1
    <3>1. CASE Written(q)
      <4>1. ParamSize(q) = ParamSize(p)
        BY <3>1, ParamSizes DEF Written
      <4> QED
        BY <3>1, <4>1, <1>6, <1>7
    <3>2. CASE ~ Written(q)
      BY <3>2, <1>5, <1>7
    <3> QED
      BY <3>1, <3>2
  <2>2. DOMAIN param'[r] = Params
    BY <1>4
  <2>3. \A x \in Ranks : /\ DOMAIN param'[x] = Params
                         /\ \A q \in Params : DOMAIN param'[x][q] = 0 .. ParamSize(q) - 1
    BY <2>1, <2>2, <1>4 DEF LoadInv, Shapes
  <2> QED
    BY <1>3, <1>4, <2>3 DEF Shapes
<1>9. LoadedInPlace'
  <2>1. ASSUME NEW x \in Ranks \ {r}, NEW u \in Checkpoint \ pending[x]
        PROVE  \A i \in 0 .. shard_size(u) - 1 :
                 param'[x][ParamOf(u)][shard_offset(u) + i] = <<u, x * shard_size(u) + i>>
    BY <1>4 DEF LoadInv, LoadedInPlace, ShardLoaded
  <2>2. ASSUME NEW i \in 0 .. shard_size(t) - 1
        PROVE  param'[r][p][shard_offset(t) + i] = <<t, r * shard_size(t) + i>>
    <3>1. param'[r][p] = new
      BY <1>1, <1>7 DEF Written
    <3> QED
      BY <3>1, <1>6
  <2>3. ASSUME NEW u \in Checkpoint \ pending[r], u # t,
               NEW i \in 0 .. shard_size(u) - 1
        PROVE  param'[r][ParamOf(u)][shard_offset(u) + i] = <<u, r * shard_size(u) + i>>
    <3>1. u \in Tensors /\ ParamOf(u) \in Params
      BY CheckpointTensors, ShardFacts
    <3>2. param[r][ParamOf(u)][shard_offset(u) + i] = <<u, r * shard_size(u) + i>>
      BY DEF LoadInv, LoadedInPlace, ShardLoaded
    <3>3. CASE ParamOf(u) = p
      <4>1. shard_offset(u) + i
              \notin shard_offset(t) .. shard_offset(t) + shard_size(t) - 1
        BY <1>1, <2>3, <3>1, <3>3, ShardsDisjoint
      <4>2. shard_offset(u) + i \in DOMAIN new
        BY <1>6, <3>1, <3>3, ShardFacts
      <4>3. new[shard_offset(u) + i] = param[r][p][shard_offset(u) + i]
        BY <1>6, <4>1, <4>2
      <4>4. param'[r][p] = new
        BY <1>1, <1>7 DEF Written
      <4> QED
        BY <3>2, <3>3, <4>3, <4>4
    <3>4. CASE ParamOf(u) # p
      <4>1. ~ Written(ParamOf(u))
        <5>1. SUFFICES ASSUME Tied, ParamOf(u) = "lm_head" PROVE FALSE
          BY <3>4 DEF Written
        <5>2. u = "lm_head"
          BY <3>1, <5>1 DEF ParamOf, Tensors
        <5> QED
          BY <5>1, <5>2, CheckpointTensors
      <4> QED
        BY <3>1, <3>2, <4>1, <1>7
    <3> QED
      BY <3>3, <3>4
  <2>4. \A u \in Checkpoint \ pending'[r] : u = t \/ u \in Checkpoint \ pending[r]
    BY <1>3
  <2>5. ASSUME NEW u \in Checkpoint \ pending'[r]
        PROVE  \A i \in 0 .. shard_size(u) - 1 :
                 param'[r][ParamOf(u)][shard_offset(u) + i] = <<u, r * shard_size(u) + i>>
    BY <2>2, <2>3, <2>4
  <2>6. ASSUME NEW x \in Ranks, NEW u \in Checkpoint \ pending'[x]
        PROVE  \A i \in 0 .. shard_size(u) - 1 :
                 param'[x][ParamOf(u)][shard_offset(u) + i] = <<u, x * shard_size(u) + i>>
    <3>1. CASE x = r
      BY <3>1, <2>5
    <3>2. CASE x # r
      BY <3>2, <2>1, <1>3
    <3> QED
      BY <3>1, <3>2
  <2> QED
    BY <2>6 DEF LoadedInPlace, ShardLoaded
<1>10. HeadTied'
  <2>1. SUFFICES ASSUME Tied PROVE param'[r]["lm_head"] = param'[r]["embed_tokens"]
    BY <1>4 DEF HeadTied, LoadInv
  <2>2. p # "lm_head"
    <3>1. t # "lm_head"
      BY <2>1, CheckpointTensors
    <3> QED
      BY <1>1, <3>1 DEF ParamOf, Tensors
  <2>3. Written("lm_head") <=> Written("embed_tokens")
    BY <2>1, <2>2 DEF Written
  <2>4. param[r]["lm_head"] = param[r]["embed_tokens"]
    BY <2>1 DEF LoadInv, HeadTied
  <2>5. {"lm_head", "embed_tokens"} \subseteq Params
    BY DEF Params
  <2> QED
    BY <1>7, <2>3, <2>4, <2>5
<1> QED
  BY <1>8, <1>9, <1>10 DEF LoadInv

(* The invariant holds from the empty parameters on.                       *)
LEMMA LoadInvariance == LoadSpec => []LoadInv
<1>1. LoadInit => LoadInv
  <2> SUFFICES ASSUME LoadInit PROVE LoadInv
    OBVIOUS
  <2>1. Shapes
    BY DEF LoadInit, Shapes
  <2>2. \A r \in Ranks : Checkpoint \ pending[r] = {}
    BY DEF LoadInit
  <2>3. {"lm_head", "embed_tokens"} \subseteq Params
    BY DEF Params
  <2>4. HeadTied
    BY <2>3, ParamSizes DEF LoadInit, HeadTied
  <2> QED
    BY <2>1, <2>2, <2>4 DEF LoadInv, LoadedInPlace
<1>2. LoadInv /\ [LoadNext]_loadVars => LoadInv'
  <2> SUFFICES ASSUME LoadInv, [LoadNext]_loadVars PROVE LoadInv'
    OBVIOUS
  <2>1. CASE LoadNext
    BY <2>1, LoadStep DEF LoadNext
  <2>2. CASE UNCHANGED loadVars
    BY <2>2 DEF loadVars, LoadInv, Shapes, LoadedInPlace, HeadTied, ShardLoaded
  <2> QED
    BY <2>1, <2>2
<1> QED
  BY <1>1, <1>2, PTL DEF LoadSpec

-----------------------------------------------------------------------------
(* The vocabulary.                                                         *)

(* A tensor that all ranks have read is in its place on all of them.       *)
LEMMA AllLoaded ==
  ASSUME LoadInv, NEW T, T \subseteq Checkpoint, ReadEverywhere(T)
  PROVE  \A r \in Ranks : \A t \in T : \A i \in 0 .. shard_size(t) - 1 :
           param[r][ParamOf(t)][shard_offset(t) + i] = <<t, r * shard_size(t) + i>>
BY DEF LoadInv, LoadedInPlace, ShardLoaded, ReadEverywhere

(* The rank that owns a token, and the token's place in its part.          *)
LEMMA TokenPlace ==
  ASSUME NEW x \in 0 .. Vocab - 1
  PROVE  /\ x \div VocabPart \in Ranks
         /\ x % VocabPart \in 0 .. VocabPart - 1
         /\ x = ((x \div VocabPart) * VocabPart) + (x % VocabPart)
<1>1. x \in Nat /\ x \in 0 .. (TPSize * VocabPart) - 1
  <2>1. Vocab \in Nat /\ Vocab = TPSize * VocabPart
    BY Parts, SizesAssumption
  <2> QED
    BY <2>1
<1>2. x \div VocabPart \in Ranks
  BY <1>1, Parts, PlaceBounds DEF Ranks
<1> QED
  BY <1>1, <1>2, Parts, PlaceParts

(* No other rank's mask covers the token.                                  *)
LEMMA OneOwner ==
  ASSUME NEW x \in 0 .. Vocab - 1
  PROVE  {r \in Ranks : OwnsToken(r, x)} = {x \div VocabPart}
<1> DEFINE q == x \div VocabPart
           j == x % VocabPart
<1>1. q \in Ranks /\ j \in 0 .. VocabPart - 1 /\ x = (q * VocabPart) + j
  BY TokenPlace
<1> HIDE DEF q, j
<1>2. ASSUME NEW r \in Ranks
      PROVE  OwnsToken(r, x) <=> r = q
  <2>1. r \in Nat /\ q \in Nat /\ VocabPart \in Nat \ {0}
    BY <1>1, Parts DEF Ranks
  <2>2. OwnsToken(r, x) <=> (x >= r * VocabPart /\ x < (r + 1) * VocabPart)
    BY DEF OwnsToken, VocabPart
  <2>3. /\ r * VocabPart \in Nat /\ q * VocabPart \in Nat
        /\ (r + 1) * VocabPart = r * VocabPart + VocabPart
    BY <2>1
  <2>4. r < q => r * VocabPart + VocabPart <= q * VocabPart
    BY <2>1, MulStep
  <2>5. q < r => q * VocabPart + VocabPart <= r * VocabPart
    BY <2>1, MulStep
  <2> QED
    BY <1>1, <2>1, <2>2, <2>3, <2>4, <2>5
<1> QED
  BY <1>1, <1>2 DEF q

(* The embedding and the logits, once their tensors are read.              *)
LEMMA VocabularyFromInv ==
  ASSUME LoadInv
  PROVE  VocabularyMatchesDense
<1>1. ASSUME ReadEverywhere({"embed_tokens"}), NEW x \in 0 .. Vocab - 1
      PROVE  \E r \in Ranks : EmbeddingTerms(x) = {<<r, <<"embed_tokens", x>>>>}
  <2> DEFINE q == x \div VocabPart
             j == x % VocabPart
  <2>1. q \in Ranks /\ j \in 0 .. VocabPart - 1 /\ x = (q * VocabPart) + j
    BY TokenPlace
  <2>2. EmbeddingTerms(x)
          = {<<q, param[q]["embed_tokens"][x - q * VocabPart]>>}
    BY OneOwner DEF EmbeddingTerms, VocabPart
  <2> HIDE DEF q, j
  <2>3. x - q * VocabPart = j
    <3>1. q * VocabPart \in Nat
      BY <2>1, Parts DEF Ranks
    <3> QED
      BY <2>1, <3>1
  <2>4. param[q]["embed_tokens"][0 + j] = <<"embed_tokens", (q * VocabPart) + j>>
    <3>1. {"embed_tokens"} \subseteq Checkpoint
      BY DEF Checkpoint
    <3>2. ParamOf("embed_tokens") = "embed_tokens"
      BY DEF ParamOf
    <3> QED
      BY <1>1, <2>1, <3>1, <3>2, AllLoaded, ShardTable
  <2>5. 0 + j = j
    BY <2>1
  <2> QED
    BY <2>1, <2>2, <2>3, <2>4, <2>5
<1>2. ASSUME ReadEverywhere({"embed_tokens", "lm_head"}), NEW x \in 0 .. Vocab - 1
      PROVE  LogitAt(x) = <<IF Tied THEN "embed_tokens" ELSE "lm_head", x>>
  <2> DEFINE q == x \div VocabPart
             j == x % VocabPart
             t == IF Tied THEN "embed_tokens" ELSE "lm_head"
  <2>1. q \in Ranks /\ j \in 0 .. VocabPart - 1 /\ x = (q * VocabPart) + j
    BY TokenPlace
  <2>2. LogitAt(x) = param[q]["lm_head"][j]
    BY DEF LogitAt, VocabPart
  <2>3. /\ {t} \subseteq Checkpoint /\ ReadEverywhere({t})
        /\ ParamOf(t) = t
        /\ shard_size(t) = VocabPart /\ shard_offset(t) = 0
    BY <1>2, ShardTable DEF Checkpoint, ReadEverywhere, ParamOf
  <2>4. param[q]["lm_head"] = param[q][t]
    BY <2>1 DEF LoadInv, HeadTied
  <2> HIDE DEF q, j, t
  <2>5. param[q][t][0 + j] = <<t, (q * VocabPart) + j>>
    BY <2>1, <2>3, AllLoaded
  <2>6. 0 + j = j
    BY <2>1
  <2>7. LogitAt(x) = <<t, x>>
    BY <2>1, <2>2, <2>4, <2>5, <2>6
  <2> QED
    BY <2>7 DEF t
<1> QED
  BY <1>1, <1>2 DEF VocabularyMatchesDense

(* WeightLoading.VocabularyMatchesDense (VocabParallelEmbedding.forward    *)
(* and ParallelLMHead.forward, layers/embed_head.py): each token's         *)
(* embedding comes from one rank and each gathered logit is at its token's *)
(* place, for any vocabulary that the ranks divide, tied or not.           *)
THEOREM VocabularyMatches == LoadSpec => []VocabularyMatchesDense
BY LoadInvariance, VocabularyFromInv, PTL

-----------------------------------------------------------------------------
(* Sums over the ranks.                                                    *)

Places(size) == Ranks \X (0 .. size - 1)

Where(F, size, x) == {w \in Places(size) : F[w] = x}

(* The terms of the ranks are the dense ones, by rank and place.           *)
ByPlace(F, size, dense) ==
  /\ DOMAIN dense = 0 .. (TPSize * size) - 1
  /\ \A r \in Ranks, i \in 0 .. size - 1 : F[<<r, i>>] = dense[(r * size) + i]

AllDifferent(dense) == \A g, h \in DOMAIN dense : dense[g] = dense[h] => g = h

(* Terms that are the dense ones, by rank and place, are each there once.  *)
LEMMA OnceByPlace ==
  ASSUME NEW size \in Nat \ {0}, NEW F, NEW dense,
         ByPlace(F, size, dense), AllDifferent(dense)
  PROVE  /\ \A g \in DOMAIN dense :
              Cardinality(Where(F, size, dense[g])) = 1
         /\ TPSize * size = Cardinality(DOMAIN dense)
<1>1. TPSize \in Nat \ {0} /\ TPSize * size \in Nat
  BY Parts
<1>2. \A r \in Ranks : r \in Nat
  BY <1>1 DEF Ranks
<1>3. \A r \in Ranks, i \in 0 .. size - 1 : (r * size) + i \in DOMAIN dense
  BY <1>1, PlaceBounds DEF Ranks, ByPlace
<1>4. ASSUME NEW g \in DOMAIN dense
      PROVE  Cardinality(Where(F, size, dense[g])) = 1
  <2> DEFINE q == g \div size
             j == g % size
  <2>1. g \in Nat
    BY <1>1, <1>4 DEF ByPlace
  <2>2. q \in Ranks /\ j \in 0 .. size - 1 /\ g = (q * size) + j
    BY <1>1, <1>4, <2>1, PlaceParts, PlaceBounds DEF Ranks, ByPlace
  <2> HIDE DEF q, j
  <2>3. ASSUME NEW r \in Ranks, NEW i \in 0 .. size - 1
        PROVE  F[<<r, i>>] = dense[g] <=> r = q /\ i = j
    <3>1. F[<<r, i>>] = dense[g] <=> (r * size) + i = g
      BY <1>3, <1>4 DEF ByPlace, AllDifferent
    <3>2. ASSUME (r * size) + i = (q * size) + j
          PROVE  r = q /\ i = j
      <4>1. r \in Nat /\ q \in Nat /\ j \in 0 .. size - 1
        BY <1>2, <2>2
      <4> QED
        BY <3>2, <4>1, PlaceUnique
    <3>3. r = q /\ i = j => (r * size) + i = g
      BY <2>2
    <3> QED
      BY <2>2, <3>1, <3>2, <3>3
  <2>4. Where(F, size, dense[g]) = {<<q, j>>}
    BY <2>2, <2>3 DEF Places, Where
  <2> QED
    BY <2>4, FS_Singleton
<1>5. TPSize * size = Cardinality(DOMAIN dense)
  <2> DEFINE n == TPSize * size
  <2>1. n \in Nat /\ n # 0
    <3>1. (0 * size) + size <= TPSize * size /\ 0 * size = 0
      BY <1>1, MulStep
    <3> QED
      BY <1>1, <3>1
  <2> HIDE DEF n
  <2>2. Cardinality(0 .. n - 1) = n
    BY <2>1, FS_Interval
  <2> QED
    BY <2>2 DEF n, ByPlace
<1> QED
  BY <1>4, <1>5

(* What a rank's query head is in the uncut model, and its key head.       *)
LEMMA HeadPlaces ==
  ASSUME NEW r \in Ranks, NEW i \in 0 .. q_size - 1
  PROVE  /\ i \div HeadDim \in 0 .. num_heads - 1
         /\ i % HeadDim \in 0 .. HeadDim - 1
         /\ KVHead(i \div HeadDim) \in 0 .. num_kv_heads - 1
         /\ (r * q_size + i) \div HeadDim = (r * num_heads) + (i \div HeadDim)
         /\ (r * q_size + i) % HeadDim = i % HeadDim
         /\ ((r * num_heads) + (i \div HeadDim)) \div Group
              = (r * num_kv_heads) + KVHead(i \div HeadDim)
<1>1. r \in Nat /\ i \in Nat /\ i \in 0 .. (num_heads * HeadDim) - 1
  BY Parts DEF Ranks, q_size
<1> DEFINE h == i \div HeadDim
           d == i % HeadDim
           k == KVHead(h)
<1>2. h \in 0 .. num_heads - 1 /\ d \in 0 .. HeadDim - 1 /\ i = (h * HeadDim) + d
  BY <1>1, Parts, PlaceParts, PlaceBounds
<1>3. Group \in Nat \ {0} /\ NumHeads = Group * NumKVHeads
  BY SizesAssumption, EvenCut DEF Group
<1>4. num_heads = num_kv_heads * Group
  <2>1. num_heads * TPSize = Group * (num_kv_heads * TPSize)
    BY <1>3, Parts
  <2>2. Group * (num_kv_heads * TPSize) = (num_kv_heads * Group) * TPSize
    BY <1>3, Parts
  <2>3. num_kv_heads * Group \in Nat
    BY <1>3, Parts
  <2> QED
    BY <2>1, <2>2, <2>3, Parts, MulInjective
<1>5. num_heads \div num_kv_heads = Group
  <2>1. num_heads = Group * num_kv_heads
    BY <1>3, <1>4, Parts
  <2> QED
    BY <2>1, <1>3, Parts, CutEven
<1>6. k = h \div Group
  BY <1>5 DEF KVHead
<1>7. (r * q_size + i) = ((r * num_heads) + h) * HeadDim + d
  <2> HIDE DEF h, d
  <2>1. r * q_size = (r * num_heads) * HeadDim
    BY <1>1, Parts DEF q_size
  <2>2. ((r * num_heads) + h) * HeadDim = (r * num_heads) * HeadDim + (h * HeadDim)
    BY <1>1, <1>2, Parts
  <2>3. (r * num_heads) * HeadDim \in Nat /\ h * HeadDim \in Nat
    BY <1>1, <1>2, Parts
  <2> QED
    BY <1>2, <2>1, <2>2, <2>3
<1>8. (r * num_heads) + h \in Nat
  BY <1>1, <1>2, Parts
<1>9. /\ (r * q_size + i) \div HeadDim = (r * num_heads) + h
      /\ (r * q_size + i) % HeadDim = d
  <2> DEFINE a == (r * num_heads) + h
  <2>1. a \in Nat /\ HeadDim \in Nat \ {0} /\ d \in 0 .. HeadDim - 1
    BY <1>2, <1>8, Parts
  <2>2. r * q_size + i = (a * HeadDim) + d
    BY <1>7
  <2> HIDE DEF a, d
  <2>3. ((a * HeadDim) + d) \div HeadDim = a /\ ((a * HeadDim) + d) % HeadDim = d
    BY <2>1, PlaceBuilt
  <2> QED
    BY <2>2, <2>3 DEF a
<1>10. k \in 0 .. num_kv_heads - 1
  BY <1>2, <1>3, <1>4, <1>6, Parts, PlaceBounds
<1>11. ((r * num_heads) + h) \div Group = (r * num_kv_heads) + k
  <2> DEFINE e == h % Group
  <2>1. e \in 0 .. Group - 1 /\ h = (k * Group) + e
    <3> HIDE DEF h, k
    <3>1. h \in Nat
      BY <1>2
    <3>2. h % Group \in 0 .. Group - 1 /\ h = ((h \div Group) * Group) + (h % Group)
      BY <1>3, <3>1, PlaceParts
    <3> QED
      BY <1>6, <3>2
  <2> HIDE DEF h, k, e
  <2>2. r * num_heads = (r * num_kv_heads) * Group
    BY <1>1, <1>3, <1>4, Parts
  <2>3. ((r * num_kv_heads) + k) * Group = (r * num_kv_heads) * Group + (k * Group)
    BY <1>1, <1>3, <1>10, Parts
  <2>4. (r * num_kv_heads) * Group \in Nat /\ k * Group \in Nat
    BY <1>1, <1>3, <1>10, Parts
  <2>5. (r * num_heads) + h = (((r * num_kv_heads) + k) * Group) + e
    BY <2>1, <2>2, <2>3, <2>4
  <2>6. (r * num_kv_heads) + k \in Nat
    BY <1>1, <1>10, Parts
  <2> DEFINE a == (r * num_kv_heads) + k
  <2>7. a \in Nat /\ (r * num_heads) + h = (a * Group) + e
    BY <2>5, <2>6
  <2> HIDE DEF a
  <2>8. ((a * Group) + e) \div Group = a
    BY <1>3, <2>1, <2>7, PlaceBuilt
  <2> QED
    BY <2>7, <2>8 DEF a
<1> QED
  BY <1>2, <1>9, <1>10, <1>11

(* A rank's attention terms are the dense ones at its places.              *)
LEMMA AttentionPlaces ==
  ASSUME LoadInv, ReadEverywhere({"q_proj", "k_proj", "v_proj", "o_proj"}),
         NEW r \in Ranks, NEW i \in 0 .. q_size - 1
  PROVE  AttentionTerm(r, i) = DenseAttention[(r * q_size) + i]
<1> DEFINE h == i \div HeadDim
           k == KVHead(h)
           e == i % HeadDim
           H == (r * num_heads) + h
           K == (r * num_kv_heads) + k
           g == (r * q_size) + i
           qkv == param[r]["qkv_proj"]
           dims == 0 .. HeadDim - 1
<1>1. /\ h \in 0 .. num_heads - 1 /\ e \in dims /\ k \in 0 .. num_kv_heads - 1
      /\ g \div HeadDim = H /\ g % HeadDim = e
      /\ H \div (NumHeads \div NumKVHeads) = K
  BY HeadPlaces DEF Group
<1>2. g \in 0 .. NumHeads * HeadDim - 1
  <2>1. g \in 0 .. (TPSize * q_size) - 1
    BY Parts, PlaceBounds DEF Ranks
  <2>2. NumHeads * HeadDim = TPSize * q_size
    BY Parts
  <2> QED
    BY <2>1, <2>2
<1>3. DenseAttention[g] =
        [q |-> [d \in dims |-> <<"q_proj", H * HeadDim + d>>],
         k |-> [d \in dims |-> <<"k_proj", K * HeadDim + d>>],
         v |-> <<"v_proj", K * HeadDim + e>>,
         o |-> <<"o_proj", g>>]
  BY <1>1, <1>2 DEF DenseAttention
<1>4. AttentionTerm(r, i) =
        [q |-> [d \in dims |-> qkv[h * HeadDim + d]],
         k |-> [d \in dims |-> qkv[q_size + k * HeadDim + d]],
         v |-> qkv[q_size + kv_size + k * HeadDim + e],
         o |-> param[r]["o_proj"][i]]
  BY DEF AttentionTerm
<1>5. /\ {"q_proj", "k_proj", "v_proj", "o_proj"} \subseteq Checkpoint
      /\ ParamOf("q_proj") = "qkv_proj" /\ ParamOf("k_proj") = "qkv_proj"
      /\ ParamOf("v_proj") = "qkv_proj" /\ ParamOf("o_proj") = "o_proj"
  BY DEF Checkpoint, ParamOf
<1>6. /\ \A x \in 0 .. q_size - 1 : qkv[0 + x] = <<"q_proj", r * q_size + x>>
      /\ \A x \in 0 .. kv_size - 1 : qkv[q_size + x] = <<"k_proj", r * kv_size + x>>
      /\ \A x \in 0 .. kv_size - 1 :
           qkv[q_size + kv_size + x] = <<"v_proj", r * kv_size + x>>
      /\ \A x \in 0 .. q_size - 1 :
           param[r]["o_proj"][0 + x] = <<"o_proj", r * q_size + x>>
  BY <1>5, AllLoaded, ShardTable
<1>7. ASSUME NEW d \in dims
      PROVE  /\ (h * HeadDim) + d \in 0 .. q_size - 1
             /\ (k * HeadDim) + d \in 0 .. kv_size - 1
             /\ r * q_size + ((h * HeadDim) + d) = H * HeadDim + d
             /\ r * kv_size + ((k * HeadDim) + d) = K * HeadDim + d
  <2> HIDE DEF h, k
  <2>1. /\ r \in Nat /\ h \in Nat /\ k \in Nat /\ d \in Nat
        /\ num_heads \in Nat /\ num_kv_heads \in Nat /\ HeadDim \in Nat \ {0}
    BY <1>1, Parts DEF Ranks
  <2>2. (h * HeadDim) + d \in 0 .. (num_heads * HeadDim) - 1
    BY <1>1, <2>1, PlaceBounds
  <2>3. (k * HeadDim) + d \in 0 .. (num_kv_heads * HeadDim) - 1
    BY <1>1, <2>1, PlaceBounds
  <2>4. /\ r * (num_heads * HeadDim) \in Nat /\ h * HeadDim \in Nat
        /\ ((r * num_heads) + h) * HeadDim = r * (num_heads * HeadDim) + h * HeadDim
    BY <2>1
  <2>5. /\ r * (num_kv_heads * HeadDim) \in Nat /\ k * HeadDim \in Nat
        /\ ((r * num_kv_heads) + k) * HeadDim
             = r * (num_kv_heads * HeadDim) + k * HeadDim
    BY <2>1
  <2> QED
    BY <2>1, <2>2, <2>3, <2>4, <2>5 DEF q_size, kv_size
<1>8. /\ r \in Nat /\ q_size \in Nat /\ kv_size \in Nat /\ HeadDim \in Nat
      /\ h * HeadDim \in Nat /\ k * HeadDim \in Nat
  BY <1>1, Parts DEF Ranks
<1> HIDE DEF h, k, e, H, K
<1>9. ASSUME NEW d \in dims
      PROVE  /\ qkv[h * HeadDim + d] = <<"q_proj", H * HeadDim + d>>
             /\ qkv[q_size + k * HeadDim + d] = <<"k_proj", K * HeadDim + d>>
             /\ qkv[q_size + kv_size + k * HeadDim + d] = <<"v_proj", K * HeadDim + d>>
  <2> DEFINE hd == h * HeadDim
             kd == k * HeadDim
  <2>1. /\ qkv[0 + (hd + d)] = <<"q_proj", H * HeadDim + d>>
        /\ qkv[q_size + (kd + d)] = <<"k_proj", K * HeadDim + d>>
        /\ qkv[q_size + kv_size + (kd + d)] = <<"v_proj", K * HeadDim + d>>
    BY <1>6, <1>7
  <2>2. hd \in Nat /\ kd \in Nat /\ d \in Nat
    BY <1>8
  <2> HIDE DEF hd, kd
  <2>3. /\ 0 + (hd + d) = hd + d
        /\ q_size + (kd + d) = q_size + kd + d
        /\ q_size + kv_size + (kd + d) = q_size + kv_size + kd + d
    BY <1>8, <2>2
  <2> QED
    BY <2>1, <2>3 DEF hd, kd
<1>10. param[r]["o_proj"][i] = <<"o_proj", g>>
  <2>1. 0 + i = i
    BY <1>8
  <2> QED
    BY <1>6, <2>1
<1> HIDE DEF g, qkv
<1>11. /\ [d \in dims |-> qkv[h * HeadDim + d]]
           = [d \in dims |-> <<"q_proj", H * HeadDim + d>>]
       /\ [d \in dims |-> qkv[q_size + k * HeadDim + d]]
           = [d \in dims |-> <<"k_proj", K * HeadDim + d>>]
  BY <1>9
<1>12. qkv[q_size + kv_size + k * HeadDim + e] = <<"v_proj", K * HeadDim + e>>
  BY <1>1, <1>9
<1>13. AttentionTerm(r, i) = DenseAttention[g]
  BY <1>3, <1>4, <1>10, <1>11, <1>12
<1> QED
  BY <1>13 DEF g

(* A rank's terms of the feed-forward layer are the dense ones.            *)
LEMMA MLPPlaces ==
  ASSUME LoadInv, ReadEverywhere({"gate_proj", "up_proj", "down_proj"}),
         NEW r \in Ranks, NEW i \in 0 .. MLPPart - 1
  PROVE  MLPTerm(r, i) = DenseMLP[(r * MLPPart) + i]
<1> DEFINE g == (r * MLPPart) + i
           gate_up == param[r]["gate_up_proj"]
<1>1. g \in 0 .. Intermediate - 1
  <2>1. g \in 0 .. (TPSize * MLPPart) - 1
    BY Parts, PlaceBounds DEF Ranks
  <2>2. Intermediate = TPSize * MLPPart
    BY Parts
  <2> QED
    BY <2>1, <2>2
<1>2. DenseMLP[g] = [gate |-> <<"gate_proj", g>>, up |-> <<"up_proj", g>>,
                     down |-> <<"down_proj", g>>]
  BY <1>1 DEF DenseMLP
<1>3. ParamSize("gate_up_proj") \div 2 = MLPPart
  BY ParamSizes, Parts
<1>4. MLPTerm(r, i) = [gate |-> gate_up[i], up |-> gate_up[MLPPart + i],
                       down |-> param[r]["down_proj"][i]]
  BY <1>3 DEF MLPTerm
<1>5. /\ {"gate_proj", "up_proj", "down_proj"} \subseteq Checkpoint
      /\ ParamOf("gate_proj") = "gate_up_proj" /\ ParamOf("up_proj") = "gate_up_proj"
      /\ ParamOf("down_proj") = "down_proj"
  BY DEF Checkpoint, ParamOf
<1>6. /\ gate_up[0 + i] = <<"gate_proj", g>>
      /\ gate_up[MLPPart + i] = <<"up_proj", g>>
      /\ param[r]["down_proj"][0 + i] = <<"down_proj", g>>
  BY <1>5, AllLoaded, ShardTable
<1>7. 0 + i = i
  BY Parts
<1> HIDE DEF g, gate_up
<1>8. MLPTerm(r, i) = DenseMLP[g]
  BY <1>2, <1>4, <1>6, <1>7
<1> QED
  BY <1>8 DEF g

(* So each sum over the ranks has every dense term once and no other.      *)
LEMMA LayersFromInv ==
  ASSUME LoadInv
  PROVE  LayersMatchDense
<1>1. ASSUME ReadEverywhere({"q_proj", "k_proj", "v_proj", "o_proj"})
      PROVE  EachOnce(AttentionTerm, q_size, DenseAttention)
  <2>1. PICK F : F = [w \in Places(q_size) |-> AttentionTerm(w[1], w[2])]
    OBVIOUS
  <2>2. DOMAIN DenseAttention = 0 .. (TPSize * q_size) - 1
    <3>1. NumHeads * HeadDim = TPSize * q_size
      BY Parts
    <3> QED
      BY <3>1 DEF DenseAttention
  <2>3. \A r \in Ranks, i \in 0 .. q_size - 1 :
          F[<<r, i>>] = DenseAttention[(r * q_size) + i]
    <3>1. \A r \in Ranks, i \in 0 .. q_size - 1 : F[<<r, i>>] = AttentionTerm(r, i)
      BY <2>1 DEF Places
    <3> QED
      BY <1>1, <3>1, AttentionPlaces
  <2>4. \A g \in DOMAIN DenseAttention : DenseAttention[g].o = <<"o_proj", g>>
    BY DEF DenseAttention
  <2>5. \A g, h \in DOMAIN DenseAttention :
          DenseAttention[g] = DenseAttention[h] => g = h
    BY <2>4
  <2>6. q_size \in Nat \ {0}
    BY Parts
  <2>7. ByPlace(F, q_size, DenseAttention)
    BY <2>2, <2>3 DEF ByPlace
  <2>8. AllDifferent(DenseAttention)
    BY <2>5 DEF AllDifferent
  <2>9. ASSUME NEW g \in DOMAIN DenseAttention
        PROVE  Where(F, q_size, DenseAttention[g])
                 = {w \in Places(q_size) : AttentionTerm(w[1], w[2]) = DenseAttention[g]}
    BY <2>1 DEF Where
  <2>10. /\ \A g \in DOMAIN DenseAttention :
             Cardinality(Where(F, q_size, DenseAttention[g])) = 1
        /\ TPSize * q_size = Cardinality(DOMAIN DenseAttention)
    BY <2>6, <2>7, <2>8, OnceByPlace
  <2>11. \A g \in DOMAIN DenseAttention :
          Cardinality({w \in Places(q_size) :
                         AttentionTerm(w[1], w[2]) = DenseAttention[g]}) = 1
    BY <2>9, <2>10
  <2> QED
    BY <2>10, <2>11 DEF EachOnce, Places
<1>2. ASSUME ReadEverywhere({"gate_proj", "up_proj", "down_proj"})
      PROVE  EachOnce(MLPTerm, MLPPart, DenseMLP)
  <2>1. PICK F : F = [w \in Places(MLPPart) |-> MLPTerm(w[1], w[2])]
    OBVIOUS
  <2>2. DOMAIN DenseMLP = 0 .. (TPSize * MLPPart) - 1
    <3>1. Intermediate = TPSize * MLPPart
      BY Parts
    <3> QED
      BY <3>1 DEF DenseMLP
  <2>3. \A r \in Ranks, i \in 0 .. MLPPart - 1 :
          F[<<r, i>>] = DenseMLP[(r * MLPPart) + i]
    <3>1. \A r \in Ranks, i \in 0 .. MLPPart - 1 : F[<<r, i>>] = MLPTerm(r, i)
      BY <2>1 DEF Places
    <3> QED
      BY <1>2, <3>1, MLPPlaces
  <2>4. \A g \in DOMAIN DenseMLP : DenseMLP[g].down = <<"down_proj", g>>
    BY DEF DenseMLP
  <2>5. \A g, h \in DOMAIN DenseMLP : DenseMLP[g] = DenseMLP[h] => g = h
    BY <2>4
  <2>6. MLPPart \in Nat \ {0}
    BY Parts
  <2>7. ByPlace(F, MLPPart, DenseMLP)
    BY <2>2, <2>3 DEF ByPlace
  <2>8. AllDifferent(DenseMLP)
    BY <2>5 DEF AllDifferent
  <2>9. ASSUME NEW g \in DOMAIN DenseMLP
        PROVE  Where(F, MLPPart, DenseMLP[g])
                 = {w \in Places(MLPPart) : MLPTerm(w[1], w[2]) = DenseMLP[g]}
    BY <2>1 DEF Where
  <2>10. /\ \A g \in DOMAIN DenseMLP :
             Cardinality(Where(F, MLPPart, DenseMLP[g])) = 1
        /\ TPSize * MLPPart = Cardinality(DOMAIN DenseMLP)
    BY <2>6, <2>7, <2>8, OnceByPlace
  <2>11. \A g \in DOMAIN DenseMLP :
          Cardinality({w \in Places(MLPPart) : MLPTerm(w[1], w[2]) = DenseMLP[g]}) = 1
    BY <2>9, <2>10
  <2> QED
    BY <2>10, <2>11 DEF EachOnce, Places
<1>3. ParamSize("down_proj") = MLPPart
  BY ParamSizes
<1> QED
  BY <1>1, <1>2, <1>3 DEF LayersMatchDense

(* WeightLoading.LayersMatchDense (the weight_loaders of layers/linear.py, *)
(* Qwen3Attention and Qwen3MLP): for any number of ranks that divides the  *)
(* heads, the key heads and the intermediate size, the partial sums of     *)
(* o_proj and of down_proj over the ranks are those of the uncut layers.   *)
THEOREM LayersMatch == LoadSpec => []LayersMatchDense
BY LoadInvariance, LayersFromInv, PTL
=============================================================================
