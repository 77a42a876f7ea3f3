---------------------------- MODULE WeightLoading ----------------------------
(***************************************************************************)
(* How the checkpoint of a Qwen3 model is cut over the tensor-parallel     *)
(* ranks (nanovllm/utils/loader.py, the weight_loaders of layers/linear.py *)
(* and layers/embed_head.py), and what their forwards then compute.        *)
(*                                                                         *)
(* A tensor is a function on the indices of the dimension it is cut along  *)
(* (0 for column-parallel layers and the vocabulary, 1 for row-parallel    *)
(* ones); the entry at an index is named <<checkpoint tensor, index>>.  A  *)
(* loaded parameter says which entry it got at every index, and a layer's  *)
(* result is named by the entries that enter it.                           *)
(*                                                                         *)
(* One decoder layer stands for all.  Norms are replicated, their          *)
(* loading is a plain copy, and they are left out.                         *)
(***************************************************************************)
EXTENDS Integers, FiniteSets

CONSTANTS
  TPSize,       \* tensor_parallel_size
  NumHeads,     \* num_attention_heads
  NumKVHeads,   \* num_key_value_heads
  HeadDim,      \* head_dim
  Intermediate, \* intermediate_size
  Vocab,        \* vocab_size
  Tied          \* tie_word_embeddings

(* divide's assertions, and those of Qwen3Attention and of                 *)
(* VocabParallelEmbedding; query heads share key heads evenly.             *)
ASSUME SizesAssumption ==
  /\ {TPSize, NumHeads, NumKVHeads, HeadDim, Intermediate, Vocab} \subseteq Nat \ {0}
  /\ NumHeads % TPSize = 0
  /\ NumKVHeads % TPSize = 0
  /\ Intermediate % TPSize = 0
  /\ Vocab % TPSize = 0
  /\ NumHeads % NumKVHeads = 0
ASSUME TiedAssumption == Tied \in BOOLEAN

VARIABLES
  param,    \* rank -> parameter -> index -> the entry there, or Empty
  pending   \* rank -> the tensors of the checkpoint load_model has to read

loadVars == <<param, pending>>

Ranks == 0 .. TPSize - 1

Empty == <<>>

(* The checkpoint: a tied model has no tensor for the head.                *)
Checkpoint ==
  {"embed_tokens", "q_proj", "k_proj", "v_proj", "o_proj", "gate_proj",
   "up_proj", "down_proj"} \cup (IF Tied THEN {} ELSE {"lm_head"})

Params ==
  {"embed_tokens", "qkv_proj", "o_proj", "gate_up_proj", "down_proj", "lm_head"}

TensorSize(t) ==
  CASE t \in {"q_proj", "o_proj"}       -> NumHeads * HeadDim
    [] t \in {"k_proj", "v_proj"}       -> NumKVHeads * HeadDim
    [] t \in {"gate_proj", "up_proj", "down_proj"} -> Intermediate
    [] OTHER                            -> Vocab

(* The tensors are cut evenly, a packed parameter as a whole.              *)
ParamSize(p) ==
  CASE p = "qkv_proj"     -> ((NumHeads + 2 * NumKVHeads) * HeadDim) \div TPSize
    [] p = "gate_up_proj" -> (2 * Intermediate) \div TPSize
    [] OTHER              -> TensorSize(p) \div TPSize

(* packed_modules_mapping: the parameter a tensor is loaded into.          *)
ParamOf(t) ==
  CASE t \in {"q_proj", "k_proj", "v_proj"} -> "qkv_proj"
    [] t \in {"gate_proj", "up_proj"}       -> "gate_up_proj"
    [] OTHER                                -> t

-----------------------------------------------------------------------------
(* The weight loaders.                                                     *)

num_heads == NumHeads \div TPSize
num_kv_heads == NumKVHeads \div TPSize

q_size == num_heads * HeadDim
kv_size == num_kv_heads * HeadDim

(* Slip: offsets in the packed parameter of the uncut model.               *)
UncutOffset(t) ==
  CASE t = "k_proj"  -> kv_size
    [] t = "v_proj"  -> 2 * kv_size
    [] t = "up_proj" -> Intermediate \div TPSize
    [] OTHER         -> 0

(* Where a tensor's shard begins in its parameter.                         *)
shard_offset(t) ==
  CASE t = "k_proj"  -> q_size
    [] t = "v_proj"  -> q_size + kv_size
    [] t = "up_proj" -> Intermediate \div TPSize
    [] OTHER         -> 0

shard_size(t) ==
  CASE t = "q_proj"               -> q_size
    [] t \in {"k_proj", "v_proj"} -> kv_size
    [] t \in {"gate_proj", "up_proj"} -> Intermediate \div TPSize
    [] OTHER                      -> ParamSize(t)

(* Slip: the ranks take the shards from the end.                           *)
StartFromEnd(t, r) == TensorSize(t) - (r + 1) * shard_size(t)

(* Where rank r's shard begins in the tensor: packed ones take the r-th of *)
(* TPSize chunks, the others narrow to the r-th shard.                     *)
start_idx(t, r) ==
  IF ParamOf(t) # t
  THEN r * ((TensorSize(t) + TPSize - 1) \div TPSize)
  ELSE r * shard_size(t)

(* Parameter.weight_loader on rank r.                                      *)
Loaded(old, t, r) ==
  [i \in DOMAIN old |->
     IF i \in shard_offset(t) .. shard_offset(t) + shard_size(t) - 1
     THEN <<t, start_idx(t, r) + i - shard_offset(t)>>
     ELSE old[i]]

(* load_model on rank r reads its next tensor: files and the tensors in    *)
(* them come in any order.  Tied, the head is the embedding's own storage. *)
LoadWeight(r, t) ==
  /\ t \in pending[r]
  /\ pending' = [pending EXCEPT ![r] = @ \ {t}]
  /\ LET p == ParamOf(t)
         new == Loaded(param[r][p], t, r)
     IN  param' = [param EXCEPT ![r] = [q \in Params |->
                     IF q = p \/ (Tied /\ p = "embed_tokens" /\ q = "lm_head")
                     THEN new ELSE @[q]]]

LoadInit ==
  /\ param = [r \in Ranks |->
                [p \in Params |-> [i \in 0 .. ParamSize(p) - 1 |-> Empty]]]
  /\ pending = [r \in Ranks |-> Checkpoint]

LoadNext == \E r \in Ranks : \E t \in Checkpoint : LoadWeight(r, t)

LoadSpec == LoadInit /\ [][LoadNext]_loadVars

-----------------------------------------------------------------------------
(* The forwards, on a rank and as a whole.                                 *)

(* The key head of a rank's query head: heads share keys in groups.        *)
KVHead(h) == h \div (num_heads \div num_kv_heads)

(* Element i of a rank's attention output and the column of o_proj it      *)
(* meets: the rows of the query head, of its key head, of one value.       *)
AttentionTerm(r, i) ==
  LET qkv  == param[r]["qkv_proj"]
      head == i \div HeadDim
      kv   == KVHead(head)
      dims == 0 .. HeadDim - 1
  IN  [q |-> [d \in dims |-> qkv[head * HeadDim + d]],
       k |-> [d \in dims |-> qkv[q_size + kv * HeadDim + d]],
       v |-> qkv[q_size + kv_size + kv * HeadDim + (i % HeadDim)],
       o |-> param[r]["o_proj"][i]]

(* Element i of SiluAndMul's output and the column of down_proj it meets.  *)
MLPTerm(r, i) ==
  LET gate_up == param[r]["gate_up_proj"]
  IN  [gate |-> gate_up[i],
       up   |-> gate_up[ParamSize("gate_up_proj") \div 2 + i],
       down |-> param[r]["down_proj"][i]]

(* VocabParallelEmbedding.forward: the rank's mask.                        *)
OwnsToken(r, x) ==
  LET part == Vocab \div TPSize
  IN  x >= r * part /\ x < (r + 1) * part

(* What the ranks add to the all_reduce for token x.                       *)
EmbeddingTerms(x) ==
  {<<r, param[r]["embed_tokens"][x - r * (Vocab \div TPSize)]>> :
     r \in {r \in Ranks : OwnsToken(r, x)}}

(* ParallelLMHead: the ranks' logits gathered and concatenated by rank.    *)
LogitAt(x) ==
  LET part == Vocab \div TPSize
  IN  param[x \div part]["lm_head"][x % part]

-----------------------------------------------------------------------------
(* Properties.                                                             *)

ReadEverywhere(T) == \A r \in Ranks : pending[r] \cap T = {}

(* The terms a sum over the ranks is made of are the dense ones, each once.*)
EachOnce(term(_, _), size, dense) ==
  /\ \A g \in DOMAIN dense :
       Cardinality({w \in Ranks \X (0 .. size - 1) : term(w[1], w[2]) = dense[g]}) = 1
  /\ TPSize * size = Cardinality(DOMAIN dense)

DenseAttention ==
  [g \in 0 .. NumHeads * HeadDim - 1 |->
     LET head == g \div HeadDim
         kv   == head \div (NumHeads \div NumKVHeads)
         dims == 0 .. HeadDim - 1
     IN  [q |-> [d \in dims |-> <<"q_proj", head * HeadDim + d>>],
          k |-> [d \in dims |-> <<"k_proj", kv * HeadDim + d>>],
          v |-> <<"v_proj", kv * HeadDim + (g % HeadDim)>>,
          o |-> <<"o_proj", g>>]]

DenseMLP ==
  [g \in 0 .. Intermediate - 1 |->
     [gate |-> <<"gate_proj", g>>, up |-> <<"up_proj", g>>, down |-> <<"down_proj", g>>]]

(* However the tensors were ordered in the files, a layer cut over the     *)
(* ranks sums up to the uncut one: each query head meets its own key head  *)
(* and its own columns of o_proj, each gate its own up and down.           *)
LayersMatchDense ==
  /\ ReadEverywhere({"q_proj", "k_proj", "v_proj", "o_proj"}) =>
       EachOnce(AttentionTerm, q_size, DenseAttention)
  /\ ReadEverywhere({"gate_proj", "up_proj", "down_proj"}) =>
       EachOnce(MLPTerm, ParamSize("down_proj"), DenseMLP)

(* A token's embedding comes from exactly one rank, and the position of a  *)
(* gathered logit, which is what the sampler returns, is its token.        *)
VocabularyMatchesDense ==
  /\ ReadEverywhere({"embed_tokens"}) =>
       \A x \in 0 .. Vocab - 1 :
         \E r \in Ranks : EmbeddingTerms(x) = {<<r, <<"embed_tokens", x>>>>}
  /\ ReadEverywhere({"embed_tokens", "lm_head"}) =>
       \A x \in 0 .. Vocab - 1 :
         LogitAt(x) = <<IF Tied THEN "embed_tokens" ELSE "lm_head", x>>
=============================================================================
