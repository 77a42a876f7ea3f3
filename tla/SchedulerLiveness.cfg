CONSTANTS
  Seqs <- ThreeSeqs
  Tokens <- TwoTokens
  Prompts <- MixedPrompts
  BlockSize = 2
  NumBlocks = 3
  MaxTokens = 3
  Policy = "lru"
  Reserve = FALSE
  Digest <- ExactDigest
  MaxNumSeqs = 2
  MaxBatchedTokens = 3
  MaxChunk = 2
  Mixed = TRUE
  Eos = 2
  IgnoreEos <- Nobody
  PrefixReorderTokens = 2
SPECIFICATION EngineSpec
PROPERTIES
  RequestsFinish
  ServiceSpec
CHECK_DEADLOCK FALSE
