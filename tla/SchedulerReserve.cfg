CONSTANTS
  s1 = s1
  s2 = s2
  s3 = s3
  Seqs <- ThreeSeqs
  Tokens <- TwoTokens
  Prompts <- TightPrompts
  BlockSize = 2
  NumBlocks = 5
  MaxTokens = 3
  Policy = "lru"
  Reserve = TRUE
  Digest <- ExactDigest
  MaxNumSeqs = 3
  MaxBatchedTokens = 4
  MaxChunk = 2
  Mixed = TRUE
  Eos = 2
  IgnoreEos <- Nobody
SPECIFICATION SchedSpec
PROPERTIES
  ReserveNeverPreempts
CHECK_DEADLOCK FALSE
