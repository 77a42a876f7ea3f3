CONSTANTS
  s1 = s1
  s2 = s2
  s3 = s3
  Seqs <- TwoSeqs
  Tokens <- TwoTokens
  Prompts <- OversizedPrompts
  BlockSize = 2
  NumBlocks = 3
  MaxTokens = 2
  Policy = "lru"
  Reserve = FALSE
  Digest <- ExactDigest
  MaxNumSeqs = 2
  MaxBatchedTokens = 4
  MaxChunk = 4
  Mixed = TRUE
  Eos = 2
  IgnoreEos <- Nobody
SPECIFICATION SchedSpec
INVARIANTS
  NoStall
CHECK_DEADLOCK FALSE
