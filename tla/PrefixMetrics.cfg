CONSTANTS
  s1 = s1
  s2 = s2
  Seqs <- TwoSeqs
  Tokens <- OneToken
  Prompts <- LongPrompts
  BlockSize = 2
  NumBlocks = 4
  MaxTokens = 3
  Policy = "lru"
  Reserve = TRUE
  Digest <- ExactDigest
  MaxNumSeqs = 2
  MaxBatchedTokens = 6
  MaxChunk = 6
  Mixed = TRUE
  Eos = 2
  IgnoreEos <- Nobody
SPECIFICATION MetricsSpec
INVARIANTS
  HitsAreSaved
CHECK_DEADLOCK FALSE
