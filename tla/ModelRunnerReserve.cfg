CONSTANTS
  s1 = s1
  s2 = s2
  s3 = s3
  Seqs <- TwoSeqs
  Tokens <- TwoTokens
  Prompts <- MixedPrompts
  BlockSize = 2
  NumBlocks = 6
  MaxTokens = 3
  Policy = "lru"
  Reserve = TRUE
  Digest <- ExactDigest
  MaxNumSeqs = 2
  MaxBatchedTokens = 4
  MaxChunk = 4
  Mixed = FALSE
  Eos = 2
  IgnoreEos <- Nobody
  ClassBlockSize = 2
  QkNormRope = "torch"
SPECIFICATION RunnerSpec
INVARIANTS
  ReadsWritten
CHECK_DEADLOCK FALSE
