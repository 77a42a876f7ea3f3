CONSTANTS
  s1 = s1
  s2 = s2
  s3 = s3
  Seqs <- ThreeSeqs
  Tokens <- TwoTokens
  Prompts <- ShortPrompts
  BlockSize = 2
  NumBlocks = 4
  MaxTokens = 3
  Policy = "lru"
  Reserve = FALSE
  Digest <- ExactDigest
  MaxNumSeqs = 4
  MaxBatchedTokens = 3
  MaxChunk = 2
  Mixed = TRUE
  Eos = 2
  IgnoreEos <- Nobody
  ClassBlockSize = 2
  MaxModelLen = 5
  QkNormRope = "sm120"
SPECIFICATION GraphSpec
INVARIANTS
  AttendsOwn
  GraphFits
  HashedBlocksWritten
  SlotsDistinct
PROPERTIES
  RunnerSpec
CHECK_DEADLOCK FALSE
