CONSTANTS
  s1 = s1
  s2 = s2
  s3 = s3
  Seqs <- ThreeSeqs
  Tokens <- TwoTokens
  Prompts <- MixedPrompts
  BlockSize = 2
  NumBlocks = 4
  MaxTokens = 3
  Policy = "lru"
  Reserve = FALSE
  Digest <- ExactDigest
  MaxNumSeqs = 2
  MaxBatchedTokens = 2
  MaxChunk = 2
  Mixed = TRUE
  Eos = 2
  IgnoreEos <- OnlyS1
  ClassBlockSize = 1
SPECIFICATION SchedSpec
INVARIANTS
  SchedTypeOK
  QueuesExact
  ScheduledHaveRoom
  BetweenBatches
  OnlyQueuedHoldBlocks
  BatchBudget
  NoStall
  WorkersPrepare
PROPERTIES
  Spec
CHECK_DEADLOCK FALSE
