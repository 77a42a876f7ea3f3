CONSTANTS
  s1 = s1
  s2 = s2
  s3 = s3
  Seqs <- ThreeSeqs
  Tokens <- TwoTokens
  Prompts <- MixedPrompts
  BlockSize = 2
  NumBlocks = 4
  MaxTokens = 3
  Policy = "fifo"
  Reserve = FALSE
  Digest <- ExactDigest
  MaxNumSeqs = 2
  MaxBatchedTokens = 4
  MaxChunk = 3
  Mixed = FALSE
  Eos = 2
  IgnoreEos <- Nobody
SPECIFICATION SchedSpec
INVARIANTS
  QueuesExact
  ScheduledHaveRoom
  NoStall
CHECK_DEADLOCK FALSE
