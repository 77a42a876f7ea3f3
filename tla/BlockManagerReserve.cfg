CONSTANTS
  s1 = s1
  s2 = s2
  s3 = s3
  Seqs <- ThreeSeqs
  Tokens <- TwoTokens
  Prompts <- ShortPrompts
  BlockSize = 2
  NumBlocks = 4
  MaxTokens = 2
  Policy = "fifo"
  Reserve = TRUE
  Digest <- ExactDigest
SPECIFICATION Spec
SYMMETRY Symmetry
INVARIANTS
  RefExact
  CachedPrefixCorrect
  WritesPrivate
  ReserveCovers
CHECK_DEADLOCK FALSE
