CONSTANTS
  s1 = s1
  s2 = s2
  s3 = s3
  Seqs <- TwoSeqs
  Tokens <- TwoTokens
  Prompts <- LongPrompts
  BlockSize = 2
  NumBlocks = 4
  MaxTokens = 2
  Policy = "lru"
  Reserve = FALSE
  Digest <- SiblingDigest
SPECIFICATION Spec

INVARIANTS
  TypeOK
  FreeExact
  CachedBounds
  RefExact
  MapSound
  CachedPrefixCorrect
  WritesPrivate
  AdmissionSuffices
PROPERTIES
  ContentsStable
CHECK_DEADLOCK FALSE
