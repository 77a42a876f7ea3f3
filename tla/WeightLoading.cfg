CONSTANTS
  TPSize = 2
  NumHeads = 8
  NumKVHeads = 4
  HeadDim = 2
  Intermediate = 4
  Vocab = 4
  Tied = TRUE
SPECIFICATION LoadSpec
INVARIANTS
  LayersMatchDense
  VocabularyMatchesDense
CHECK_DEADLOCK FALSE
