CONSTANTS
  TPSize = 4
  AllReduces = 1
  MaxCalls = 3
SPECIFICATION TPFairSpec
INVARIANTS
  TPTypeOK
  CollectivesMatch
  SharedMemoryLive
PROPERTIES
  BroadcastSpec
  ProcessesEnd
CHECK_DEADLOCK FALSE
