CONSTANTS
  Infos <- StraightInfos
  ICacheConfig <- Latency3
  DCacheConfig <- Latency2
SPECIFICATION Spec
INVARIANT
  MemoryWordsLookedUp
CHECK_DEADLOCK FALSE
