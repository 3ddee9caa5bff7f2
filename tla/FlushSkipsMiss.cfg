CONSTANTS
  Infos <- StraightInfos
  ICacheConfig <- Latency3
  DCacheConfig <- Latency2
SPECIFICATION Spec
PROPERTY
  FlushWaitsForMiss
CHECK_DEADLOCK FALSE
