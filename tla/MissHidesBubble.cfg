CONSTANTS
  Infos <- StraightInfos
  ICacheConfig <- Latency3
  DCacheConfig <- Latency2
SPECIFICATION Spec
INVARIANT
  LoadOpSeparated
CHECK_DEADLOCK FALSE
