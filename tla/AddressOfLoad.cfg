CONSTANTS
  Infos <- PointerInfos
  ICacheConfig <- Latency3
  DCacheConfig <- NoLatency
SPECIFICATION Spec
INVARIANT
  AddressSeparated
CHECK_DEADLOCK FALSE
