CONSTANTS
  Infos <- StraightInfos
  ICacheConfig <- Latency3
  DCacheConfig <- NoLatency
  Requests <- MCRequests
  CycleSpace = 3
SPECIFICATION SimSpec
INVARIANTS
  LoadOpSeparated
  OpBranchSeparated
  LoadBranchSeparated
  TotalIsLines
PROPERTIES
  ImplementsInterlocks
  EveryCyclePrinted
CHECK_DEADLOCK FALSE
