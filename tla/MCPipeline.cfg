CONSTANTS
  Infos <- AllInfos
  ICacheConfig <- Latency3
  DCacheConfig <- Latency2
SPECIFICATION FairSpec
INVARIANTS
  TypeOK
  AddressTracksStage
  ExceptionsMeetNoStall
  StalledMeansLookedUp
PROPERTIES
  MissWaitedForOnce
  ImplementsInOrder
  FetchedReachesW
CHECK_DEADLOCK FALSE
