CONSTANTS
  Radix = 2
  WordBits = 4
  NumEntries = 3
  startAddr = 0
  Registers = {0, 1, 31}
  LinkRegister = 31
  ExceptionVector = 8
  RegionSize = 8
  MaxInstructions = 4
  Instructions <- MCInstructions
SPECIFICATION Spec
INVARIANTS TypeOK ZeroAtHalt
PROPERTIES ImplementsMIPS BranchesHeld OperationsHeld TraceShowsWrites TraceShowsReads
CHECK_DEADLOCK FALSE
