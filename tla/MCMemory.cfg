CONSTANTS
  Radix = 2
  NumEntries = 6
  startAddr = 0
  NoFile = NoFile
  Images <- MCImages
  Programs <- MCPrograms
  Accesses <- MCAccesses
  Stored <- MCStored
  Ranges <- MCRanges
  EntriesPerRow = 2
SPECIFICATION DumpSpec
INVARIANTS TypeOK LoadedAsGiven SizesAgree StoreReadsBack DumpShowsMemory
PROPERTY StoreIsLocal
CHECK_DEADLOCK FALSE
