\* A MX29L1100: 16-bit words, mode switches may need two writes;
\* the driver and the timer of its polls are scheduled fairly.
CHECK_DEADLOCK FALSE
SPECIFICATION FairSpec
CONSTANTS
  PageSize = 2
  PagesPerSector = 2
  SectorsPerChip = 2
  ReadPageBoundary = 2
  Byte <- MCByte
  Erased <- MCErased
  Garbage <- MCGarbage
  ChipUnit = 2
  Quirky = TRUE
  PageClearsOnly = FALSE
  OkDefault = TRUE
  Initial <- MCInitial
  Requests <- MCRequests
  BurstWrites = TRUE
  WordSize = 1
  MaxCalls = 4
INVARIANTS TypeOK WrittenAsAsked ReadReturnsCells LayoutDetected RightMode CommandsTaken
PROPERTIES StoreSpec CallsEnd
