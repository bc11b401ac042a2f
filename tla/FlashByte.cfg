\* A MN63F8MPN on a firmware before 2.04: bytes, an internal page that only clears
\* bits, no burst writes.
CHECK_DEADLOCK FALSE
SPECIFICATION Spec
CONSTANTS
  PageSize = 2
  PagesPerSector = 2
  SectorsPerChip = 2
  ReadPageBoundary = 2
  Byte <- MCByte
  Erased <- MCErased
  Garbage <- MCGarbage
  ChipUnit = 1
  Quirky = FALSE
  PageClearsOnly = TRUE
  OkDefault = FALSE
  Initial <- MCInitial
  Requests <- MCRequests
  BurstWrites = FALSE
  WordSize = 1
  MaxCalls = 3
INVARIANTS WrittenAsAsked
