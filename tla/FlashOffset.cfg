\* The byte chip, asked to write from another page of a sector than its first.
\* bits, no burst writes.
CHECK_DEADLOCK FALSE
SPECIFICATION Spec
CONSTANTS
  PageSize = 2
  PagesPerSector = 2
  SectorsPerChip = 2
  ReadPageBoundary = 2
  Byte <- MCByte
  Erased <- MCErased
  Garbage <- MCGarbage
  ChipUnit = 1
  Quirky = FALSE
  PageClearsOnly = TRUE
  OkDefault = FALSE
  Initial <- MCInitial
  Requests <- MCInnerRequests
  BurstWrites = FALSE
  WordSize = 1
  MaxCalls = 3
INVARIANTS WritesAtOffset
