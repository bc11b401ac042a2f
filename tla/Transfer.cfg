SPECIFICATION FairSpec
CONSTANTS
  Files <- MCFiles
  Sizes = {0, 3, 4, 10}
  Offsets <- MCOffsets
  MemorySize = 8
  Space = 10
  Block = 2
  Chunk = 4
  Pad = 2
  Boot = 4
  Large = 4
  HasCic = TRUE
  HasExtended = TRUE
  MaxCalls = 2
INVARIANTS TypeOK UploadIsPrefix UploadComplete DownloadIsPrefix CicFits SaveFits
PROPERTIES CommandEnds CopySpec
CHECK_DEADLOCK FALSE
