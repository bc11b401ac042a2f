SPECIFICATION FairSpec
CONSTANTS
  Sizes <- MCSizes
  Addresses = {0, 5}
  Bursts <- MCBursts
  Words <- MCWords
  Reads = 7
  Devices <- MCDevices
  Offsets <- MCOffsets
  Files = {2, 6}
  Space = 8
  ChipSize = 4
  MaxCalls = 3
INVARIANTS TypeOK Restored DownloadExact SizeGuessed Identified RequestInside
PROPERTIES CommandsEnd
CHECK_DEADLOCK FALSE
