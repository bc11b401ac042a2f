SPECIFICATION Spec
CONSTANTS
  Sizes <- MCSizes
  Addresses = {0, 5}
  Bursts <- MCBursts
  Words <- MCWords
  Reads = 7
  Devices <- MCDevices
  Offsets <- MCOffsets
  Files = {2, 6}
  Space = 8
  ChipSize = 4
  MaxCalls = 1
INVARIANT DefaultSize
CHECK_DEADLOCK FALSE
