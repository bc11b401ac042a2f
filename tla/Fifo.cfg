SPECIFICATION FairSpec
CONSTANTS
  Packets = {1, 2, 3}
  Size <- MCSize
  Text = {1, 3}
  Streams <- MCStreams
INVARIANTS TypeOK Genuine NothingMissed
PROPERTIES EndsOnInterrupt
CHECK_DEADLOCK FALSE
