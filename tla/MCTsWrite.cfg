CONSTANTS
  Num <- MCNum
  Size <- MCSize
  Packet <- MCPacket
  Gran <- MCGran
  Counts <- MCCounts
SPECIFICATION FairSpec
INVARIANTS RingConsistent
PROPERTIES NoBusyLoop WriterProgress
