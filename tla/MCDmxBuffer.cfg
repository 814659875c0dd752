CONSTANTS
  Size <- MCSize
  Lengths <- MCLengths
  Counts <- MCCounts
  MaxByte <- MCMaxByte
SPECIFICATION FairSpec
INVARIANTS NoOverwriteDuringCopy
PROPERTIES IsQueue GapReported NoLostWakeup
