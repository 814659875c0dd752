CONSTANTS
  m1 = m1
  Monitor <- MCMonitor
  Where <- MCWhere
  MaxEvent = 2
  Zigzag <- MCZigzag
  StepRange = 3
  Max <- MCMax
SPECIFICATION FairSpec
CHECK_DEADLOCK FALSE
INVARIANTS SemExclusive ThreadLifetime StatusFresh ScanComplete
PROPERTIES Settles
