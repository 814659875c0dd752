CONSTANTS
  c1 = c1
  c2 = c2
  NoConn = NoConn
  RxSize = 2
  MaxMsg = 2
  MaxFrag = 1
  MaxEvent = 1
  Conn <- MCConn
SPECIFICATION Spec
INVARIANTS EndReached
CHECK_DEADLOCK FALSE
