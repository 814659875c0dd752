CONSTANTS
  c1 = c1
  c2 = c2
  NoConn = NoConn
  RxSize = 3
  MaxMsg = 2
  MaxFrag = 2
  MaxEvent = 2
  Conn <- MCConn
SPECIFICATION FairSpec
CHECK_DEADLOCK FALSE
INVARIANTS ReadsWhole ModuleLeftAlone
PROPERTIES Settles ReaderServed
