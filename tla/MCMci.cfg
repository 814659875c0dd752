CONSTANTS
  c1 = c1
  c2 = c2
  NoOne = NoOne
  Caller <- MCCaller
  MaxCmd <- MCMaxCmd
SPECIFICATION Spec
INVARIANTS OwnResult LateBounded
CHECK_DEADLOCK FALSE
