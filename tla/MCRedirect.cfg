CONSTANTS
  t1 = t1
  t2 = t2
  p1 = p1
  p2 = p2
  p3 = p3
  w1 = w1
  Null = Null
  MaxFeed = 2
  Tuner <- MCTuner
  Port <- MCPort
  Writer <- MCWriter
  Opened <- MCOpened
SYMMETRY Symmetry
SPECIFICATION MCSpec
INVARIANTS LinksPaired ChainsEnd DescribedComplete
PROPERTIES DescribedChainKept
