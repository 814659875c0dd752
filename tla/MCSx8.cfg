CONSTANTS
  f1 = f1
  f2 = f2
  t1 = t1
  t2 = t2
  FE <- MCFE
  Tuner <- MCTuner
  NumDemod = 2
  NumHigh = 1
  Rates <- MCRates
  HighRate = 1
  MaxBits = 3
  MaxLdpc = 7
  MaxDemodLdpc = 5
SYMMETRY Symmetry
SPECIFICATION Spec
INVARIANTS NothingShared TsConfigMatches NothingLeaked
PROPERTIES GrantWithinBudget NoForeignStop
