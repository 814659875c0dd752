CONSTANTS
  f1 = f1
  f2 = f2
  FE <- MCFE
  Home <- MCHome
  FModes <- MCFModes
  OldQuattros = {FALSE, TRUE}
  MoveTo <- MCMoveTo
SPECIFICATION Spec
INVARIANTS PowerFitsNeed QuattroMatches
PROPERTIES NobodysPowerTaken
