SPECIFICATION Spec
CONSTANTS
  Runs <- MCRuns
  MaxSteps = 2
  MaxFaults = 2
INVARIANT ZeroIsClean
INVARIANT CleanedInOrder
PROPERTY RunEnds
