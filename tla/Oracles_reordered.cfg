CONSTANTS
  NaN = NaN
  None = None
  SortedNames <- MCSortedNames
  BootstrapMinPairs = 2
  MixedDimensions <- MCMixed
  Experiments <- PermutationExperiments
  WeakIdentities = {}
  Repeatable = {}
SPECIFICATION ComparisonSpec
CHECK_DEADLOCK FALSE
INVARIANT ReorderedIsAccepted
