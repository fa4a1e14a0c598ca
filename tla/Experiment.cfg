CONSTANTS
  NaN = NaN
  None = None
  SortedNames <- MCSortedNames
  BootstrapMinPairs = 2
  MixedDimensions <- MCMixed
  Experiments <- MCExperiments
  WeakIdentities <- MCWeak
  Repeatable <- MCRepeatable
SPECIFICATION ComparisonSpec
CHECK_DEADLOCK FALSE
INVARIANTS ComparisonTypeOK ScienceIsComparable NothingIsAssumed WindowIsNotEmpty RolesAreExchangeable ReasonsExplain
INVARIANTS UnchangedMeansSame FreshFailureIsNamed ComparisonIsMirrored
INVARIANTS TrajectoryMeansTolerance FailureIsLocalized ToleranceIsMonotone EventImpliesDecision NonFiniteNeverPasses OrderIsImmaterial PermutationMeansMatching
