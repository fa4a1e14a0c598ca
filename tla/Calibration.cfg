CONSTANTS
  NaN = NaN
  None = None
  SortedNames <- PendulumNames
  BootstrapMinPairs = 2
  MixedDimensions = {}
  Experiments <- MCExperiments
  WeakIdentities = {}
  Campaigns <- MCCampaigns
  MaxErrors = 1
SPECIFICATION CalibrationSpec
CHECK_DEADLOCK FALSE
INVARIANTS CalibrationTypeOK CreditIsDue MissIsBelowTolerance SevereIsDetected ConsistentIsEarned
