SPECIFICATION FairSpec
CONSTANTS
  r1 = r1
  r2 = r2
  Runs = {r1, r2}
  Bases = {"nightly"}
  MaxAttempt = 2
  Policies <- DefaultOnly
  Failures = {}
  StatusSets <- OneArm
  Absent = Absent
  Torn = Torn
  None = None
INVARIANT
  ExclusiveOwner
PROPERTIES
  SealedIsFinal
  ImplementsLedger
  EveryRunEnds
