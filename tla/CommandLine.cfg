SPECIFICATION FairCSpec
CONSTANTS
  r1 = r1
  r2 = r2
  Runs = {r1, r2}
  Bases = {"nightly"}
  MaxAttempt = 2
  Policies <- TwoPolicies
  Failures = {"contract", "source"}
  StatusSets <- SomeArms
  Absent = Absent
  Torn = Torn
  None = None
  Invocations <- MCInvocations
INVARIANTS
  CTypeOK
  VerifiedIsWholeRecord
  InfrastructureIsNeverScience
  ExitIsOnRecord
  ReadingStands
  ReproducedMeansAgain
PROPERTY
  EveryCommandEnds
