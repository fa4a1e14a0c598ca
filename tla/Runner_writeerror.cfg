SPECIFICATION Spec
CONSTANTS
  r1 = r1
  r2 = r2
  Runs = {r1}
  Bases = {"nightly"}
  MaxAttempt = 1
  Policies <- DefaultOnly
  Failures = {}
  StatusSets <- OneArm
  Absent = Absent
  Torn = Torn
  None = None
INVARIANT WriteErrorMeansNoBundle
