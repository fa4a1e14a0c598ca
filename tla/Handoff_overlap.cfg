SPECIFICATION Spec
CONSTANTS
  b1 = b1
  b2 = b2
  c1 = c1
  c2 = c2
  Captures = {b1, c1}
  RoleOf <- Role
  None = None
INVARIANT SuccessIsRecorded
