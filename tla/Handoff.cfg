SPECIFICATION Spec
CONSTANTS
  b1 = b1
  b2 = b2
  c1 = c1
  c2 = c2
  Captures = {b1, b2, c1, c2}
  RoleOf <- Role
  None = None
INVARIANTS
  TypeOK
  TurnsAreRecorded
