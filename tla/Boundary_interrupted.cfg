SPECIFICATION Spec
CONSTANTS
  c1 = c1
  c2 = c2
  r1 = r1
  Captures = {c1}
  Readers = {r1}
  Legacy = Legacy
  Shape <- SameShape
  Absent = Absent
  Torn = Torn
  None = None
INVARIANT InterruptedIsIncomplete
