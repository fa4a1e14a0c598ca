SPECIFICATION Spec
CONSTANTS
  c1 = c1
  c2 = c2
  verdictJson = verdictJson
  oraclesJson = oraclesJson
  notes = notes
  Name = {verdictJson, oraclesJson, notes}
  Contents = {c1, c2}
  Original <- MCOriginal
  Absent = Absent
  Torn = Torn
INVARIANTS
  TypeOK
  UndetectedMeansResealed
