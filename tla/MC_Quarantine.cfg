SPECIFICATION QuarantineSpec
CONSTANTS
  Callers = {c1, c2}
  Paths = {near, far}
  SameVolume = {near}
  Free = free
  MaxFiles = 3
  MaxIds = 2
INVARIANTS QuarantineTypeOK RecordHasFile FilesSurvive
SYMMETRY Alike
