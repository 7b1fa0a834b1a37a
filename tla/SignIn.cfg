SPECIFICATION Spec
CONSTANTS
  Browsers = {b1, b2}
  Requests = {r1, r2}
  AccessTTL = 2
  RefreshTTL = 3
  MaxTime = 4
  MaxWrites = 3
SYMMETRY Symmetry
INVARIANTS RefreshEnds AccessEnds
PROPERTY RefusedForAReason
CHECK_DEADLOCK FALSE
