\* One key whose limit changes, over more than two windows.
CONSTANTS
  Keys = {k1}
  Calls = {r1, r2}
  Limits = {0, 1, 2}
  Minute = 3
  MaxTicks = 7
SPECIFICATION KeysSpec
SYMMETRY Symmetry
INVARIANTS RateKept RefusedOnlyOverLimit
CHECK_DEADLOCK FALSE
