SPECIFICATION Spec
CONSTANTS
  Workers = {w1, w2}
  Configs <- Changing
  Minute = 4
  MaxLag = 1
  MaxClock = 6
SYMMETRY Symmetry
INVARIANTS IntervalKept CapKept NoSendInCooldown
CHECK_DEADLOCK FALSE
