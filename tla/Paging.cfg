SPECIFICATION WalkSpec
CONSTANTS
  Stamps = {1, 2, 3, 4, 5, 6}
  Limit = 2
  MaxMoves = 7
INVARIANT WalkMissesFew
CHECK_DEADLOCK FALSE
