\* Two producers, two streams that come and go; buffers fill up.
CONSTANTS
  Producers = {p1, p2}
  Streams = {s1, s2}
  Cap = 1
  MaxEvents = 2
SPECIFICATION Spec
INVARIANTS NoSendOnClosed InOrder LossOnlyWhenFull
PROPERTIES DispatchEnds StreamsComeAndGo
CHECK_DEADLOCK FALSE
