SPECIFICATION FairSpec
CONSTANTS
  NoId = NoId
  NoKey = NoKey
  Keys = {k1}
  Ids = {m1, m2}
  Requests = {r1, r2}
  Workers = {w1}
  Receivers = {}
  Kinds = {"media"}
  Faults = {"send", "crash", "shutdown"}
  MaxRetry = 1
  RecoverLimit = 2
  MaxStops = 1
INVARIANTS NoStrandedMessage QueuedIsWaiting  SameKeySameMessage
PROPERTY QueuedSettles
CHECK_DEADLOCK FALSE
