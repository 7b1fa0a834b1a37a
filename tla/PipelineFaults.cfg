SPECIFICATION Spec
CONSTANTS
  NoId = NoId
  NoKey = NoKey
  Keys = {}
  Ids = {m1}
  Requests = {r1}
  Workers = {w1, w2}
  Receivers = {h1, h2}
  Kinds = {"text"}
  Faults = {"db", "redis", "wait", "lookup", "send", "463", "lost", "timeout", "crash", "shutdown"}
  MaxRetry = 1
  RecoverLimit = 2
  MaxStops = 1
SYMMETRY Symmetry
INVARIANTS TypeOK SentWasAccepted DuplicatesBounded ReceiptPublishedOnce
PROPERTIES ReceiptsMoveForward ContractSpec
CHECK_DEADLOCK FALSE
