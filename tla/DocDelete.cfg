SPECIFICATION Spec
CONSTANTS
  NoId = NoId
  NoKey = NoKey
  Keys = {}
  Ids = {m1}
  Requests = {r1}
  Workers = {w1}
  Receivers = {}
  Kinds = {"text"}
  Faults = {"send"}
  MaxRetry = 3
  RecoverLimit = 2
  MaxStops = 0
PROPERTY DeletedNotSent
CHECK_DEADLOCK FALSE
