SPECIFICATION Spec
CONSTANTS
  MaxClients = 2
  Requests = {r1, r2}
  Dialers = {d1, d2}
  Ops = {"create", "reconnect", "logout", "delete", "message"}
  Method = "qr"
  Faults = {}
  MaxFaults = 0
  MaxRequests = 3
SYMMETRY Symmetry
INVARIANTS StaleQRWritesOneItem HistoryKept ReconnectInHand
PROPERTIES IdentityKept
CHECK_DEADLOCK FALSE
