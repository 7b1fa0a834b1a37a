SPECIFICATION FairSpec
CONSTANTS
  MaxClients = 2
  Requests = {r1}
  Dialers = {d1}
  Ops = {"create", "disconnect", "delete"}
  Method = "pairing"
  Faults = {"connect", "logout", "qr", "pair", "drop", "remote", "crash"}
  MaxFaults = 2
  MaxRequests = 2
PROPERTIES  OnlyCreateInserts
CHECK_DEADLOCK FALSE
