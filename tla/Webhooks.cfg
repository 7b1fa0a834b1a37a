SPECIFICATION Spec
CONSTANTS
  e1 = e1
  sent = sent
  failed = failed
  s1 = s1
  s2 = s2
  Hooks = {h1, h2}
  Events = {e1}
  Name <- NameOf
  Session <- SessionOf
  Settings <- Various
  Senders = {g1, g2}
  MaxChanges = 3
  MaxDeliveries = 2
  MaxAttempts = 2
  Faults = {"db", "crash"}
INVARIANTS StoredBeforeSent DeliveredWasAccepted AttemptsWereMade EveryMatchStored QueuedIsInFlight
SYMMETRY Symmetry
CHECK_DEADLOCK FALSE
