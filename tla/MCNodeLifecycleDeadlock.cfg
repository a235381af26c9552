SPECIFICATION Spec
CONSTANTS
  Listeners = {l1}
  Inbound = {}
  Dials = {}
  MaxPendingAccepts = 1
  None = None
  Starts = {s1}
  Stops = {p1, p2}
  Changes = {}
  Workers = {w1, w2}
  HandlerConcurrency = 2
  MaxConnections = 1
  MaxReentrant = 2
  MaxReplaced = 0
CHECK_DEADLOCK FALSE
PROPERTY CallsReturn
