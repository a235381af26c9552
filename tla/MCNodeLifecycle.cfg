SPECIFICATION Spec
CONSTANTS
  Listeners = {l1, l2}
  Inbound = {c1, c2}
  Dials = {d1}
  MaxPendingAccepts = 1
  None = None
  Starts = {s1}
  Stops = {p1}
  Changes = {n1}
  Workers = {w1, w2, w3}
  HandlerConcurrency = 1
  MaxConnections = 1
  MaxReentrant = 1
  MaxReplaced = 1
CHECK_DEADLOCK FALSE
INVARIANTS TypeOK WorkersExact DialsCurrent
PROPERTIES Implements HostCallsReturn
