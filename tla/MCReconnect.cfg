SPECIFICATION Spec
CONSTANTS
  Sessions = {s1, s2}
  Loops = {l1, l2}
  Connects = {c1}
  Disconnects = {d1}
  MaxAttempts = 2
  None = None
CHECK_DEADLOCK FALSE
INVARIANTS TypeOK OneLoop DisconnectHolds
PROPERTIES ReconnectingEnds
