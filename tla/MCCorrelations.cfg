SPECIFICATION MCSpec
CONSTANTS
  Calls = {k1, k2}
  Conns = {c1, c2}
  Inbound = {c2}
  MaxRequests = 1
  MaxAcks = 1
  None = None
SYMMETRY Symmetry
INVARIANTS TypeOK TablesExact Owned ExactConnection NoFalseAlarm
CHECK_DEADLOCK FALSE
