SPECIFICATION Spec
CONSTANTS
  Calls = {r, s1, s2}
  Reader = r
  Deadline = {s1}
  Teardowns = {own, other}
  ReaderTeardown = own
  MaxQueue = 1
  None = None
CHECK_DEADLOCK FALSE
INVARIANTS TypeOK NoLostWakeup ReturnedMeansWritten Accounted
