SPECIFICATION Spec
CONSTANTS
  Calls = {r, s1, s2}
  Reader = r
  Deadline = {s1, s2}
  Teardowns = {own}
  ReaderTeardown = own
  MaxQueue = 1
  None = None
CHECK_DEADLOCK FALSE
PROPERTIES CallEnds
