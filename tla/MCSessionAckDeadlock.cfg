SPECIFICATION Spec
CONSTANTS
  Configs <- UsualOnly
  Tls <- NoTls
  Expected <- AsExpected
  Msgs = {1, 2, 3, 4}
  From <- BothFrom
  Size <- BothSize
  Nested = {}
  Beating = {"dialler"}
  Workers = {w1}
  MaxIn = 2
  Buffer = 1
  None = None
CHECK_DEADLOCK FALSE
PROPERTY HeartbeatEnds
