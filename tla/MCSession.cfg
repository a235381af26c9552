SPECIFICATION Spec
CONSTANTS
  Configs <- MCConfigs
  Tls <- MCTls
  Expected <- MCExpected
  Msgs = {1, 2, 3}
  From <- MCFrom
  Size <- MCSize
  Nested = {1}
  Beating = {"listener"}
  Workers = {w1}
  MaxIn = 1
  Buffer = 1
  None = None
CHECK_DEADLOCK FALSE
INVARIANTS TypeOK SessionsAgree NoRefusal
PROPERTIES NotStuck
