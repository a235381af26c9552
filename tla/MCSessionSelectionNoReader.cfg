SPECIFICATION Spec
CONSTANTS
  Small = a
  Large = b
  FromSmall = {a1}
  FromLarge = {b1}
  MaxConnects = 2
  MaxFaults = 1
  None = None
CHECK_DEADLOCK FALSE
INVARIANT HasReader
