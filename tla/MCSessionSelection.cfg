SPECIFICATION Spec
CONSTANTS
  Small = a
  Large = b
  FromSmall = {a1, a2}
  FromLarge = {b1}
  MaxConnects = 3
  MaxFaults = 1
  None = None
CHECK_DEADLOCK FALSE
INVARIANTS TypeOK Agreement Complete
PROPERTIES Settles
