SPECIFICATION Spec
CONSTANTS
  Tasks = {t1, t2}
  Inbound = {i1}
  Callers = {c1}
  Closers = {k1}
  All = all
  None = None
  Absorbing = {t2}
INVARIANTS TypeOK NoLeak StateAgrees SingleFlight CloseWins
PROPERTIES CallsAnswered
