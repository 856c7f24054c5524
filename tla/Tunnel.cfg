SPECIFICATION Spec
CONSTANTS
  t1 = t1
  t2 = t2
  a = a
  b = b
  Callers = {t1, t2}
  Names = {a, b}
  HostOf <- MCHostOf
  SnisOf <- MCSnisOf
  Age = 2
  Margin = 1
  Horizon = 1
  None = None
CHECK_DEADLOCK FALSE
INVARIANTS TypeOK SerialsApart ClosedOnce NoCutOff CertFits
PROPERTY TunnelsEnd
