SPECIFICATION Spec
CONSTANTS
  Procs = {p1, p2}
  Files = {x, y}
  Kinds = {"filesystem"}
  None = None
  Quota <- LossQuota
CHECK_DEADLOCK FALSE
INVARIANTS AckedOpens
SYMMETRY Perms
