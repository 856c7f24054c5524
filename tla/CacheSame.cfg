SPECIFICATION Spec
CONSTANTS
  c1 = c1
  c2 = c2
  u1 = u1
  u2 = u2
  Clients = {c1, c2}
  RequestsOf <- SameRequests
  Filters <- MCFilters
  Answers = {a}
  Chunks = 1
  None = None
  Quota <- SameQuota
CHECK_DEADLOCK FALSE
INVARIANTS TypeOK HitFits HeadLast QuietSaveable
PROPERTIES ReplayServes
