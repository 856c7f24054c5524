SPECIFICATION Spec
CONSTANTS
  c1 = c1
  c2 = c2
  u1 = u1
  u2 = u2
  Clients = {c1, c2}
  RequestsOf <- OwnRequests
  Filters <- MCFilters
  Answers = {a}
  Chunks = 1
  None = None
  Quota <- OwnQuota
CHECK_DEADLOCK FALSE
INVARIANTS HitFits
PROPERTIES RecordsOnce
