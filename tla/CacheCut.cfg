SPECIFICATION Spec
CONSTANTS
  c1 = c1
  c2 = c2
  u1 = u1
  u2 = u2
  Clients = {c1, c2}
  RequestsOf <- CutRequests
  Filters <- MCFilters
  Answers = {a, b}
  Chunks = 2
  None = None
  Quota <- CutQuota
CHECK_DEADLOCK FALSE
INVARIANTS HeadAfterBody
