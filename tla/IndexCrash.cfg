SPECIFICATION Spec
CONSTANTS
  Procs = {p1, p2}
  Files = {x, y}
  Kinds = {"filesystem", "memory"}
  None = None
  Quota <- CrashQuota
CHECK_DEADLOCK FALSE
INVARIANTS TypeOK NamesApart IndexComplete ExportFinds AckedOnDisk
SYMMETRY Perms
