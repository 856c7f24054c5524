SPECIFICATION Spec
CONSTANTS
  Procs = {p1, p2}
  Paths <- MCPaths
  Puts <- OnePut
  Links <- LinkB
  DirPaths <- MCDirPaths
  Starts <- OnlyNew
  BaseBlobs <- MCBaseBlobs
  Quota <- WriteQuota
INVARIANTS LiveKeeps
SYMMETRY Perms
