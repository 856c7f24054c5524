SPECIFICATION Spec
CONSTANTS
  Procs = {p1}
  Paths <- MCPaths
  Puts <- OnePut
  Links <- LinkB
  DirPaths <- MCDirPaths
  Starts <- Recorders
  BaseBlobs <- MCBaseBlobs
  Quota <- SeqQuota
INVARIANTS SaveCaptures LiveKeeps DirCacheCoherent
