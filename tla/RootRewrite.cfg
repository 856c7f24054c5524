SPECIFICATION Spec
CONSTANTS
  Procs = {p1}
  Paths <- MCPaths
  Puts <- TwoPuts
  Links <- LinkB
  DirPaths <- MCDirPaths
  Starts <- Recorders
  BaseBlobs <- MCBaseBlobs
  Quota <- SaveQuota
INVARIANTS SaveCaptures
