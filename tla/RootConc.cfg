SPECIFICATION FairSpec
CONSTANTS
  Procs = {p1, p2}
  Paths <- MCPaths
  Puts <- OnePut
  Links <- LinkB
  DirPaths <- MCDirPaths
  Starts <- AllStarts
  BaseBlobs <- MCBaseBlobs
  Quota <- ConcQuota
INVARIANTS TypeOK StoreClosed StoreComplete ReadHonest NoPanic Frozen
PROPERTIES ReadBack ReplayImmutable OpsFinish
