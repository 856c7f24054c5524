SPECIFICATION Spec
CONSTANTS
  Trees <- MCTrees
  AllPaths <- MCAllPaths
  Missing <- MCMissing
  Foreign <- MCForeign
  Contents <- MCContents
  Quota <- MCQuota
CHECK_DEADLOCK FALSE
INVARIANTS TypeOK IndexWhole RoundTrip
PROPERTIES RegistersAsked ImportEnds
