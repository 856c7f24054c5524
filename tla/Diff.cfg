SPECIFICATION Spec
CONSTANTS
  Trees <- MCTrees
  Missing <- MCMissing
  AllPaths <- MCAllPaths
INVARIANTS ReportExact
PROPERTIES MergesWalks DiffEnds
