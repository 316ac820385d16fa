SPECIFICATION PlanningSpec
SYMMETRY MCSymmetry
CONSTANTS
  a = a
  b = b
  c = c
  p1 = p1
  p2 = p2
  MaxHash = 2
  Processes <- MCProcesses
  Builds <- MCBuilds
  MinHashes = 1
  MaxHashes = 2
  InvMaxCv = 5
  MaxPairs = 10
  MaxMemory = 24
  PointSize = 6
  SkewNum = 5
  SkewDen = 4
  Targets <- MCTargets
  IndexRange = 3
  SeedsPerNode = 2
  Losses = {0, 1, 5}
  Versions = {0, 1}
  Version = 1
INVARIANTS
  EveryNodePlaced
  LookupIsSuccessor
  RestoredIsBuilt
  AgreeUnlessContested
  CollisionsFollowListOrder
  MovesAreExplained
  PlanExplainsMoves
PROPERTY TuningOnlyAdds
