SPECIFICATION Spec
CONSTANTS
  a = a
  b = b
  None = None
  MaxHash = 0
  Callers = {c1, c2}
  Loops = {l1, l2, l3}
  Ids = {a, b}
  UpdateIds = {a}
  RingIds <- MCRingIds
  Points <- MCPoints
  ThreadCounts = {2, 3}
  MaxNodes = 3
  MaxChecks = 2
  HealthyThreshold = 2
  UnhealthyThreshold = 1
SYMMETRY MCSymmetry
CHECK_DEADLOCK FALSE
INVARIANTS
  PickIsFirstHealthy
  StatusFollowsSeries
  RebuildNeverRuns
  LinesAreLive
  OnlyUpdatesAndRoundsBlock
  HealthyNeedsLoops
PROPERTIES
  OnlyAddNodeInserts
