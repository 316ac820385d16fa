SPECIFICATION Spec
CONSTANTS
  a = a
  b = b
  k = k
  d1 = d1
  d2 = d2
  NoDatacenter = NoDatacenter
  NaN = NaN
  Keys = {k}
  Datacenters = {d1, d2}
  NodeLists <- MCNodeLists
  Full = 2
  Rollouts <- MCRollouts
  Allowlists <- MCAllowlists
  MaxRequests = 2
INVARIANTS
  SidesOnlyAdvance
PROPERTIES
  RolloutEndsAreExact
