SPECIFICATION GetNSpec
SYMMETRY MCSymmetry
CONSTANTS
  w1 = w1
  r1 = r1
  r2 = r2
  r3 = r3
  r4 = r4
  m1 = m1
  x = x
  None = None
  MaxHash = 1
  LoadRange = 16
  Workers <- OneWorker
  Routed <- ThreeRouted
  Manual <- OneManual
  Strangers <- OneStranger
  NumNodes = 3
  Points <- ThreeNodes
  FactorNum = 5
  FactorDen = 4
  MaxProbes = 2
  Counts <- MCCounts
  MaxOwed = 2
  MaxStolen = 1
PROPERTY WithinBoundUnlessStolen
INVARIANTS
  GetNComplete
  CountersExplained
  PickIsFirstWithRoom
