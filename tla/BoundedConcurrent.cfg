SPECIFICATION FairSpec
CONSTANTS
  w1 = w1
  w2 = w2
  w3 = w3
  r1 = r1
  r2 = r2
  r3 = r3
  r4 = r4
  m1 = m1
  x = x
  None = None
  MaxHash = 2
  LoadRange = 16
  Workers <- TwoWorkers
  Routed <- TwoRouted
  Manual <- OneManual
  Strangers <- OneStranger
  NumNodes = 2
  Points <- TwoNodes
  FactorNum = 5
  FactorDen = 4
  MaxProbes = 2
INVARIANTS
  Accounting
  PickIsUp
  FailsOnlyWhenAllDown
PROPERTIES
  ImplementsAdmission
  CallsReturn
