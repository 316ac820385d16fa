SPECIFICATION AdmitSpec
CONSTANTS
  w1 = w1
  w2 = w2
  w3 = w3
  r1 = r1
  r2 = r2
  r3 = r3
  r4 = r4
  m1 = m1
  x = x
  None = None
  MaxHash = 2
  LoadRange = 16
  Workers <- ThreeWorkers
  Routed <- FourRouted
  Manual = {}
  Strangers <- OneStranger
  NumNodes = 5
  Points <- FiveNodes
  FactorNum = 5
  FactorDen = 4
  MaxProbes = 2
SYMMETRY MCSymmetry
INVARIANT OvershootIsBounded
CHECK_DEADLOCK FALSE
