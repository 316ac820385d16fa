SPECIFICATION ReadmeSpec
CONSTANTS
  w1 = w1
  r1 = r1
  None = None
  MaxHash = 1
  LoadRange = 16
  Workers <- OneWorker
  Routed <- OneRouted
  Manual = {}
  Strangers = {}
  NumNodes = 2
  Points <- TwoNodes
  FactorNum = 5
  FactorDen = 4
  MaxProbes = 2
INVARIANT IdleMeansUnloaded
