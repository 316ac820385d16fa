SPECIFICATION MetricsSpec
SYMMETRY MCSymmetry
CONSTANTS
  t1 = t1
  t2 = t2
  Recorders <- TwoRecorders
  Latencies = {1, 3}
  MaxCalls = 3
  MaxEvents = 1
  Word = 16
INVARIANTS
  ReportWithinRead
