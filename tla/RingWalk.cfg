SPECIFICATION FairSpec
CONSTANTS
  MaxHash = 3
  Rings <- MCRings
  Counts <- MCCounts
INVARIANTS
  PreferenceOrder
  CompleteWhenDone
PROPERTY CallReturns
