SPECIFICATION FairSpec
CONSTANTS
  WeightLists <- MCWeightLists
  Asked = {1, 3, 4}
  Empty = Empty
CHECK_DEADLOCK FALSE
INVARIANTS
  Balanced
  SharesFollowWeights
  PrimeSizesPermute
  BuiltMeansReached
  GetNIsWalk
PROPERTY BuildReturns
