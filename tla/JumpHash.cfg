SPECIFICATION FairSpec
CONSTANTS
  Range = 3
  Half = 6
  NarrowMax = 3
INVARIANTS
  BucketExists
  MovesToNewBuckets
PROPERTY CallsEnd
