SPECIFICATION FairCacheSpec
CONSTANTS
  Keys = {k1, k2, k3}
  Sizes = {0, 1, 2}
  Ttls = {0, 1}
  DefaultTTL = 0
  MaxSizes = {0, 3}
  MaxKeys = 2
  CountBound = 6
INVARIANT TypeOK
INVARIANT NeverOverCounted
INVARIANT NeverUnderCounted
INVARIANT KeysWithinMax
PROPERTY ExpiredItemsGo
