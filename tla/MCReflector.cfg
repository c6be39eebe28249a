SPECIFICATION CacheFairSpec
CONSTANTS
  Keys = {k1, k2}
  MaxVersion = 5
  MaxLists = 2
INVARIANTS
  ItemsQueued
  PopAwake
  CacheExact
  SyncedMeansListed
PROPERTIES
  Converges
CHECK_DEADLOCK FALSE
