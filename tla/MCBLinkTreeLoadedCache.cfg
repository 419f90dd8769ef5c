\* The tree cache on a loaded three-level tree: cache starts at internal
\* nodes and leaves, stale cached grandparents naming a split's parent,
\* invalidation, refills and eviction at a capacity of two nodes.
CONSTANTS
  t1 = t1
  t2 = t2
  v1 = v1
  v2 = v2
  Threads <- MCThreads
  Vals <- CacheVals
  InitAbsMap <- LoadedMap
  ValueNull = ValueNull
  MaxKey = 20
  LeafSpan = 2
  InternalSpan = 3
  MaxNodes = 16
  MaxHeight = 4
  MaxOps <- CacheMaxOps
  OpsOf <- CacheOpsOf
  KeysOf <- CacheKeysOf
  CacheEnabled = TRUE
  CacheCap = 2
  RangeSize = 2
SPECIFICATION LoadedSpec
INVARIANTS
  SeparatorsMatchChildren
  NoLeftOvershoot
  CacheWithinCapacity
PROPERTIES
  Linearizable
  OpsComplete
