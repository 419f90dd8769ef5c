\* range_query on the loaded tree: scans from cached level-1 images that
\* splits have made stale, leaves read while they change, and the final
\* search loop for the keys the scan missed.
CONSTANTS
  t1 = t1
  t2 = t2
  v1 = v1
  v2 = v2
  Threads <- MCThreads
  Vals <- CacheVals
  InitAbsMap <- LoadedMap
  ValueNull = ValueNull
  MaxKey = 20
  LeafSpan = 2
  InternalSpan = 3
  MaxNodes = 16
  MaxHeight = 4
  MaxOps <- RangeMaxOps
  OpsOf <- RangeOpsOf
  KeysOf <- RangeKeysOf
  CacheEnabled = TRUE
  CacheCap = 2
  RangeSize = 2
SPECIFICATION LoadedSpec
INVARIANTS
  RangeRegular
PROPERTIES
  Linearizable
  OpsComplete
