\* Two threads, three user keys, leaves of two entries: leaf splits, root
\* splits and the parent-from-root fallback all happen.
CONSTANTS
  t1 = t1
  t2 = t2
  v1 = v1
  v2 = v2
  Threads <- MCThreads
  Vals <- MCVals
  ValueNull = ValueNull
  MaxKey = 3
  LeafSpan = 2
  InternalSpan = 3
  MaxNodes = 6
  MaxHeight = 3
  MaxOps <- SmallMaxOps
  OpsOf <- SmallOpsOf
  KeysOf <- SmallKeysOf
  CacheEnabled = FALSE
  CacheCap = 0
  RangeSize = 2
SPECIFICATION Spec
INVARIANTS
  TypeOK
  LeafLevelPartition
  SeparatorsMatchChildren
  NoLeftOvershoot
  UpdateFindsKey
  NoDuplicateSeparator
  RootCasSucceeds
  LatchHeldByOwner
PROPERTIES
  Linearizable
  OpsComplete
