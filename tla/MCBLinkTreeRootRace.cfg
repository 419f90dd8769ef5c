\* The split-before-root-CAS race: a second thread splits a half of the old
\* root leaf before the new root is installed (Tree.cpp:349 assert).
CONSTANTS
  t1 = t1
  t2 = t2
  v1 = v1
  v2 = v2
  Threads <- MCThreads
  Vals <- MCVals
  ValueNull = ValueNull
  MaxKey = 3
  LeafSpan = 2
  InternalSpan = 3
  MaxNodes = 6
  MaxHeight = 3
  MaxOps <- SmallMaxOps
  OpsOf <- SmallOpsOf
  KeysOf <- SmallKeysOf
  CacheEnabled = FALSE
  CacheCap = 0
  RangeSize = 2
SPECIFICATION Spec
INVARIANT
  InsertInternalAboveLeaves
