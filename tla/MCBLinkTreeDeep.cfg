\* A loader inserting five of six keys next to a second inserter: internal
\* splits, a three-level tree, turn-right at internal levels and
\* insert_internal descending from the root all happen.  Liveness is checked
\* in MCBLinkTree.cfg.
CONSTANTS
  t1 = t1
  t2 = t2
  v1 = v1
  v2 = v2
  Threads <- MCThreads
  Vals <- DeepVals
  ValueNull = ValueNull
  MaxKey = 6
  LeafSpan = 2
  InternalSpan = 3
  MaxNodes = 10
  MaxHeight = 4
  MaxOps <- DeepMaxOps
  OpsOf <- DeepOpsOf
  KeysOf <- DeepKeysOf
  CacheEnabled = FALSE
  CacheCap = 0
  RangeSize = 2
SPECIFICATION Spec
INVARIANTS
  SeparatorsMatchChildren
  NoLeftOvershoot
  NoDuplicateSeparator
PROPERTIES
  Linearizable
