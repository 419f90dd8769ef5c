\* A leaf prefix of 18 entries (six cachelines, one of them starting exactly
\* at an entry) and three writes, node and entry writes to two entries.
CONSTANTS
  r1 = r1
  Readers <- MCReaders
  NodeVersionBit = 4
  EntryVersionBit = 4
  CachelineSize = 64
  VersionSize = 1
  MetaSize = 27
  EntrySize = 17
  EntryNum = 18
  MaxWrites = 2
  WriteTargets <- LeafTargets
  SegReads <- MCSegReads
SPECIFICATION Spec
INVARIANTS
  TypeOK
  NoTornAccept
  QuiescentDecodes
  SegmentReadsUntorn
PROPERTIES
  ReadsReturn
