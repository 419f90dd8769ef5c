\* Three leaf entries (two cachelines, records[2] straddling them) and
\* sixteen node writes: one read overlapping all of them.
CONSTANTS
  r1 = r1
  Readers <- MCReaders
  NodeVersionBit = 4
  EntryVersionBit = 4
  CachelineSize = 64
  VersionSize = 1
  MetaSize = 27
  EntrySize = 17
  EntryNum = 3
  MaxWrites = 16
  WriteTargets <- NoTargets
  SegReads = {}
SPECIFICATION Spec
INVARIANT
  NoTornAccept
