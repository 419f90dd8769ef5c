--------------------------- MODULE MCNodeVersions ---------------------------
(* Instances of NodeVersions with the leaf node's byte layout (Common.h:  *)
(* keyLen = inlineValLen = 8, versionSize = 1, cachelineSize = 64).        *)
EXTENDS NodeVersions

CONSTANTS r1

MCReaders == {r1}

\* records[2] straddles the first block boundary and records[5] the second
\* (bytes 112..128 across 127); records[17] starts exactly at the fifth
\* (byte 316), where only the node-level joint check can see a tear.
LeafTargets == {3, 6, 18}

\* Segment reads: records[0..2] start in the unversioned first FIRST_OFFSET
\* bytes and cross the first block (dist < 0); records[4..7] start inside a
\* block (version count rounded up) and cross the next; records[17] starts
\* exactly at a block, so the read begins at that block's version.
MCSegReads == {<<0, 3>>, <<4, 4>>, <<17, 1>>}

\* Node writes only (node_write_and_unlock of an internal node, splits).
NoTargets == {}
=============================================================================
