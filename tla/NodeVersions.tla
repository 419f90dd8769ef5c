---------------------------- MODULE NodeVersions ----------------------------
(***************************************************************************)
(* Torn-read detection of one remote node (src/include/VersionManager.h,  *)
(* PackedVersion in src/include/Metadata.h).                               *)
(*                                                                         *)
(* A node [metadata, records[0..EntryNum-1]] is stored encoded: its first *)
(* FIRST_OFFSET bytes as they are, then blocks of BlockSize bytes each     *)
(* preceded by a one-byte cacheline version, a copy of the h_version of    *)
(* the object (metadata or entry) that holds the block's first byte.       *)
(* Every object begins with its own h_version = (node_version,             *)
(* entry_version), 4 bits each.                                            *)
(*                                                                         *)
(* The latch holder writes the node with node_write_and_unlock            *)
(* (encode_node_versions: node_version + 1 everywhere) or one entry with   *)
(* entry_write_and_unlock (encode_entry_versions: that entry's            *)
(* entry_version + 1).  Latch-free readers (internal_node_search,          *)
(* leaf_node_search) read the whole node and re-read until                 *)
(* decode_node_versions accepts it.  An RDMA read or write is atomic per   *)
(* cacheline only, and the order in which a verb's cachelines are placed   *)
(* is unspecified: a read samples one encoded cacheline (block) at a time, *)
(* in any order.  Writers are serialised by the latch, so a block holds    *)
(* either all or none of a write's data; a read sampling blocks in any     *)
(* order and interleaving obtains the same images whether a write lands   *)
(* block by block or at once, and writes are therefore single steps.      *)
(*                                                                         *)
(* Layout is computed from the byte sizes of Common.h; a fragment          *)
(* <<o, b>> is the part of object o lying in block b.  Contents are        *)
(* abstracted to the identity of the write that produced them.             *)
(***************************************************************************)
EXTENDS Integers, FiniteSets

CONSTANTS NodeVersionBit,   \* define::nodeVersionBit
          EntryVersionBit,  \* define::entryVersionBit
          CachelineSize,    \* define::cachelineSize
          VersionSize,      \* define::versionSize
          MetaSize,         \* sizeof(LeafMetadata) / sizeof(InternalMetadata)
          EntrySize,        \* sizeof(LeafEntry) / sizeof(InternalEntry)
          EntryNum,         \* entries of the node modelled
          Readers,          \* latch-free readers of the node
          MaxWrites,        \* bound: writes by latch holders
          WriteTargets,     \* objects entry_write_and_unlock may write
          SegReads          \* segments <<s, n>> (records[s..s+n-1]) readers fetch

ASSUME /\ EntryNum >= 1 /\ WriteTargets \subseteq 1..EntryNum
       /\ \A g \in SegReads : g[1] >= 0 /\ g[2] >= 1 /\ g[1] + g[2] <= EntryNum
       /\ VersionSize < CachelineSize

NodeSize    == MetaSize + EntrySize * EntryNum
FirstOffset == IF CachelineSize < NodeSize THEN CachelineSize ELSE NodeSize
BlockSize   == CachelineSize - VersionSize
NumBlocks   == 1 + (NodeSize - FirstOffset + BlockSize - 1) \div BlockSize
Blocks      == 0..(NumBlocks - 1)
VBlocks     == 1..(NumBlocks - 1)          \* blocks with a cacheline version
Objs        == 0..EntryNum                 \* 0 = metadata, i = records[i-1]

ObjStart(o)   == IF o = 0 THEN 0 ELSE MetaSize + (o - 1) * EntrySize
ObjEnd(o)     == IF o = 0 THEN MetaSize ELSE ObjStart(o) + EntrySize
BlockStart(b) == IF b = 0 THEN 0 ELSE FirstOffset + (b - 1) * BlockSize
BlockEnd(b)   == IF FirstOffset + b * BlockSize < NodeSize
                 THEN FirstOffset + b * BlockSize ELSE NodeSize
\* The object holding decoded byte j (`j < STRUCT_OFFSET(NODE, records)`).
ObjAt(j)      == IF j < MetaSize THEN 0 ELSE (j - MetaSize) \div EntrySize + 1
Owner(b)      == ObjAt(BlockStart(b))
Frags         == {f \in Objs \X Blocks :
                    ObjStart(f[1]) < BlockEnd(f[2]) /\ BlockStart(f[2]) < ObjEnd(f[1])}
HomeBlock(o)  == CHOOSE b \in Blocks : BlockStart(b) <= ObjStart(o) /\ ObjStart(o) < BlockEnd(b)

\* Seeded fault: the read length counts one cacheline too many.
TransBlocksOverrun == 0..NumBlocks
\* Blocks fetched by read_sync(..., transLeafSize): the whole encoded node.
TransBlocks == Blocks

-----------------------------------------------------------------------------
(* Segment reads (hopscotch_search, leaf_entry_read) fetch entries         *)
(* [s, s + n) only.  get_offset_info places them in the encoded node: the  *)
(* raw offset and length of the read, and first_offset, the decoded bytes  *)
(* before the first cacheline version inside the segment.                  *)

\* get_raw_distance: decoded_len bytes past FIRST_OFFSET, with the version
\* of every block they begin
RawDistance(len) ==
  IF len <= 0 THEN len
  ELSE len + (len \div BlockSize + (IF len % BlockSize # 0 THEN 1 ELSE 0)) * VersionSize

\* Seeded fault: the raw offset leaves out the versions before the segment.
GetOffsetInfoNoVersions(s, n) ==
  LET ds == ObjStart(s + 1)  de == ObjStart(s + n + 1)  dist == ds - FirstOffset
      vcnt == dist \div BlockSize + (IF dist % BlockSize # 0 THEN 1 ELSE 0)
      fo == IF dist < 0 THEN FirstOffset - ds ELSE FirstOffset + vcnt * BlockSize - ds
  IN  [raw_offset   |-> ds,
       raw_len      |-> RawDistance(de - FirstOffset) - RawDistance(ds - FirstOffset),
       first_offset |-> IF fo < EntrySize * n THEN fo ELSE EntrySize * n]

\* VersionManager::get_offset_info(start_entry_idx, entry_num)
GetOffsetInfo(s, n) ==
  LET ds == ObjStart(s + 1)  de == ObjStart(s + n + 1)  dist == ds - FirstOffset
      vcnt == dist \div BlockSize + (IF dist % BlockSize # 0 THEN 1 ELSE 0)
      fo == IF dist < 0 THEN FirstOffset - ds ELSE FirstOffset + vcnt * BlockSize - ds
  IN  [raw_offset   |-> IF dist < 0 THEN ds ELSE ds + vcnt * VersionSize,
       raw_len      |-> RawDistance(de - FirstOffset) - RawDistance(ds - FirstOffset),
       first_offset |-> IF fo < EntrySize * n THEN fo ELSE EntrySize * n]

\* decode_segment_versions: the decoded offsets (from the segment start)
\* at which the loop takes a cacheline version, j = first_offset + m *
\* blockSize < segment_len; the version itself is at raw first_offset +
\* m * cachelineSize
SegmentLoop(fo, n) == {m \in 0..NumBlocks : fo + m * BlockSize < EntrySize * n}

\* encode_node_versions' layout: the encoded position of decoded byte j;
\* the version of a block starting at j is at this position
RawPos(j) == j + VersionSize * Cardinality({b \in VBlocks : BlockStart(b) < j})

\* the encoded bytes of block b
RawSpan(b) == IF b = 0 THEN 0..FirstOffset - 1
              ELSE RawPos(BlockStart(b))..RawPos(BlockStart(b)) + VersionSize
                                               + BlockEnd(b) - BlockStart(b) - 1

\* read_sync(raw_offset, raw_len): the cachelines a segment read touches
SegBlocks(g) ==
  LET o == GetOffsetInfo(g[1], g[2])
  IN  {b \in Blocks : RawSpan(b) \cap (o.raw_offset..o.raw_offset + o.raw_len - 1) # {}}

NoSeg == <<0, 0>>    \* a read of the whole node

(* decode_segment_versions of records[s..s+n-1] in a buffer read at the   *)
(* get_offset_info position: each cacheline version in the segment equals *)
(* the h_version of the entry holding the block's first byte, and every   *)
(* entry carries entries[0]'s node_version.  The possible outcomes: where *)
(* the loop takes a version from a position holding none, it compares a  *)
(* data byte, whose value the model does not track.                       *)
DecodesSegment(img, g) ==
  LET s == g[1]  n == g[2]  o == GetOffsetInfo(s, n)
      loop == SegmentLoop(o.first_offset, n)
      at(m) == {b \in VBlocks : RawPos(BlockStart(b)) = o.raw_offset + o.first_offset + m * CachelineSize}
      obj(m) == s + 1 + (o.first_offset + m * BlockSize) \div EntrySize
      checked == \A m \in loop : \A b \in at(m) : img.cv[b] = img.hv[obj(m)]
      joint == \A i \in 1..n : img.hv[s + i].nv = img.hv[s + 1].nv
  IN  IF checked /\ joint /\ \E m \in loop : at(m) = {} THEN {TRUE, FALSE}
      ELSE {checked /\ joint}

NodeVersions  == 0..(2^NodeVersionBit - 1)
EntryVersions == 0..(2^EntryVersionBit - 1)
Version       == [nv : NodeVersions, ev : EntryVersions]
\* What a write put into a fragment: the write's number, and the number of
\* node writes up to it (its node epoch).
Content       == [epoch : 0..MaxWrites, w : 0..MaxWrites]
Image         == [hv : [Objs -> Version], cv : [VBlocks -> Version], data : [Frags -> Content]]

VARIABLES mem,     \* the encoded node in remote memory
          writes,  \* number of writes issued
          epoch,   \* number of node writes issued
          rpc,     \* reader r: "idle", "reading" or "done"
          rbuf,    \* reader r: raw_*_buffer, the blocks sampled so far
          rleft,   \* reader r: blocks of the current read_sync not yet sampled
          rseg     \* reader r: the segment it reads, or NoSeg

vars == <<mem, writes, epoch, rpc, rbuf, rleft, rseg>>

\* Seeded fault: only the per-cacheline checks, no node-level joint check.
DecodesNoJoint(img) == \A b \in VBlocks : img.cv[b] = img.hv[Owner(b)]

(* decode_node_versions: each cacheline version equals the h_version of   *)
(* the object holding the block's first byte, and metadata and all        *)
(* entries carry entries[0]'s node_version.                               *)
Decodes(img) ==
  /\ \A b \in VBlocks : img.cv[b] = img.hv[Owner(b)]
  /\ \A o \in Objs : img.hv[o].nv = img.hv[1].nv

(* encode_node_versions: node_version = entries[0]'s + 1 (4-bit field)   *)
(* into metadata and every entry, entry versions kept, every cacheline   *)
(* version regenerated; the whole node is rewritten.                     *)
EncodeNode(m) ==
  LET nv == (m.hv[1].nv + 1) % (2^NodeVersionBit)
      hv == [o \in Objs |-> [nv |-> nv, ev |-> m.hv[o].ev]]
  IN  [hv |-> hv, cv |-> [b \in VBlocks |-> hv[Owner(b)]],
       data |-> [f \in Frags |-> [epoch |-> epoch + 1, w |-> writes + 1]]]

\* Seeded fault: a block starting exactly at the entry gets no version
\* (first_offset computed as if dist % blockSize were never 0).
EntryCvBlocksStrict(i) == {b \in VBlocks : ObjStart(i) < BlockStart(b) /\ BlockStart(b) < ObjEnd(i)}

\* get_offset_info / encode_entry_versions: the cacheline versions an entry
\* write carries are those of the blocks starting inside the entry.
EntryCvBlocks(i) == {b \in VBlocks : ObjStart(i) <= BlockStart(b) /\ BlockStart(b) < ObjEnd(i)}

\* Seeded fault: the cacheline versions are copied before the increment.
EncodeEntryStaleCv(m, i) ==
  LET v == [nv |-> m.hv[i].nv, ev |-> (m.hv[i].ev + 1) % (2^EntryVersionBit)]
  IN  [hv |-> [m.hv EXCEPT ![i] = v],
       cv |-> [b \in VBlocks |-> IF b \in EntryCvBlocks(i) THEN m.hv[i] ELSE m.cv[b]],
       data |-> [f \in Frags |-> IF f[1] = i THEN [epoch |-> epoch, w |-> writes + 1]
                                            ELSE m.data[f]]]

(* encode_entry_versions: ++entry_version of records[i-1] only; the      *)
(* cacheline versions of the blocks starting inside the entry are set to  *)
(* it; only the entry's bytes are written.                                *)
EncodeEntry(m, i) ==
  LET v == [nv |-> m.hv[i].nv, ev |-> (m.hv[i].ev + 1) % (2^EntryVersionBit)]
  IN  [hv |-> [m.hv EXCEPT ![i] = v],
       cv |-> [b \in VBlocks |-> IF b \in EntryCvBlocks(i) THEN v ELSE m.cv[b]],
       data |-> [f \in Frags |-> IF f[1] = i THEN [epoch |-> epoch, w |-> writes + 1]
                                            ELSE m.data[f]]]

(* One encoded cacheline of src replaces that of dst: the h_versions whose *)
(* object starts in block b, the cacheline version of b, the fragments.   *)
PlaceBlock(dst, src, b) ==
  [hv   |-> [o \in Objs |-> IF HomeBlock(o) = b THEN src.hv[o] ELSE dst.hv[o]],
   cv   |-> [c \in VBlocks |-> IF c = b THEN src.cv[c] ELSE dst.cv[c]],
   data |-> [f \in Frags |-> IF f[2] = b THEN src.data[f] ELSE dst.data[f]]]

\* the blocks a read fetches, and the outcomes of its decode
ReadBlocks(g) == IF g = NoSeg THEN TransBlocks ELSE SegBlocks(g)
DecodeResults(img, g) == IF g = NoSeg THEN {Decodes(img)} ELSE DecodesSegment(img, g)

\* Reader buffer before the first read (memset to 0).
ZeroImage == [hv |-> [o \in Objs |-> [nv |-> 0, ev |-> 0]],
              cv |-> [b \in VBlocks |-> [nv |-> 0, ev |-> 0]],
              data |-> [f \in Frags |-> [epoch |-> 0, w |-> 0]]]

\* The node as the split or the Tree constructor wrote it: a fresh NODE
\* (versions 0) through encode_node_versions.
Init ==
  /\ mem = [hv |-> [o \in Objs |-> [nv |-> 1, ev |-> 0]],
            cv |-> [b \in VBlocks |-> [nv |-> 1, ev |-> 0]],
            data |-> [f \in Frags |-> [epoch |-> 0, w |-> 0]]]
  /\ writes = 0
  /\ epoch = 0
  /\ rpc = [r \in Readers |-> "idle"]
  /\ rbuf = [r \in Readers |-> ZeroImage]
  /\ rleft = [r \in Readers |-> {}]
  /\ rseg = [r \in Readers |-> NoSeg]

-----------------------------------------------------------------------------
(* node_write_and_unlock: the latch holder (its latched read returned mem) *)
(* encodes the whole node and writes it.                                   *)
NodeWrite ==
  /\ writes < MaxWrites
  /\ mem' = EncodeNode(mem)
  /\ writes' = writes + 1
  /\ epoch' = epoch + 1
  /\ UNCHANGED <<rpc, rbuf, rleft, rseg>>

(* entry_write_and_unlock: one entry, encoded and written in place.        *)
EntryWrite ==
  /\ writes < MaxWrites
  /\ \E i \in WriteTargets : mem' = EncodeEntry(mem, i)
  /\ writes' = writes + 1
  /\ UNCHANGED <<epoch, rpc, rbuf, rleft, rseg>>

(* read_sync of the whole node, or of a segment of its entries, begins.   *)
StartRead(r) ==
  /\ rpc[r] = "idle"
  /\ rpc' = [rpc EXCEPT ![r] = "reading"]
  /\ \E g \in {NoSeg} \cup SegReads :
       rseg' = [rseg EXCEPT ![r] = g] /\ rleft' = [rleft EXCEPT ![r] = ReadBlocks(g)]
  /\ UNCHANGED <<mem, writes, epoch, rbuf>>

(* The read samples one cacheline of remote memory.                        *)
ReadBlock(r) ==
  /\ rpc[r] = "reading"
  /\ \E b \in rleft[r] :
       /\ rbuf' = [rbuf EXCEPT ![r] = PlaceBlock(@, mem, b)]
       /\ rleft' = [rleft EXCEPT ![r] = @ \ {b}]
  /\ UNCHANGED <<mem, writes, epoch, rpc, rseg>>

(* The read completed: decode_node_versions or decode_segment_versions,   *)
(* and `goto re_read` on failure.                                          *)
Decode(r) ==
  /\ rpc[r] = "reading" /\ rleft[r] = {}
  /\ \E ok \in DecodeResults(rbuf[r], rseg[r]) :
       IF ok THEN rpc' = [rpc EXCEPT ![r] = "done"] /\ UNCHANGED rleft
       ELSE rleft' = [rleft EXCEPT ![r] = ReadBlocks(rseg[r])] /\ UNCHANGED rpc
  /\ UNCHANGED <<mem, writes, epoch, rbuf, rseg>>

(* The search uses the decoded node and returns.                           *)
Return(r) ==
  /\ rpc[r] = "done"
  /\ rpc' = [rpc EXCEPT ![r] = "idle"]
  /\ rseg' = [rseg EXCEPT ![r] = NoSeg]
  /\ UNCHANGED <<mem, writes, epoch, rbuf, rleft>>

Next ==
  \/ NodeWrite \/ EntryWrite
  \/ \E r \in Readers : StartRead(r) \/ ReadBlock(r) \/ Decode(r) \/ Return(r)

Fairness ==
  \A r \in Readers : WF_vars(ReadBlock(r)) /\ WF_vars(Decode(r))

Spec == Init /\ [][Next]_vars /\ Fairness

-----------------------------------------------------------------------------
(* Type invariant.                                                         *)
TypeOK ==
  /\ mem \in Image
  /\ writes \in 0..MaxWrites /\ epoch \in 0..writes
  /\ rpc \in [Readers -> {"idle", "reading", "done"}]
  /\ \A r \in Readers : rbuf[r] \in Image /\ rleft[r] \subseteq Blocks
  /\ rseg \in [Readers -> {NoSeg} \cup SegReads]

(* What decode_node_versions promises its callers ("node- and entry-level  *)
(* consistency"): an image it accepts has every object whole (all its      *)
(* fragments from one write) and every object from the same node write,    *)
(* although cachelines were sampled while writes were landing.             *)
Untorn(img) ==
  /\ \A f, g \in Frags : f[1] = g[1] => img.data[f] = img.data[g]
  /\ \A f, g \in Frags : img.data[f].epoch = img.data[g].epoch

NoTornAccept == \A r \in Readers : rpc[r] = "done" /\ rseg[r] = NoSeg => Untorn(rbuf[r])

\* the objects of segment g in img: each whole, all from one node write
UntornSegment(img, g) ==
  LET fr == {f \in Frags : f[1] \in g[1] + 1..g[1] + g[2]}
  IN  /\ \A f, h \in fr : f[1] = h[1] => img.data[f] = img.data[h]
      /\ \A f, h \in fr : img.data[f].epoch = img.data[h].epoch

(* What a segment read of hopscotch_search or leaf_entry_read gets from   *)
(* decode_segment_versions: every entry of the segment whole and all of   *)
(* one node write.  It relies on get_offset_info placing the read and the *)
(* version loop on the encoded layout: a version missed or misplaced, the *)
(* first partial cacheline included, lets a torn segment through.        *)
SegmentReadsUntorn ==
  \A r \in Readers : rpc[r] = "done" /\ rseg[r] # NoSeg => UntornSegment(rbuf[r], rseg[r])

(* Between writes the node in memory decodes: the latched reads that       *)
(* assert(decode_node_versions(...)) (Tree.cpp:453, 1545) never fail, and *)
(* a re_read loop ends once writers stop.                                 *)
QuiescentDecodes == Decodes(mem)

(* Every latch-free read of the node eventually returns a decoded image    *)
(* when the writes stop: the re_read loop is not a livelock.               *)
ReadsReturn == \A r \in Readers : rpc[r] = "reading" ~> rpc[r] = "done"
=============================================================================
