# TLA+ models of CHIME

CHIME (`src/`) is a B+-tree index on disaggregated memory. The tree nodes live in
remote memory nodes. Compute-side client threads, each running several coroutines,
reach the nodes only through one-sided RDMA reads, writes and CAS (`DSM`). This
directory holds TLA+ models of the tree's concurrency protocol, its torn-read
detection and its compute-side cache of internal nodes, the TLC configurations
that check them, and `PROJECT.json`. `PROJECT.json` records the components, the
runs, the seeded faults (mutants), the map from every definition to the source
lines it models, the findings and the hazards.

## The system and its parts

| Part | Source | How it interacts |
|---|---|---|
| Tree operations | `Tree.cpp`: `insert` 246, `update` 1416, `search` 1633, `internal_node_search` 362, `leaf_node_insert` 412, `leaf_node_update` 1511, `leaf_node_search` 1813 | Each operation starts from the tree cache or from the root entry (`get_root_ptr`). It descends the internal nodes without latches and turns right when the key is at or past a node's highest fence. At the leaf it latches (writers) or reads (search) the node. It records the descent in `path_stack`. |
| Split and parent insert | `node_split_and_unlock` 1178, `internal_node_insert` 1120, `insert_internal` 342 | A full node is split under its latch. The code writes the sibling first, then the node (which also unlocks it), then inserts the separator into the parent. The parent comes from `path_stack`, else from a cached grandparent (`search_ptr_from_cache`). If the split node was the root, a new root is written and CASed in. Otherwise the search for the parent starts again from the root. |
| Node latch | `lock_node` 202, `unlock_node` 229 | A CAS on the node's lock word, retried until it succeeds. It is released by the write-back (`entry_write_and_unlock`, `node_write_and_unlock`) or by the turn-right and cache-validation paths. |
| Root pointer | `Tree::Tree` 55, `get_root_ptr` 130 | A `RootEntry` (level, pointer) word at a fixed remote address. |
| Torn-read detection | `VersionManager.h`, `Metadata.h` (`PackedVersion`) | Versions per cache line and per object. A latch-free reader re-reads until `decode_node_versions` accepts the image. |
| Tree cache | `TreeCache.h`, `TreeCacheEntry.h`, `Tree::cache_node` 184 | Copies of internal nodes in a skiplist keyed by fence range. An operation starts from the lowest cached node covering its key. Every node reached from the cache is validated against its fences, and on a miss the entry is invalidated and the descent restarts. |
| Hopscotch leaves and vacancy-aware lock | `hopscotch_*` 583-1007, `segment_write_and_unlock` 1010, `Hash.h`, `LeafNode.h`, `Metadata.h` (`VALOCK`) | The `HOPSCOTCH_LEAF_NODE` leaf: a hash table in which a key lives within `neighborSize` slots of its hash slot, and the hash slot keeps a hop bitmap. A writer hops entries toward the key's neighbourhood, then writes back only the changed segment. With `VACANCY_AWARE_LOCK` the lock word also holds a bitmap of buckets that have an empty slot, and the writer reads only up to the first such bucket. Readers read the header and the neighbourhood without a latch. |
| Metadata replication | `LeafVersionManager.h`, `MetadataManager.h` | A variant of the hopscotch layout that copies the leaf metadata into every group of entries. |
| Leaf index cache | `IdxCache.h` | It serves `SPECULATIVE_READ`: the entry index of a recently read key. |
| Range query | `range_query` 1923, `search_range_from_cache` | A read-only scan of `[from, to)`. The cached level-1 nodes name the leaves to read, and the leaves are batch-read and parsed with no fence check. Every key still missing is then looked up with an ordinary `search`. |
| Runtime | `run_coroutine`, `coro_worker`, `RdmaBuffer.h`, `GlobalAddress.h`, `HugePageAlloc.h` | Coroutine scheduling, buffers and addresses. |

## Modules

- **`KVMap`** is the abstract specification. It describes what the tree promises: a
  map from keys to values.
  - `Invoke` starts an operation.
  - `TakeEffect` is its atomic effect: `search` returns the current value,
    `insert` and `update` store one.
  - `update` may only be invoked on a key that is present, because `Tree.h:78`
    says the update asserts otherwise.
  - The constant `InitMap` is what the map holds when the clients start: empty
    for a fresh tree, or the loaded tree's contents.
- **`BLinkTree`** models the tree operations, split and parent insert, the node
  latch, the root pointer and the tree cache. It models the build with
  fence-key validation (not `SIBLING_BASED_VALIDATION`), sorted-array leaves and
  `CACHE_MORE_INTERNAL_NODE`. The cache is on when `CacheEnabled` is TRUE.
  - **State:**
    - `mem` holds the node images: fences `lo`/`hi`, `sib`, `level`, leaf
      `kv`, internal `leftmost`/`kp`.
    - `lock` holds the latch bits and `root` the RootEntry.
    - `nextAddr` is `dsm->alloc`.
    - Each thread has `pc`, `op`, `key`, `val`, `p` (the node address), `lvl`,
      `path` (`path_stack`), `pend` (the separator still to be inserted in a
      parent: key, pointer, level and split node), `ret` and `nops`.
    - `cache` maps skiplist entries `[from, to]` (a node's `[lowest,
      highest - 1]`) to a copied node image, or to `NullPtr` once invalidated.
      Entries are never removed, as in the skiplist.
    - `cfree` is `free_size`, counted in nodes (`CacheCap` at start).
    - `centry[t]` is the thread's `cache_entry`. It is not `NoEntry` exactly
      while `from_cache` is set.
    - `rq[t]` holds the locals of the thread's `range_query`: `from`, `to`,
      `leaf_addrs`, the leaf images read so far, `ret`, and whether a
      fallback `search(k, ret[k])` is running. It is kept after the call
      returns.
    - `seen[t]` is a ghost, with no counterpart in the code. For each key of
      the range it holds every value the map gave that key since the
      `range_query` began.
  - **Actions:** one per RDMA round trip together with the local work after it.
    - `Invoke`: the operation's entry, then `search_from_cache` (`Descend`),
      else `get_root_ptr`.
    - `Traverse`: `internal_node_search`, including the cache validation,
      its turn-right branch and `cache_node`.
    - `LockLeaf` and `LockInternal`: the `lock_node` CAS.
    - `LeafInsert`, `LeafUpdate` and `LeafSearch`: the body of the
      `leaf_node_*` function under the latch. Each has the cache validation
      (`Revalidate`: invalidate, search the cache again, else read the root),
      the turn-right (and unlock) branch, the entry write with its unlock,
      and the split.
    - `NewRoot`: the root branch of `node_split_and_unlock`, that is, writing
      the new root and doing the CAS.
    - `AfterSplit` (part of the split step) picks the parent: `path_stack`,
      else the child of a cached grandparent (`AncestorEntry`, that is
      `search_ptr_from_cache`), else the root.
    - `ParentFromRoot`: the fallback to `get_root_ptr`.
    - `InsertInternal`: `insert_internal`'s descent through
      `internal_node_search`, which turns right without caching or caches the
      node (`cache_node`, line 393) and moves to the child.
    - `InternalInsert`: `internal_node_insert`, with the validation of a
      parent named by the cache (unlock, invalidate, then insert from the
      root), turn right, the sorted insert and the split.
    - `RangeInvoke`: the start of `range_query`. It covers
      `search_range_from_cache` (`RangeImages`) and the loop over the cached
      images that builds `leaf_addrs` (`RangeLeaves`). With no image it goes
      straight to the search loop.
    - `RangeRead`: one leaf of `read_batches_sync` per step, in any order.
      Once all leaves are read, the parse (`Parsed`) runs in address order,
      a later leaf overwriting an earlier one.
    - `RangeFill`: the final loop. It stores the result of the search that
      returned, then starts an ordinary search (`Descend` with op
      `search`) for the next key missing from `ret`, or returns. That
      search's `LeafSearch` returns to this loop (`SearchDone`).
    - `ThreadStep` is a thread's `Step` together with `SeenNext`, the ghost
      update of `seen`.
    - `CacheNode` is `add_to_cache`: a new entry, or a CAS over an existing
      one. `Charged` says when `free_size` is charged. `Evict` covers `evict`
      and `evict_one`.
  - **Asserts:** an assert of the code is a guard, and an invariant says the
    guard always holds. The exception is `assert(level > 1)` in
    `insert_internal`: there the thread moves to pc `"aborted"`, the client
    process stopping.
  - **Refinement:** `Linearizable` is `KVMap!ASpec` under a refinement
    mapping. The abstract map `AbsMap` is the value in the leaf whose fences
    cover the key. An operation is pending from `Invoke` until its leaf step,
    so the leaf write (or, for a search, the leaf read) is its linearization
    point.
- **`MCBLinkTree`** instantiates `BLinkTree` for TLC. It defines two threads,
  model values for the values, the workloads, and `LoadedInit`, described under
  Runs.
- **`NodeVersions`** models `decode_node_versions` against concurrent
  `node_write_and_unlock` and `entry_write_and_unlock` of one node. The node's
  byte layout is computed from `Common.h`, so cache lines split entries exactly
  as in the code. Node contents are abstracted to the identity of the write
  that produced them.
  - **State:** `mem` (the encoded node), the number of writes, the current
    write epoch, and per reader its pc, buffer and the blocks still to read.
  - **Actions:** `NodeWrite` (`encode_node_versions`: node version + 1) and
    `EntryWrite` (`encode_entry_versions`: one entry's version + 1) are single
    steps. The latch serialises them, and the cache lines of one write hold
    disjoint data. A read is `StartRead`, then one `ReadBlock` per cache
    line in any order, then `Decode`, which accepts the image or goes back to
    `re_read`, then `Return`.
  - **Segment reads:** `StartRead` may instead read entries `[s, s + n)` of
    `SegReads`, as `hopscotch_search` and `leaf_entry_read` do.
    `GetOffsetInfo` is `get_offset_info`, and the read fetches the cache
    lines its raw range touches (`SegBlocks`). `Decode` then runs
    `decode_segment_versions` (`DecodesSegment`): it takes a version at each
    position the loop computes and compares it with the entry holding that
    byte, then runs the node-version joint check. The encoded layout it
    should match is `RawPos`, from `encode_node_versions`. If a computed
    position holds data rather than a version, the compared byte may have
    any value, so the decode may go either way.
- **`HopscotchLeaf`** models the hopscotch leaf level. It uses one latched
  writer, as `BLinkTree`'s latch gives, and lock-free readers. `VALock` turns
  the vacancy-aware lock on, and `SpecRead` turns `SPECULATIVE_READ` and the
  leaf index cache on.
  - **State:** `leaf` (fences, sibling, node version and the slots with key,
    value and hop bitmap) and `vac` (the lock word's vacancy bitmap), per
    address. `wslots` and `wnodes` are the writes still in flight. `ref` and
    `prev` are the reference map after, and before, the writer's current
    operation. `rd` and `seen` are the reader's state. `icache` is the
    index cache: a set of (leaf, slot, fingerprint) entries. `idelay` is its
    `delay_cnt`.
  - **Writer actions:** `Insert` is all of `leaf_node_insert`:
    - the narrowed read (`ReadEntryNum`, memset);
    - the `has_empty` assert;
    - the upsert scan;
    - `hopscotch_insert_and_unlock` (`HopscotchInsert`, `HopFrom`, `MoveEntry`);
    - `segment_write_and_unlock`, including its `update_vacancy`;
    - `hopscotch_split_and_unlock`: `SplitKey` from
      `hopscotch_get_split_key`, `StayHalf`/`MoveHalf`, then
      `hopscotch_insert_locally` and the bitmaps of both halves.

    `Update` is the hopscotch branch of `leaf_node_update`, including its
    speculative read of a cached slot (`goto update_entry` on a hit) and the
    `add_to_cache` of the slot it writes. A failed assert
    is a CASE arm that sets `abort`, and `AssertionsHold` says it never does.
  - **Writes land as steps:** the RDMA writes land one at a time.
    `WriteSlot` lands one slot of a segment or entry write, in any order,
    because an RDMA write is not atomic across entries. `WriteNode` lands
    first the split's sibling, then the old leaf.
  - **Reader actions:** a reader runs `leaf_node_search` over
    `hopscotch_search`: `SearchStart`, then `ReadHeader` and `ReadSegment`
    (the two regions of its read batch, in either order), then `SearchCheck`.
    `SearchCheck` compares node versions (`goto re_read`), turns right, scans
    the neighbourhood and rebuilds the hop bitmap, then the search returns.
    A hit calls `add_to_cache`. With `SpecRead`, `SearchStart` first looks up
    a cached slot (`SpecCands`, which is `search_idx_from_cache` over
    `hash_idx..hash_idx + neighborSize`, both ends included). When there is
    one, `LeafEntryRead` reads the header and that entry as two steps.
    `SpeculativeCheck` then re-reads on a node-version mismatch, returns the
    value when the entry's key is `k` (`SpecHit`), and otherwise falls back
    to `hopscotch_search` of the same leaf.
  - **Index cache:** `AddToCache` covers all of `add_to_cache`:
    - it refreshes an existing (leaf, slot) entry with the new fingerprint;
    - it backs off while `delay_cnt > 0`;
    - it replaces the LFU entry of a full bucket;
    - otherwise it fills an empty slot and calls `evict()` (`Evicted`) when
      `free_size` was already negative.

    Frequencies only order candidates and pick victims, so both choices are
    free. Bucket indexes are left out, so any entry may be the one a full
    bucket gives up. `key2fp` is not in the repository. It is the constant
    `Fp`, with collisions.
  - **Abstraction:** entries are atomic. The per-entry version check that
    catches a torn entry is `NodeVersions`' subject. Hash values are a
    constant function chosen to make keys collide and wrap. The hop bitmap is
    the set of offsets, where the code stores bit `neighborSize - 1 - offset`.
- **`MCHopscotchLeaf`** gives the hash functions: `MCHash` for a five-slot
  leaf, and `MCHash4` for a four-slot leaf. `MCFp` gives the colliding
  fingerprints: keys 1 and 3, which share a hash slot, share one.
- **`MCNodeVersions`** gives the leaf layout (27-byte metadata, 17-byte
  entries, 64-byte cache lines, one version byte). It also gives three
  segments:
  - one starting in the unversioned first 64 bytes;
  - one starting inside a block and crossing the next;
  - one starting exactly at a block.

### Atomicity of steps and why it is sound

A node read in `BLinkTree` is one step that returns a whole node image. The
code gets this by re-reading until `decode_node_versions` accepts the image.
`NodeVersions` checks that this works for a bounded number of overlapping
writes, and it shows that it fails after 16 writes (see the finding below).

A latched node is read, changed and written back in one step. This is sound
because only the latch holder writes that node.

The split writes the sibling and the node (with the unlock) in one step. The
code writes the sibling first (line 1250), and nothing can reach it until the
node write (line 1272) installs the sibling pointer, so no reader can tell the
two apart; the cost is that a swapped order of these two writes cannot be
found here. The parent insert is a later step: readers can run between the
split and the parent insert, and so can other writers of the parent and of
the root.

A failed cache validation and the restart that follows it are one step. This
is sound because a node's `lowest` fence never changes and its `highest` fence
only shrinks, so a failed check still fails when the restart runs. Each cache
operation (`add_to_cache`, `invalidate`, a seek) is one step. The skiplist's
own lock-free insertion is not modelled.

### The tree cache build

`TREE_ENABLE_CACHE` without `CACHE_MORE_INTERNAL_NODE` does not compile.
`Tree.h` always includes `TreeCache.h`, and `get_a_random_entry` then calls
the misspelled `fine_entry` (`TreeCache.h:277`). So the model takes the
`CACHE_MORE_INTERNAL_NODE` behaviour throughout:
- every internal node passed by `internal_node_search` is cached;
- `search_from_cache` seeks the first live entry at or after `[k, k]` in
  skiplist order (`to` ascending, then `from` descending);
- a failed validation searches the cache again before reading the root.

`evict_one` chooses the less used of two random live entries. The model lets
it choose any live entry, including the one just added.

## Runs

| Run | Config | Workload and bounds | Checks | Result |
|---|---|---|---|---|
| `small` | `MCBLinkTree.cfg` | 2 threads, each doing 2 operations from {insert, update, search} on keys 1..3 with 2 values. `LeafSpan` 2, `InternalSpan` 3, 6 nodes, height 3. No cache. | `TypeOK`, `LeafLevelPartition`, `SeparatorsMatchChildren`, `NoLeftOvershoot`, `UpdateFindsKey`, `NoDuplicateSeparator`, `RootCasSucceeds`, `LatchHeldByOwner`, `Linearizable`, `OpsComplete` | Passes: 158,895 distinct states in about 1.5 minutes. |
| `deep` | `MCBLinkTreeDeep.cfg` | Thread t1 inserts 5 of keys 1..5 while t2 inserts key 6. One value, 10 nodes, height 4. No cache. | `SeparatorsMatchChildren`, `NoLeftOvershoot`, `NoDuplicateSeparator`, `Linearizable` | Passes: 90,930 distinct states. |
| `root_race` | `MCBLinkTreeRootRace.cfg` | The same bounds as `small`. | `InsertInternalAboveLeaves` | Violated: see the finding below. |
| `loaded_cache` | `MCBLinkTreeLoadedCache.cfg` | `LoadedInit`, a loaded three-level tree over keys 1..20, with the cache on at a capacity of 2 nodes. t1 inserts 13 and 5. t2 inserts, updates or searches 19 and 14. Writes use a value the load did not. 16 nodes. | `SeparatorsMatchChildren`, `NoLeftOvershoot`, `CacheWithinCapacity`, `Linearizable` (from the loaded map), `OpsComplete` | Passes: 46,027 distinct states in about 1.5 minutes. |
| `range` | `MCBLinkTreeRange.cfg` | `LoadedInit` with the cache on, at a capacity of 2 nodes. t2 searches 13 or runs `range_query(13, 15)`. t1 inserts 13 or updates 12 or 13, using a new value. | `RangeRegular`, `Linearizable`, `OpsComplete` | Passes: 7,459 distinct states in under half a minute. |
| `nodeversions` | `MCNodeVersions.cfg` | One reader and 2 node or entry writes on an 18-entry leaf (six cache lines, one starting exactly at an entry). The reader reads the whole node or one of 3 segments. | `TypeOK`, `NoTornAccept`, `SegmentReadsUntorn`, `QuiescentDecodes`, `ReadsReturn` | Passes: 85,803 distinct states in about 2 minutes. |
| `nodeversions_wrap` | `MCNodeVersionsWrap.cfg` | One reader and 16 node writes on a 3-entry leaf. | `NoTornAccept` | Violated: see the finding below. |
| `hopscotch` | `MCHopscotchLeaf.cfg` | A 4-slot leaf with neighbourhood 2 and no vacancy-aware lock. Keys 1..4 and the ghost, 2 values, 5 writer operations (upserts and updates). One reader searches key 3 once. | `TypeOK`, `HopscotchInvariant`, `MapMatchesReference`, `SearchRegular`, `SearchTerminates` | Passes: 220,049 distinct states in about 70 s. |
| `hopscotch_valock` | `MCHopscotchLeafVA.cfg` | A 5-slot leaf with neighbourhood 3 and the vacancy-aware lock (3 buckets). Keys 1..5, 2 values, 8 writer operations, no reader. | `HopscotchInvariant`, `AssertionsHold`, `VacancySound` | Passes: 98,887 distinct states in about 40 s. |
| `hopscotch_spec` | `MCHopscotchLeafSpec.cfg` | The `hopscotch` leaf with `SPECULATIVE_READ` and a one-entry index cache (`EvictDelay` 1). 4 writer operations, and the reader searches key 3 twice. | `SearchRegular`, `MapMatchesReference` | Passes: 391,825 distinct states in about 45 s. |
| `hopscotch_upsert_dup` | `MCHopscotchLeafDup.cfg` | The `hopscotch_valock` leaf with 7 writer operations. | `MapMatchesReference` | Violated: see the finding below. |

Why these bounds are enough:

- **`small`:** with two-entry leaves and three keys plus the ghost key, the first
  insert can split the root leaf. This makes every interesting case reachable:
  a concurrent turn right at the leaf, the root CAS, the parent-from-root
  fallback, and an update racing a split of its leaf.
- **`deep`:** it needs enough inserts to split an internal node, so it reaches
  a three-level tree. It also covers the internal turn right, `InsertInternal`
  descending from the root, and the internal split with a new root above it.
  The second thread uses a key of its own so that its separator insert races
  the loader's internal splits. Searches and updates are left out here; `small`
  covers them.
- **`loaded_cache`:** growing a tree to three levels inside the checked run
  costs too many states, so the run starts from the tree that one client builds
  by inserting 4, 8, 12, 16, 2, 6, 10, 14, 18, 20 in order. A compute node that
  starts against a loaded memory pool is in this state, with an empty cache.
  In this tree the level-1 node 7 is full over two full leaves that still have
  free keys (13 and 19). So:
  - t1's insert of 13 splits leaf 5 and then node 7;
  - t2's insert of 19, started from a cached copy of node 7, splits leaf 10.
    Its parent then comes from a cached root taken before node 7 split, and
    `internal_node_insert`'s from-cache validation fails.
  - t2's update or search of 14 reaches leaf 5 through a stale copy of node 7
    after 14 moved, so the leaf validation fails.
  - t1's insert of 5 caches a third node, which forces an eviction at capacity
    2.
  - With capacity 1 the root and a level-1 node are never both live, so the
    cached-grandparent path could not happen.
- **`range`:** t1's insert of 13 splits leaf 5 into [12, 14) and [14, 16),
  then splits node 7. The cached copy of node 7 that t2's search left behind
  is then stale, so:
  - the scan of [13, 15) reads only leaf 5 and misses 14;
  - the fallback search of 14 starts from the stale copy, fails the leaf's
    fence validation, and restarts.
  The updates change values while the leaves are being read. If t2 starts
  the range first, its cache is empty and it takes the search-every-key
  branch.
- **`nodeversions`:** 18 entries is the shortest leaf prefix in which a cache
  line begins exactly at an entry boundary, the case the per-cache-line check
  treats specially. Two writes let a read overlap a node write and an entry
  write in either order. The entry writes target records[2] and records[5],
  which cross a block boundary, and records[17]. Each segment holds one of
  them, so an entry write can tear a segment read.
- **`hopscotch`:** with 4 slots and neighbourhood 2, the ghost sits on slot 1.
  Keys 1 and 3 hash to slot 0, so the second of them hops the ghost away.
  Keys 2 and 4 hash to slot 3, so their neighbourhood and segment wrap to
  slot 0. The fourth insert fills the leaf and the fifth splits it. The
  reader's search of 3 can thus overlap a hop, a wrapping segment write and
  both node writes of a split. All five branches of `SearchCheck` are
  reached. One reader and one search keep the state space small enough to
  check `SearchTerminates`.
- **`hopscotch_spec`:** the first search, or an update, caches a slot, and
  the second search or a later update reads it speculatively. Between the
  two, hops and the split (the fourth insert fills the leaf) can move key 3
  away, and key 1 shares its fingerprint. So hits, misses that fall back,
  and node-version re-reads all occur. A cache of one entry holds two
  before `evict()` runs (the old `free_size` is tested), so eviction and the
  full-bucket replacement both happen. `EvictDelay` is 1, not 10: any
  positive delay only makes later inserts return early.
- **`hopscotch_valock`:** 5 slots over 3 buckets of 1 or 2 slots, with
  keys 2 and 4 wrapping. The bitmap narrows reads at once, and 8 operations
  give a split followed by inserts and updates in both halves.
- **Coverage:** between them the passing runs fire every action and every
  branch of every action. The cache-off branch of `CacheNode` fires in `small`
  and `deep`. The cache branches fire in `loaded_cache`.

Fairness:

- `Spec` assumes weak fairness of each thread's `ThreadStep`. Each coroutine is resumed
  by `coro_worker`/`busy_waiting_queue` as long as it can proceed, and RDMA
  verbs complete.
- Nothing stronger is assumed. In particular there is no fairness between
  competing lock CASes, so `OpsComplete` holds only because every latch holder
  finishes in a bounded number of its own steps.
- `HopscotchLeaf` assumes weak fairness of `WriteSlot`, `WriteNode` (posted RDMA
  writes complete) and of each reader (the coroutine is polled). Starting a
  writer operation is the client's choice and is not assumed.
- `NodeVersions` assumes weak fairness of each reader's block reads and decode.
  Writers need none: the bound `MaxWrites` stops them, which is the "writes
  stop" premise of `ReadsReturn`.

### What the properties say

- **`LeafLevelPartition`:** the leaf fences partition the key space, every key
  is in its covering leaf, and the sibling chain is in fence order.
- **`SeparatorsMatchChildren`:** each child starts at its separator and ends by
  the next one, one level down. The root entry is consistent. In
  `loaded_cache` this includes separators placed through a parent that a stale
  cached grandparent named.
- **`NoLeftOvershoot`:** the B-link move-right invariant. No thread ever holds
  a node whose lowest fence is above its key, which is the code's
  `assert(k >= fence_keys.lowest)`. Because fences only shrink from the right,
  this also holds for nodes reached from the cache, before their validation.
- **`UpdateFindsKey`:** `leaf_node_update` finds the key in the leaf it
  latched, after any splits.
- **`NoDuplicateSeparator`:** `internal_node_insert`'s duplicate assert is
  never hit.
- **`RootCasSucceeds`:** the root CAS never fails. Its failure branch is dead
  code, because only the latched widest node can be split as the root.
- **`LatchHeldByOwner`:** a latch bit is set exactly while one thread is in the
  step that holds it.
- **`CacheWithinCapacity`:** `free_size` equals the capacity minus the live
  cached nodes, and it is never more than one node below zero. This holds
  across refills of cleared entries, CAS replacements of live ones, and
  evictions.
- **`OpsComplete`:** every invoked operation returns. With the cache on, this
  includes the restarts after failed validations.
- **`Linearizable`:** the tree refines `KVMap`. A range query's own steps
  are stuttering steps. Each of its fallback searches is an ordinary
  `KVMap` search.
- **`RangeRegular`:** once `range_query` returns, `ret` has an entry for
  every key of `[from, to)`. Each value is one the key held at some moment
  of the call: the result is regular, not a snapshot. This holds although:
  - the leaves were named by cached nodes that splits have made stale;
  - each leaf was read at a different moment;
  - no fence check is done on what was read.
  It depends on the split leaving no moved key behind, and on the final
  search loop.
- **`NoTornAccept`:** `decode_node_versions` accepts only an image whose every
  object comes from one write and whose objects agree on one node write.
- **`SegmentReadsUntorn`:** the same promise for segment reads:
  `decode_segment_versions` accepts a segment only when its entries are
  whole and all come from one node write. This depends on `get_offset_info`'s
  arithmetic in all three placement cases. It also depends on the joint
  check, because the first `first_offset` bytes are copied without a
  version. A raw offset that leaves out the versions before the segment
  lets a torn entry through.
- **`QuiescentDecodes`:** the node in memory always decodes between writes, so
  the latched `assert(decode_node_versions(...))` never fails.
- **`ReadsReturn`:** every latch-free read eventually decodes once the writes
  stop.
- **`HopscotchInvariant`:** at every quiescent point, every key of a reachable
  leaf lies within `neighborSize` of its hash slot and has its bit in that
  slot's hop bitmap, and every bit points at a key of that hash. This is
  spec.md property 3, through hops, wrapping segments, splits and the
  split's `insert_locally`.
- **`VacancySound`:** a clear bit of the vacancy bitmap means its bucket has
  an empty slot, which is what the narrowed read relies on.
- **`AssertionsHold`:** none of these asserts fails:
  - `has_empty` in `leaf_node_insert`;
  - `!critical_keys.empty()` in `hopscotch_get_split_key`;
  - `assert(j >= 0)` and `assert(false)` in `hopscotch_insert_locally`
    (`Tree.cpp:720`);
  - the key-found assert of `leaf_node_update`.
- **`MapMatchesReference`:** at quiescent points, a lookup of every key
  returns the value of its last upsert or update (spec.md property 1).
- **`SearchRegular`:** a lock-free search returns a value its key held during
  the search. With a write in flight, that may be the value from before the
  write.
  In `hopscotch_spec` this covers speculative hits. The cached slot may by
  then hold another key, even one with the same fingerprint, and only the
  key comparison in `speculative_read` (`Tree.cpp:1801`) rejects it. Without
  that comparison, both this property and `MapMatchesReference` (through a
  speculative update) fail.
- **`SearchTerminates`:** every search returns. The re-read loops end once the
  writer's writes have landed.

Every property of a passing run has a seeded fault in `PROJECT.json`. This is a
one-definition change, such as:
- an off-by-one split key;
- a missing unlock;
- a dropped turn right;
- a cache child one record too far right;
- a free-size charge only for brand-new entries;
- a fence check that forgets the high fence;
- a restart that does not invalidate the stale entry;
- a range parse that drops its lower bound;
- a hop that keeps the old bitmap bit;
- a segment write that drops its wrapped part;
- a search that skips the hop-bitmap check;
- a vacancy read one slot short.

TLC finds the property violated under that fault.

## Finding: root leaf split race (`Tree.cpp:350`)

1. Thread A fills the root leaf and splits it. It writes the sibling and the
   node, and unlocks the node.
2. Two round trips remain before `root` names the new level-2 node: the new-root
   write and the CAS.
3. Thread B read `root = (1, leaf)` before the split. It latches the leaf, or
   follows the sibling and latches it, and splits again.
4. The node B splits is no longer `is_root()`, because its high fence shrank.
   `path_stack[1]` is Null because B started at level 1. So
   `node_split_and_unlock` calls `insert_internal(get_root_ptr())` (line 1326),
   which still returns `(1, leaf)`.
5. `assert(level > 1)` fails.

TLC shows the trace in 12 steps. In the real system B must split the same leaf
half during A's two-round-trip window, which takes about `leafSpanSize/2`
inserts. That is rare but possible with many coroutines loading one key
range at start-up.

## Finding: version wrap (`VersionManager.h:72`)

`node_version` is a 4-bit field, incremented once per node write. A read that
overlaps 16 node writes of the node sees equal versions in its two halves, and
`decode_node_versions` accepts an image torn across writes. Nothing in the code
bounds how many writes can overlap one read. A read is stalled that long only
by a delayed coroutine or a congested NIC, so this is rare, but the check is
not a proof of consistency.

## Finding: duplicate key after a narrowed upsert (`Tree.cpp:546`)

With `VACANCY_AWARE_LOCK`, `leaf_node_insert` does not read the whole leaf.
`get_read_entry_num_from_bitmap` (`Metadata.h:61`) names the slots from the
hash slot to the end of the first bucket with a vacancy. Only those slots are
read (`Tree.cpp:443`), into a zeroed buffer. The scan for an existing copy of
`k` (`Tree.cpp:546`) then runs over that partial buffer.

TLC's trace (`hopscotch_upsert_dup`, 17 states):

1. Inserts of 1, 2, 4 and 5 fill the leaf around slot 4. Key 4 is displaced
   to slot 1.
2. An insert of 3 splits the leaf, and 4 moves to the sibling, still at slot
   1. The sibling's bucket of slot 4 is now empty.
3. An upsert of 4 reads only slot 4 and does not see the copy at slot 1. It
   writes a second copy of 4 at slot 4.
4. The next upsert of 4 reads the whole leaf and updates the first copy in
   slot order, the one at slot 1.
5. A search scans the neighbourhood from slot 4 and returns the value the
   second upsert replaced.

spec.md says that insert has upsert semantics ("if k exists the value is
replaced"). It also says that the mapping at quiescent points equals a
reference map. Without the vacancy-aware lock the same workload passes.

## Not modelled

1. **`METADATA_REPLICATION` (`MetadataManager`, `LeafVersionManager`):** an
   encoding layer that copies the leaf header into every entry group and
   checks segment versions. `HopscotchLeaf` takes one version per node
   image. Per-entry tearing is `NodeVersions`' subject.
   - `max_key_idx` in the lock word is written but read only under
     `SIBLING_BASED_VALIDATION`.
   - `HopscotchLeaf` is not composed with `BLinkTree`'s internal levels.
     Its leaves are reached by `Covering` (a latched writer's turn right)
     and by a reader starting at any leaf left of its key.
2. **`range_query`'s `FINE_GRAINED_RANGE_QUERY` and `SPECULATIVE_READ`
   branches:** they read hopscotch segments. `range_query` is modelled
   without them, one coroutine per thread, as its header comment demands.
3. **`SPECULATIVE_READ` outside the hopscotch leaf:** the branch that
   speculates over the whole leaf belongs to the non-hopscotch build, which
   is not modelled. The `METADATA_REPLICATION` variant of `leaf_entry_read`
   is not modelled either (item 1). `safely_delete`'s deferred free only
   reclaims memory.
4. **`SIBLING_BASED_VALIDATION`:** the alternative to fence keys.
5. **Write combining (`LocalLockTable`):** it is not in `src/` of this
   repository.
6. **`Tree::Tree` with `init_root` false:** only `zipf_rdma_test` uses it. It
   returns before creating the tree cache.

Other things are out of scope:

- statistics;
- the RDMA buffer management;
- `HugePageAlloc` and the benchmark drivers under `src/test/`.

These are I/O or memory layout, not state that any property tells apart.

The model assumes asserts are compiled in. Several asserts in `Tree.cpp` wrap
calls that change state (353, 887 and 1320: `internal_node_insert`; 453, 988
and 1545: the decode that fills the writer's leaf buffer), so a build with
`NDEBUG` would behave differently. The build files are not in this repository.
