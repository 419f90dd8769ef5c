------------------------------ MODULE BLinkTree ------------------------------
(***************************************************************************)
(* The CHIME B+-tree on disaggregated memory (src/src/Tree.cpp), with     *)
(* fence-key validation (SIBLING_BASED_VALIDATION off), sorted leaves and  *)
(* without write combining or the index cache.  The tree cache            *)
(* (TREE_ENABLE_CACHE with CACHE_MORE_INTERNAL_NODE, TreeCache.h) is on    *)
(* when CacheEnabled is TRUE.                                              *)
(*                                                                         *)
(* Nodes live in remote memory: mem[a] is the node at address a, lock[a]   *)
(* its latch word, root the RootEntry at root_ptr_ptr.  Client threads     *)
(* (coroutines) traverse the tree with one-sided reads, take node latches  *)
(* with CAS, and write nodes back.  A step of a thread is one RDMA         *)
(* round trip together with the local computation that follows it; a read *)
(* returns a consistent node image because decode_node_versions rejects    *)
(* torn images and the code re-reads (that argument is not part of this   *)
(* module; see README).  Steps a thread takes while it holds a latch touch    *)
(* only the latched node or a node no one can reach yet, so the lock CAS  *)
(* is a step of its own and the read, the local work and the write-back   *)
(* with unlock form the next one.                                          *)
(***************************************************************************)
EXTENDS Integers, Sequences, FiniteSets, SequencesExt, Functions, TLC

CONSTANTS Threads,       \* client threads / coroutines
          MaxKey,        \* user keys are 1..MaxKey
          Vals,          \* values written by the workload
          ValueNull,     \* define::kValueNull
          LeafSpan,      \* define::leafSpanSize
          InternalSpan,  \* define::internalSpanSize
          MaxNodes,      \* bound: remote node addresses 1..MaxNodes
          MaxHeight,     \* bound: entries of path_stack (MAX_TREE_HEIGHT)
          MaxOps,        \* bound: thread -> operations it invokes
          OpsOf,         \* workload: thread -> operations it may invoke
          KeysOf,        \* workload: thread -> keys it may use
          CacheEnabled,  \* TREE_ENABLE_CACHE
          CacheCap,      \* TreeCache cache_size, counted in cached nodes
          RangeSize      \* workload: range_query(from, from + RangeSize)

ASSUME /\ LeafSpan >= 2 /\ InternalSpan >= 3 /\ MaxNodes >= 2
       /\ \A t \in Threads : OpsOf[t] \subseteq {"insert", "update", "search", "range"}
       /\ RangeSize >= 1
       /\ \A t \in Threads : "range" \in OpsOf[t] =>
             \A k \in KeysOf[t] : k + RangeSize - 1 <= MaxKey
       /\ \A t \in Threads : KeysOf[t] \subseteq 1..MaxKey
       /\ CacheEnabled \in BOOLEAN /\ CacheCap \in Nat

KeyMin   == 1                \* define::kKeyMin, FenceKeys::Widest().lowest
UserKeys == KeyMin..MaxKey
Ghost    == MaxKey + 1       \* ghost key 0xff..fe written by the Tree ctor
KeyMax   == MaxKey + 2       \* 0xff..ff, FenceKeys::Widest().highest
Null     == 0                \* GlobalAddress::Null()
Widest   == -1               \* GlobalAddress::Widest()
Addr     == 1..MaxNodes
Ops      == {"insert", "update", "search"}

(* Node images.  A leaf holds a partial function key -> value; an internal *)
(* node a sorted sequence of [key, ptr] records and its leftmost_ptr.      *)
(* metadata.valid is never cleared in this code and sibling_leftmost_ptr   *)
(* is read only under SIBLING_BASED_VALIDATION, so neither is kept.       *)
NoKV == [k \in {} |-> ValueNull]

LeafNode(lo, hi, sib, kv) ==
  [isLeaf |-> TRUE, level |-> 0, lo |-> lo, hi |-> hi, sib |-> sib,
   kv |-> kv, kp |-> <<>>, leftmost |-> Null]

InternalNode(level, lo, hi, sib, leftmost, kp) ==
  [isLeaf |-> FALSE, level |-> level, lo |-> lo, hi |-> hi, sib |-> sib,
   kv |-> NoKV, kp |-> kp, leftmost |-> leftmost]

FreeNode == InternalNode(0, 0, 0, Null, Null, <<>>)

\* Seeded fault: only the lowest fence key is compared with Widest.
IsRootLowOnly(n) == n.lo = KeyMin

\* LeafNode::is_root / InternalNode::is_root: fence keys are Widest.
IsRoot(n) == n.lo = KeyMin /\ n.hi = KeyMax

SepKeys(kp) == {kp[i].key : i \in DOMAIN kp}

\* Seeded fault: the scan stops at the first record with key >= k.
ChildForUpperBound(n, k) ==
  IF n.kp = <<>> THEN Null
  ELSE IF k < n.kp[1].key THEN n.leftmost
  ELSE n.kp[CHOOSE i \in DOMAIN n.kp :
                 (n.kp[i].key >= k \/ i = Len(n.kp))
              /\ \A j \in 1..(i - 1) : n.kp[j].key < k].ptr

\* internal_node_search: the child whose range holds k.  With no records
\* the code returns records[0].ptr, which is Null.
ChildFor(n, k) ==
  IF n.kp = <<>> THEN Null
  ELSE IF k < n.kp[1].key THEN n.leftmost
  ELSE n.kp[CHOOSE i \in DOMAIN n.kp :
                 n.kp[i].key <= k
              /\ (i = Len(n.kp) \/ k < n.kp[i + 1].key)].ptr

\* Shift-and-insert into a sorted record array (internal_node_insert and
\* the shift_and_insert lambda of node_split_and_unlock).
InsertSorted(kp, k, v) ==
  LET bigger == {i \in DOMAIN kp : kp[i].key > k}
      idx    == IF bigger = {} THEN Len(kp) + 1
                ELSE CHOOSE i \in bigger : \A j \in bigger : i <= j
  IN  InsertAt(kp, idx, [key |-> k, ptr |-> v])

Put(f, k, v) == (k :> v) @@ f

VARIABLES mem,       \* remote memory: address -> node image
          lock,      \* address -> latch bit of the node's lock word
          root,      \* RootEntry [level, ptr] stored at root_ptr_ptr
          nextAddr,  \* next address dsm->alloc hands out
          pc,        \* per thread: where it is in its operation
          op, key, val,
          p,         \* per thread: node being visited
          lvl,       \* per thread: level of p (leaf = 1), as in Tree::insert
          path,      \* per thread: path_stack, indices 0..MaxHeight-1
          pend,      \* per thread: separator [key, ptr] still to be put in
                     \* the level above pend.level, and the node split
          ret,       \* per thread: value the last search returned
          nops,      \* per thread: operations invoked so far
          cache,     \* TreeCache skiplist: entry [from, to] -> cached node
                     \* image, NullPtr once invalidated
          cfree,     \* TreeCache::free_size, counted in cached nodes
          centry,    \* per thread: the cache_entry p was taken from while
                     \* it is not yet validated (from_cache), else NoEntry
          rq,        \* per thread: the range_query it runs or last ran
          seen       \* ghost, per thread: for each key of its range, the
                     \* values the map gave it since the range_query began

vars == <<mem, lock, root, nextAddr, pc, op, key, val, p, lvl, path, pend,
          ret, nops, cache, cfree, centry, rq, seen>>

threadVars == <<pc, op, key, val, p, lvl, path, pend, ret, nops, centry>>
cacheVars  == <<cache, cfree>>

Allocated == 1..(nextAddr - 1)
Leaves    == {a \in Allocated : mem[a].isLeaf}
Internals == {a \in Allocated : ~mem[a].isLeaf}

NoPath  == [i \in 0..(MaxHeight - 1) |-> Null]
NoPend  == [key |-> 0, ptr |-> Null, level |-> 0, node |-> Null]

(* A range_query's locals: [from, to), the leaf_addrs it batch-reads, the *)
(* leaf images read so far (keys of [from, to) only), the map ret it       *)
(* fills, and whether a search(k, ret[k]) of its final loop is running.    *)
NoRange == [from |-> 0, to |-> 0, leaves |-> {}, snaps |-> [a \in {} |-> NoKV],
            res |-> NoKV, sub |-> FALSE]

(***************************************************************************)
(* The tree cache (TreeCache.h).  An entry is keyed by the fence interval *)
(* [from, to] = [lowest, highest - 1] of the internal node it caches; the *)
(* skiplist never removes an entry, invalidation only clears its ptr.     *)
(***************************************************************************)
NullPtr == FreeNode
NoEntry == [from |-> 0, to |-> 0]
EntryKeys == [from : KeyMin..KeyMax, to : KeyMin..KeyMax]

\* TreeCacheEntryComparator: larger `to` is larger; on equal `to`, smaller
\* `from` is larger.
EntryLess(a, b) == a.to < b.to \/ (a.to = b.to /\ a.from > b.from)

\* The entries an iterator visits after Seek([from = k, to = k]).
SeekFrom(c, k) == {e \in DOMAIN c : ~EntryLess(e, [from |-> k, to |-> k])}

\* The first of a set of entries in skiplist order.
FirstEntry(S) == CHOOSE e \in S : \A f \in S : ~EntryLess(f, e)

Covers(e, k) == e.from <= k /\ k <= e.to

LiveEntries(c) == {e \in DOMAIN c : c[e] # NullPtr}

\* seek_entry(k): the first entry from Seek([k, k]) whose ptr is set.
SeekEntry(c, k) ==
  LET live == SeekFrom(c, k) \cap LiveEntries(c)
  IN  IF live = {} THEN NoEntry ELSE FirstEntry(live)

\* search_from_cache(k) with CACHE_MORE_INTERNAL_NODE: a hit when the
\* seeked entry covers k.
CacheHit(c, k) == LET e == SeekEntry(c, k) IN e # NoEntry /\ Covers(e, k)

\* search_ptr_from_cache(k, addr, lev): walk the entries from Seek([k, k])
\* while they cover k and take the first live one caching a node of level
\* lev + 1, the grandparent of the node a split wants the parent of.
AncestorEntry(c, k, lev) ==
  LET s    == SeekFrom(c, k)
      stop == {g \in s : ~Covers(g, k)}
      walk == {e \in s : \A g \in stop : EntryLess(e, g)}
      hits == {e \in walk \cap LiveEntries(c) : c[e].level = lev + 1}
  IN  IF hits = {} THEN NoEntry ELSE FirstEntry(hits)

\* Seeded fault: free_size is charged only for a brand-new entry, not when
\* the CAS refills an entry whose ptr was cleared.
ChargedNewOnly(c, e) == e \notin DOMAIN c

\* add_to_cache charges free_size when add_entry inserts a new entry or the
\* CAS replaces a cleared ptr (ret_val == nullptr).
Charged(c, e) == e \notin DOMAIN c \/ c[e] = NullPtr

(* evict: evict_one until free_size is not negative.  evict_one           *)
(* invalidates the less used of two random live entries, which may be the *)
(* one just added: here any `need` live entries, each giving one node back *)
(* to free_size.                                                            *)
Evict(c, need) ==
  \E V \in SUBSET LiveEntries(c) :
    /\ Cardinality(V) = need
    /\ cache' = [x \in DOMAIN c |-> IF x \in V THEN NullPtr ELSE c[x]]
    /\ cfree' = 0

(* cache_node(node) = add_to_cache(node): copy the image into the entry    *)
(* [lowest, highest - 1], new or CAS-replaced.  fetch_add returns the old  *)
(* free_size: when it was already negative, evict() runs evict_one (which  *)
(* invalidates the less used of two random live entries, any entry here)   *)
(* until free_size is not negative.                                        *)
CacheNode(n) ==
  IF ~CacheEnabled THEN UNCHANGED cacheVars
  ELSE LET e  == [from |-> n.lo, to |-> n.hi - 1]
           c1 == (e :> n) @@ cache
           f1 == IF Charged(cache, e) THEN cfree - 1 ELSE cfree
       IN  IF Charged(cache, e) /\ cfree < 0
           THEN Evict(c1, -f1)
           ELSE /\ cache' = c1
                /\ cfree' = f1

(* The client side as Tree::Tree leaves it: every coroutine idle with an  *)
(* empty path_stack, and a new TreeCache with all of cache_size free.     *)
InitClients ==
  /\ pc       = [t \in Threads |-> "idle"]
  /\ op       = [t \in Threads |-> "none"]
  /\ key      = [t \in Threads |-> 0]
  /\ val      = [t \in Threads |-> ValueNull]
  /\ p        = [t \in Threads |-> Null]
  /\ lvl      = [t \in Threads |-> 0]
  /\ path     = [t \in Threads |-> NoPath]
  /\ pend     = [t \in Threads |-> NoPend]
  /\ ret      = [t \in Threads |-> ValueNull]
  /\ nops     = [t \in Threads |-> 0]
  /\ cache    = [e \in {} |-> NullPtr]
  /\ cfree    = CacheCap
  /\ centry   = [t \in Threads |-> NoEntry]
  /\ rq       = [t \in Threads |-> NoRange]
  /\ seen     = [t \in Threads |-> [k \in {} |-> {}]]

(* Tree::Tree on node 0: a root leaf holding only the ghost key, installed *)
(* by CAS as RootEntry(1, leaf).                                           *)
Init ==
  /\ mem      = [a \in Addr |-> IF a = 1
                                 THEN LeafNode(KeyMin, KeyMax, Widest,
                                               Ghost :> ValueNull)
                                 ELSE FreeNode]
  /\ lock     = [a \in Addr |-> FALSE]
  /\ root     = [level |-> 1, ptr |-> 1]
  /\ nextAddr = 2
  /\ InitClients

\* The key the thread is currently routing: its own key during the
\* traversal, the separator during the parent insert.
RouteKey(t) == IF pc[t] \in {"insertInternal", "lockInternal", "internalInsert"}
               THEN pend[t].key ELSE key[t]

\* The current value of the abstract map: each key's value in the leaf
\* whose fence keys cover it.
CoveringLeaf(k) == CHOOSE a \in Leaves : mem[a].lo <= k /\ k < mem[a].hi
AbsVal(k) == LET n == mem[CoveringLeaf(k)] IN
               IF k \in DOMAIN n.kv THEN n.kv[k] ELSE ValueNull
AbsMap == [k \in UserKeys |-> AbsVal(k)]

LeafPc(o) == IF o = "search" THEN "leafSearch" ELSE "lockLeaf"

(* Descending (the `next:` label of insert / update / search after         *)
(* internal_node_search): only insert records path_stack[level-1].         *)
GoTo(t, a, l) ==
  /\ p'    = [p EXCEPT ![t] = a]
  /\ lvl'  = [lvl EXCEPT ![t] = l]
  /\ path' = IF op[t] = "insert" THEN [path EXCEPT ![t][l - 1] = a] ELSE path
  /\ pc'   = [pc EXCEPT ![t] = IF l = 1 THEN LeafPc(op[t]) ELSE "internal"]

\* Seeded fault: the child is taken from the first record whose key is
\* >= k, one too far right.
CacheChildForUpper(n, k) == ChildForUpperBound(n, k)

\* search_from_cache's own scan of the cached (kv-sorted) image for the
\* child covering k.
CacheChildFor(n, k) == ChildFor(n, k)

(* The start of a descent at `next:` of insert / update / search: on a     *)
(* search_from_cache hit, the child of the cached node with from_cache set *)
(* and level = the cached node's metadata.level; on a miss get_root_ptr.  *)
(* insert records path_stack[level - 1] (on top of `base`) either way.     *)
Descend(t, c, o, k, base) ==
  LET e   == SeekEntry(c, k)
      hit == CacheHit(c, k)
      a   == IF hit THEN CacheChildFor(c[e], k) ELSE root.ptr
      l   == IF hit THEN c[e].level ELSE root.level
  IN  /\ p'      = [p EXCEPT ![t] = a]
      /\ lvl'    = [lvl EXCEPT ![t] = l]
      /\ centry' = [centry EXCEPT ![t] = IF hit THEN e ELSE NoEntry]
      /\ path'   = [path EXCEPT ![t] = IF o = "insert" THEN [base EXCEPT ![l - 1] = a]
                                                      ELSE base]
      /\ pc'     = [pc EXCEPT ![t] = IF l = 1 THEN LeafPc(o) ELSE "internal"]

(* insert / update / search: before_operation clears path_stack, then the  *)
(* descent starts from the cache or the root entry.  update is invoked on  *)
(* present keys only (the workload's contract, asserted in               *)
(* leaf_node_update).                                                      *)
Invoke(t) ==
  /\ pc[t] = "idle"
  /\ nops[t] < MaxOps[t]
  /\ \E o \in OpsOf[t] \cap Ops, k \in KeysOf[t], v \in Vals :
       /\ o = "update" => AbsMap[k] # ValueNull
       /\ op'  = [op EXCEPT ![t] = o]
       /\ key' = [key EXCEPT ![t] = k]
       /\ val' = [val EXCEPT ![t] = IF o = "search" THEN ValueNull ELSE v]
       /\ Descend(t, cache, o, k, NoPath)
  /\ ret'  = [ret EXCEPT ![t] = ValueNull]
  /\ nops' = [nops EXCEPT ![t] = @ + 1]
  /\ UNCHANGED <<mem, lock, root, nextAddr, pend, cache, cfree>>

\* TreeCache::invalidate: CAS the entry's ptr to null (a no-op when it is
\* null already) and give its node back to free_size.
Invalidated(c, e) == IF c[e] = NullPtr THEN c ELSE [c EXCEPT ![e] = NullPtr]

Invalidate(e) ==
  /\ cache' = Invalidated(cache, e)
  /\ cfree' = IF cache[e] = NullPtr THEN cfree ELSE cfree + 1

\* Seeded fault: the restart searches the cache again without
\* invalidating the stale entry.
RevalidateKeep(t) ==
  /\ UNCHANGED cacheVars
  /\ Descend(t, cache, op[t], key[t], path[t])

(* A from_cache node whose fences do not hold the key (the `cache is     *)
(* outdated` return false of internal_node_search and of                 *)
(* leaf_node_insert, update and search): the caller invalidates          *)
(* cache_entry (CAS of its ptr to 0, refunding free_size), searches the   *)
(* cache again and else reads the root, and goes to `next:`.  Fences     *)
(* only narrow (highest) or never change (lowest), so the failed check    *)
(* still holds when the restart reads the root: the node read and the     *)
(* restart form one step.                                                 *)
Revalidate(t) ==
  /\ Invalidate(centry[t])
  /\ Descend(t, Invalidated(cache, centry[t]), op[t], key[t], path[t])

\* Seeded fault: the fence check forgets the highest fence.
InFencesLowOnly(n, k) == n.lo <= k

\* The fence check `k >= lowest && k < highest` (cache validation, and the
\* case of neither turning right nor failing the assert).
InFences(n, k) == n.lo <= k /\ k < n.hi

ClearEntry(t) == centry' = [centry EXCEPT ![t] = NoEntry]

(* internal_node_search: read the node; a from_cache node is validated     *)
(* first; otherwise turn right to the sibling when k >= highest (recording *)
(* it in path_stack), else cache the node and descend to the child        *)
(* covering k at level metadata.level.                                     *)
Traverse(t) ==
  /\ pc[t] = "internal"
  /\ LET n == mem[p[t]] IN
       \/ /\ centry[t] # NoEntry /\ ~InFences(n, key[t])
          /\ Revalidate(t)
       \/ /\ centry[t] = NoEntry /\ key[t] >= n.hi
          /\ p'    = [p EXCEPT ![t] = n.sib]
          /\ path' = [path EXCEPT ![t][lvl[t] - 1] = n.sib]
          /\ UNCHANGED <<pc, lvl, cache, cfree, centry>>
       \/ /\ InFences(n, key[t])
          /\ CacheNode(n)
          /\ ClearEntry(t)
          /\ GoTo(t, ChildFor(n, key[t]), n.level)
  /\ UNCHANGED <<mem, lock, root, nextAddr, op, key, val, pend, ret, nops>>

(* lock_node: cas_mask_sync of the lock word from 0; on failure the       *)
(* coroutine yields and retries, i.e. the step waits until the bit is 0.  *)
LockLeaf(t) ==
  /\ pc[t] = "lockLeaf"
  /\ ~lock[p[t]]
  /\ lock' = [lock EXCEPT ![p[t]] = TRUE]
  /\ pc'   = [pc EXCEPT ![t] = IF op[t] = "insert" THEN "leafInsert" ELSE "leafUpdate"]
  /\ UNCHANGED <<mem, root, nextAddr, op, key, val, p, lvl, path, pend, ret, nops,
                 cache, cfree, centry>>

LockInternal(t) ==
  /\ pc[t] = "lockInternal"
  /\ ~lock[p[t]]
  /\ lock' = [lock EXCEPT ![p[t]] = TRUE]
  /\ pc'   = [pc EXCEPT ![t] = "internalInsert"]
  /\ UNCHANGED <<mem, root, nextAddr, op, key, val, p, lvl, path, pend, ret, nops,
                 cache, cfree, centry>>

\* Seeded fault: the unlock write misses the lock word.
UnlockMissed(a) == lock' = lock

\* unlock_node, or the lock word carried in a write_batch: clear the bit.
Unlock(a) == lock' = [lock EXCEPT ![a] = FALSE]

(* The tail of node_split_and_unlock, after the split node of level       *)
(* `level` was written and unlocked: a root gets a new root; otherwise the *)
(* separator goes to path_stack[level + 1]; when the traversal never saw   *)
(* that level (it started from the cache or below the root),              *)
(* search_ptr_from_cache(split_key, parent, level + 1) may name the parent *)
(* from a cached grandparent (from_cache set), else the parent is found   *)
(* from a fresh root read.                                                 *)
AfterSplit(t, n, sk, sib, level) ==
  LET ce == AncestorEntry(cache, sk, level + 1) IN
  /\ pend' = [pend EXCEPT ![t] = [key |-> sk, ptr |-> sib, level |-> level,
                                  node |-> p[t]]]
  /\ CASE IsRoot(n)                  -> /\ pc' = [pc EXCEPT ![t] = "newRoot"]
                                        /\ ClearEntry(t)
                                        /\ UNCHANGED p
       [] path[t][level + 1] # Null -> /\ pc' = [pc EXCEPT ![t] = "lockInternal"]
                                        /\ p'  = [p EXCEPT ![t] = path[t][level + 1]]
                                        /\ ClearEntry(t)
       [] ce # NoEntry               -> /\ pc' = [pc EXCEPT ![t] = "lockInternal"]
                                        /\ p'  = [p EXCEPT ![t] = CacheChildFor(cache[ce], sk)]
                                        /\ centry' = [centry EXCEPT ![t] = ce]
       [] OTHER                      -> /\ pc' = [pc EXCEPT ![t] = "parentFromRoot"]
                                        /\ ClearEntry(t)
                                        /\ UNCHANGED p

(* node_split_and_unlock, leaf part: the records sorted by key, m = cnt/2, *)
(* split_key = records[m].key, and records [m, SPAN) move to the sibling.  *)
SortedKeys(kv) == SetToSortSeq(DOMAIN kv, <)

\* Seeded fault: the median taken one record too low (records[m - 1]).
LeafSplitKeyLow(kv) == LET s == SortedKeys(kv) IN s[Len(s) \div 2]

LeafSplitKey(kv) == LET s == SortedKeys(kv) IN s[Len(s) \div 2 + 1]

\* Seeded fault: the move loop stops one record short of SPAN_SIZE.
LeafUpperHalfShort(kv) ==
  LET s == SortedKeys(kv) IN Restrict(kv, {s[i] : i \in (Len(s) \div 2 + 1)..(Len(s) - 1)})

LeafUpperHalf(kv) ==
  LET s == SortedKeys(kv) IN Restrict(kv, {s[i] : i \in (Len(s) \div 2 + 1)..Len(s)})

LeafLowerHalf(kv) ==
  LET s == SortedKeys(kv) IN Restrict(kv, {s[i] : i \in 1..(Len(s) \div 2)})

\* Seeded fault: the new key always stays in the split node.
KeyGoesToSiblingNever(k, sk) == FALSE

\* `if (k < split_key) records[m] = ... else sibling_node->records[...] = ...`
KeyGoesToSibling(k, sk) == ~(k < sk)

(* node_split_and_unlock for a leaf (level 0): put k in its half, give the *)
(* sibling [split_key, highest) and the node's old sibling_ptr, shrink the *)
(* node to [lowest, split_key) pointing at the sibling, write the sibling, *)
(* then the node with the unlock.                                          *)
SplitLeaf(t, n) ==
  LET sk   == LeafSplitKey(n.kv)
      low  == LeafLowerHalf(n.kv)
      high == LeafUpperHalf(n.kv)
      a    == nextAddr
  IN  /\ a <= MaxNodes
      /\ mem' = [mem EXCEPT
                   ![a]    = LeafNode(sk, n.hi, n.sib,
                                      IF KeyGoesToSibling(key[t], sk)
                                      THEN Put(high, key[t], val[t]) ELSE high),
                   ![p[t]] = LeafNode(n.lo, sk, a,
                                      IF KeyGoesToSibling(key[t], sk)
                                      THEN low ELSE Put(low, key[t], val[t]))]
      /\ nextAddr' = a + 1
      /\ Unlock(p[t])
      /\ AfterSplit(t, n, sk, a, 0)

\* Seeded fault: the empty-entry scan runs one entry past the span.
HasEmptyEntryPastEnd(n) == Cardinality(DOMAIN n.kv) <= LeafSpan

\* leaf_node_insert's scan for an entry whose key is kkeyNull.
HasEmptyEntry(n) == Cardinality(DOMAIN n.kv) < LeafSpan

(* leaf_node_insert (non-hopscotch leaves): under the latch, a from_cache  *)
(* leaf is validated first (unlock and restart); turn right if            *)
(* k >= highest; overwrite k's entry or fill an empty one                  *)
(* (entry_write_and_unlock); else split.  assert(k >= lowest) guards all.  *)
LeafInsert(t) ==
  /\ pc[t] = "leafInsert"
  /\ LET n == mem[p[t]] IN
       \/ /\ centry[t] # NoEntry /\ ~InFences(n, key[t])
          /\ Unlock(p[t])
          /\ Revalidate(t)
          /\ UNCHANGED <<mem, nextAddr, pend>>
       \/ /\ centry[t] = NoEntry /\ key[t] >= n.hi
          /\ Unlock(p[t])
          /\ p'  = [p EXCEPT ![t] = n.sib]
          /\ pc' = [pc EXCEPT ![t] = "lockLeaf"]
          /\ UNCHANGED <<mem, nextAddr, pend, lvl, path, cache, cfree, centry>>
       \/ /\ InFences(n, key[t])
          /\ key[t] \in DOMAIN n.kv \/ HasEmptyEntry(n)
          /\ mem' = [mem EXCEPT ![p[t]].kv = Put(@, key[t], val[t])]
          /\ Unlock(p[t])
          /\ pc' = [pc EXCEPT ![t] = "idle"]
          /\ ClearEntry(t)
          /\ UNCHANGED <<nextAddr, p, pend, lvl, path, cache, cfree>>
       \/ /\ InFences(n, key[t])
          /\ key[t] \notin DOMAIN n.kv /\ ~HasEmptyEntry(n)
          /\ SplitLeaf(t, n)
          /\ UNCHANGED <<lvl, path, cache, cfree>>
  /\ UNCHANGED <<root, op, key, val, ret, nops>>

(* leaf_node_update: under the latch, a from_cache leaf is validated      *)
(* first; turn right if k >= highest, else overwrite k's entry;           *)
(* assert(i != leafSpanSize) demands it is present.  Every path unlocks.  *)
LeafUpdate(t) ==
  /\ pc[t] = "leafUpdate"
  /\ LET n == mem[p[t]] IN
       \/ /\ centry[t] # NoEntry /\ ~InFences(n, key[t])
          /\ Revalidate(t)
          /\ UNCHANGED mem
       \/ /\ centry[t] = NoEntry /\ key[t] >= n.hi
          /\ p'  = [p EXCEPT ![t] = n.sib]
          /\ pc' = [pc EXCEPT ![t] = "lockLeaf"]
          /\ UNCHANGED <<mem, lvl, path, cache, cfree, centry>>
       \/ /\ InFences(n, key[t])
          /\ key[t] \in DOMAIN n.kv
          /\ mem' = [mem EXCEPT ![p[t]].kv = Put(@, key[t], val[t])]
          /\ pc' = [pc EXCEPT ![t] = "idle"]
          /\ ClearEntry(t)
          /\ UNCHANGED <<p, lvl, path, cache, cfree>>
  /\ Unlock(p[t])
  /\ UNCHANGED <<root, nextAddr, op, key, val, pend, ret, nops>>

\* The value leaf_node_search returns from a leaf covering k.
Lookup(n, k) == IF k \in DOMAIN n.kv THEN n.kv[k] ELSE ValueNull

\* Where a search returns to: the final loop of a range_query that called
\* search(k, ret[k]), else the caller.
SearchDone(t) == IF rq[t].sub THEN "rangeFill" ELSE "idle"

\* Seeded fault: turning right re-reads the same leaf (node_addr not
\* reassigned from sibling_ptr).
LeafSearchNoAdvance(t) ==
  /\ pc[t] = "leafSearch"
  /\ LET n == mem[p[t]] IN
       \/ /\ centry[t] # NoEntry /\ ~InFences(n, key[t])
          /\ Revalidate(t)
          /\ UNCHANGED ret
       \/ /\ centry[t] = NoEntry /\ key[t] >= n.hi
          /\ UNCHANGED <<p, pc, ret, lvl, path, cache, cfree, centry>>
       \/ /\ InFences(n, key[t])
          /\ ret' = [ret EXCEPT ![t] = Lookup(n, key[t])]
          /\ pc'  = [pc EXCEPT ![t] = SearchDone(t)]
          /\ ClearEntry(t)
          /\ UNCHANGED <<p, lvl, path, cache, cfree>>
  /\ UNCHANGED <<mem, lock, root, nextAddr, op, key, val, pend, nops>>

\* Seeded fault: the reader trusts the leaf it reached and never turns right.
LeafSearchNoTurnRight(t) ==
  /\ pc[t] = "leafSearch"
  /\ ret' = [ret EXCEPT ![t] = Lookup(mem[p[t]], key[t])]
  /\ pc'  = [pc EXCEPT ![t] = SearchDone(t)]
  /\ ClearEntry(t)
  /\ UNCHANGED <<mem, lock, root, nextAddr, op, key, val, p, lvl, path, pend, nops,
                 cache, cfree>>

(* leaf_node_search: a lock-free read; a from_cache leaf is validated     *)
(* first; turn right if k >= highest, else return k's value or            *)
(* kValueNull.                                                             *)
LeafSearch(t) ==
  /\ pc[t] = "leafSearch"
  /\ LET n == mem[p[t]] IN
       \/ /\ centry[t] # NoEntry /\ ~InFences(n, key[t])
          /\ Revalidate(t)
          /\ UNCHANGED ret
       \/ /\ centry[t] = NoEntry /\ key[t] >= n.hi
          /\ p' = [p EXCEPT ![t] = n.sib]
          /\ UNCHANGED <<pc, ret, lvl, path, cache, cfree, centry>>
       \/ /\ InFences(n, key[t])
          /\ ret' = [ret EXCEPT ![t] = Lookup(n, key[t])]
          /\ pc'  = [pc EXCEPT ![t] = SearchDone(t)]
          /\ ClearEntry(t)
          /\ UNCHANGED <<p, lvl, path, cache, cfree>>
  /\ UNCHANGED <<mem, lock, root, nextAddr, op, key, val, pend, nops>>

(***************************************************************************)
(* range_query(from, to, ret) (Tree.cpp, neither FINE_GRAINED_RANGE_QUERY *)
(* nor hopscotch leaves): the level-1 images search_range_from_cache finds *)
(* name the leaves to batch-read; the leaves are parsed without any fence *)
(* check; then search(k, ret[k]) fills every key of [from, to) still       *)
(* missing.  With no cached level-1 image, every key is searched.          *)
(***************************************************************************)

\* search_range_from_cache(from, to): from Seek([from, from]) the live
\* entries up to the first with from > to; the images of metadata level 1.
RangeImages(c, from, to) ==
  LET live == SeekFrom(c, from) \cap LiveEntries(c)
      stop == {g \in live : g.from > to}
      walk == {e \in live : \A g \in stop : EntryLess(e, g)}
  IN  {c[e] : e \in {x \in walk : c[x].level = 1}}

\* The children of an internal image with the fence range the image gives
\* each: [lowest, records[0].key), ..., [records[last].key, highest).
ChildRanges(n) ==
  LET kids  == <<n.leftmost>> \o [i \in DOMAIN n.kp |-> n.kp[i].ptr]
      lows  == <<n.lo>> \o [i \in DOMAIN n.kp |-> n.kp[i].key]
      highs == [i \in DOMAIN n.kp |-> n.kp[i].key] \o <<n.hi>>
  IN  {[ptr |-> kids[i], lo |-> lows[i], hi |-> highs[i]] : i \in DOMAIN kids}

\* leaf_addrs: the children whose range meets [from, to) (no_fetch false).
RangeLeaves(imgs, from, to) ==
  {r.ptr : r \in {x \in UNION {ChildRanges(n) : n \in imgs} :
                    from < x.hi /\ x.lo < to}}

\* Seeded fault: the parse drops the lower bound and keeps a first leaf's
\* keys below `from`.
KeyInRangeNoLower(k, from, to) == k < to

\* The parse's filter e.key >= from && e.key < to.
KeyInRange(k, from, to) == from <= k /\ k < to

InRangeKV(kv, from, to) ==
  [k \in {x \in DOMAIN kv : KeyInRange(x, from, to)} |-> kv[k]]

RangeKeys(r) == r.from..(r.to - 1)

\* The parse loop: leaves in leaf_addrs order (a std::set, by address), a
\* later leaf's entry overwriting ret[e.key].
Parsed(snaps) ==
  LET ks == UNION {DOMAIN snaps[a] : a \in DOMAIN snaps}
  IN  [k \in ks |-> snaps[Max({a \in DOMAIN snaps : k \in DOMAIN snaps[a]})][k]]

(* The start of range_query: before_operation(nullptr) clears path_stack, *)
(* search_range_from_cache, and the leaf_addrs of the images; with no      *)
(* image the code goes straight to searching every key.                   *)
RangeInvoke(t) ==
  /\ pc[t] = "idle"
  /\ nops[t] < MaxOps[t]
  /\ "range" \in OpsOf[t]
  /\ \E from \in KeysOf[t] :
       LET to   == from + RangeSize
           imgs == RangeImages(cache, from, to)
       IN  /\ rq' = [rq EXCEPT ![t] = [NoRange EXCEPT !.from = from, !.to = to,
                                         !.leaves = RangeLeaves(imgs, from, to)]]
           /\ pc' = [pc EXCEPT ![t] = IF imgs = {} THEN "rangeFill" ELSE "rangeRead"]
  /\ path' = [path EXCEPT ![t] = NoPath]
  /\ nops' = [nops EXCEPT ![t] = @ + 1]
  /\ UNCHANGED <<mem, lock, root, nextAddr, op, key, val, p, lvl, pend, ret,
                 cache, cfree, centry>>

(* read_batches_sync reads the leaves, each at its own moment (the NIC     *)
(* serves the batch in any order; a torn image is re-read, so each read is *)
(* a consistent image); once all are in, the parse fills ret.              *)
RangeRead(t) ==
  /\ pc[t] = "rangeRead"
  /\ LET r == rq[t] IN
       \/ \E a \in r.leaves \ DOMAIN r.snaps :
            /\ rq' = [rq EXCEPT ![t].snaps = (a :> InRangeKV(mem[a].kv, r.from, r.to)) @@ @]
            /\ UNCHANGED pc
       \/ /\ DOMAIN r.snaps = r.leaves
          /\ rq' = [rq EXCEPT ![t].res = Parsed(r.snaps)]
          /\ pc' = [pc EXCEPT ![t] = "rangeFill"]
  /\ UNCHANGED <<mem, lock, root, nextAddr, op, key, val, p, lvl, path, pend,
                 ret, nops, cache, cfree, centry>>

(* The final loop over k in [from, to): the result of the search(k,       *)
(* ret[k]) that returned is stored, then the next key missing from ret is *)
(* searched (an ordinary search), or range_query returns.                  *)
RangeFill(t) ==
  /\ pc[t] = "rangeFill"
  /\ LET r    == rq[t]
         res  == IF r.sub THEN (key[t] :> ret[t]) @@ r.res ELSE r.res
         miss == {k \in RangeKeys(r) : k \notin DOMAIN res}
     IN  \/ /\ miss = {}
            /\ rq' = [rq EXCEPT ![t] = [r EXCEPT !.res = res, !.sub = FALSE]]
            /\ pc' = [pc EXCEPT ![t] = "idle"]
            /\ UNCHANGED <<op, key, val, p, lvl, path, ret, centry>>
         \/ /\ miss # {}
            /\ rq'  = [rq EXCEPT ![t] = [r EXCEPT !.res = res, !.sub = TRUE]]
            /\ op'  = [op EXCEPT ![t] = "search"]
            /\ key' = [key EXCEPT ![t] = Min(miss)]
            /\ val' = [val EXCEPT ![t] = ValueNull]
            /\ ret' = [ret EXCEPT ![t] = ValueNull]
            /\ Descend(t, cache, "search", Min(miss), NoPath)
  /\ UNCHANGED <<mem, lock, root, nextAddr, pend, nops, cache, cfree>>

RangePcs == {"rangeRead", "rangeFill"}
Ranging(t) == pc[t] \in RangePcs \/ rq[t].sub

(* Ghost bookkeeping, no code: a range_query's start records each key's   *)
(* value in the map; every step while it runs adds the value it leaves.   *)
SeenNext ==
  seen' = [u \in Threads |->
             IF pc[u] = "idle" /\ pc'[u] \in RangePcs
             THEN [k \in RangeKeys(rq'[u]) |-> {AbsVal(k)}]
             ELSE IF Ranging(u)
             THEN [k \in DOMAIN seen[u] |-> seen[u][k] \cup {AbsVal(k)'}]
             ELSE seen[u]]

(* The `next:` label of insert_internal: record path_stack[level-1],       *)
(* assert(level > 1), and stop descending at the target level             *)
(* pend.level + 1.  A failed assert aborts the client process: the thread *)
(* stops for good ("aborted").                                             *)
EnterInsertInternal(t, a, l) ==
  /\ p'    = [p EXCEPT ![t] = a]
  /\ lvl'  = [lvl EXCEPT ![t] = l]
  /\ path' = [path EXCEPT ![t][l - 1] = a]
  /\ pc'   = [pc EXCEPT ![t] = CASE l <= 1                  -> "aborted"
                                  [] l - 1 = pend[t].level + 1 -> "lockInternal"
                                  [] OTHER                     -> "insertInternal"]

\* Seeded fault: the new root's leftmost_ptr and record swapped.
NewRootImageSwapped(pr) ==
  InternalNode(pr.level + 1, KeyMin, KeyMax, Null, pr.ptr, <<[key |-> pr.key, ptr |-> pr.node]>>)

\* The new root of node_split_and_unlock: level + 1, Widest fences, the
\* split node as leftmost_ptr and one record [split_key, sibling].
NewRootImage(pr) ==
  InternalNode(pr.level + 1, KeyMin, KeyMax, Null, pr.node, <<[key |-> pr.key, ptr |-> pr.ptr]>>)

\* Seeded fault: no return after a successful root CAS, so the split falls
\* through to the parent insert from the root.
NewRootNoReturn(t) ==
  LET pr       == pend[t]
      a        == nextAddr
      expected == [level |-> pr.level + 1, ptr |-> pr.node]
  IN  /\ pc[t] = "newRoot"
      /\ a <= MaxNodes
      /\ mem' = [mem EXCEPT ![a] = NewRootImage(pr)]
      /\ nextAddr' = a + 1
      /\ IF root = expected
           THEN /\ root' = [level |-> pr.level + 2, ptr |-> a]
                /\ pc'   = [pc EXCEPT ![t] = "parentFromRoot"]
                /\ UNCHANGED <<p, lvl, path>>
           ELSE /\ UNCHANGED root
                /\ EnterInsertInternal(t, root.ptr, root.level)
      /\ UNCHANGED <<lock, op, key, val, pend, ret, nops, cache, cfree, centry>>

(* The is_root branch of node_split_and_unlock: write a new root above the *)
(* split node and CAS the root entry from RootEntry(level+1, node) to     *)
(* RootEntry(level+2, new root); on failure insert_internal from the root *)
(* entry the CAS returned.                                                 *)
NewRoot(t) ==
  LET pr       == pend[t]
      a        == nextAddr
      expected == [level |-> pr.level + 1, ptr |-> pr.node]
  IN  /\ pc[t] = "newRoot"
      /\ a <= MaxNodes
      /\ mem' = [mem EXCEPT ![a] = NewRootImage(pr)]
      /\ nextAddr' = a + 1
      /\ IF root = expected
           THEN /\ root' = [level |-> pr.level + 2, ptr |-> a]
                /\ pc'   = [pc EXCEPT ![t] = "idle"]
                /\ UNCHANGED <<p, lvl, path>>
           ELSE /\ UNCHANGED root
                /\ EnterInsertInternal(t, root.ptr, root.level)
      /\ UNCHANGED <<lock, op, key, val, pend, ret, nops, cache, cfree, centry>>

(* insert_internal(split_key, sibling, get_root_ptr(), level + 1).         *)
ParentFromRoot(t) ==
  /\ pc[t] = "parentFromRoot"
  /\ EnterInsertInternal(t, root.ptr, root.level)
  /\ UNCHANGED <<mem, lock, root, nextAddr, op, key, val, pend, ret, nops,
                 cache, cfree, centry>>

(* insert_internal's internal_node_search on the separator key: turn     *)
(* right without caching, or cache_node(node) and descend to the child.   *)
InsertInternal(t) ==
  /\ pc[t] = "insertInternal"
  /\ LET n == mem[p[t]]
         k == pend[t].key
     IN  \/ /\ k >= n.hi
            /\ p'    = [p EXCEPT ![t] = n.sib]
            /\ path' = [path EXCEPT ![t][lvl[t] - 1] = n.sib]
            /\ UNCHANGED <<pc, lvl, cache, cfree>>
         \/ /\ n.lo <= k /\ k < n.hi
            /\ CacheNode(n)
            /\ EnterInsertInternal(t, ChildFor(n, k), n.level)
  /\ UNCHANGED <<mem, lock, root, nextAddr, op, key, val, pend, ret, nops,
                 centry>>

\* Seeded fault: the sibling's leftmost_ptr taken from records[m - 1].
MedianChildLow(kp) == kp[Len(kp) \div 2].ptr

\* The sibling's leftmost_ptr: the child of the median record records[m].
MedianChild(kp) == kp[Len(kp) \div 2 + 1].ptr

(* node_split_and_unlock for an internal node of level `level`: records   *)
(* above the median go to the sibling, the median's child becomes its     *)
(* leftmost_ptr and the median key the separator; [k, v] is shifted into  *)
(* its half.                                                               *)
SplitInternal(t, n, k, v, level) ==
  LET m    == Len(n.kp) \div 2
      sk   == n.kp[m + 1].key
      low  == SubSeq(n.kp, 1, m)
      high == SubSeq(n.kp, m + 2, Len(n.kp))
      a    == nextAddr
  IN  /\ a <= MaxNodes
      /\ mem' = [mem EXCEPT
                   ![a]    = InternalNode(level, sk, n.hi, n.sib, MedianChild(n.kp),
                                          IF k < sk THEN high ELSE InsertSorted(high, k, v)),
                   ![p[t]] = InternalNode(n.level, n.lo, sk, a, n.leftmost,
                                          IF k < sk THEN InsertSorted(low, k, v) ELSE low)]
      /\ nextAddr' = a + 1
      /\ Unlock(p[t])
      /\ AfterSplit(t, n, sk, a, level)

(* internal_node_insert(p, split_key, sibling, from_cache, level): under  *)
(* the latch, a parent taken from the cache is validated first (unlock,   *)
(* and node_split_and_unlock invalidates the entry and falls back to      *)
(* insert_internal from the root); turn right if k >= highest; assert k   *)
(* is not a key yet; shift-insert and node_write_and_unlock, or split     *)
(* when the node is full.                                                  *)
InternalInsert(t) ==
  /\ pc[t] = "internalInsert"
  /\ LET n     == mem[p[t]]
         k     == pend[t].key
         v     == pend[t].ptr
         level == pend[t].level + 1
         e     == centry[t]
     IN  \/ /\ e # NoEntry /\ ~InFences(n, k)
            /\ Unlock(p[t])
            /\ Invalidate(e)
            /\ pc' = [pc EXCEPT ![t] = "parentFromRoot"]
            /\ ClearEntry(t)
            /\ UNCHANGED <<mem, nextAddr, p, pend>>
         \/ /\ e = NoEntry /\ k >= n.hi
            /\ Unlock(p[t])
            /\ p'  = [p EXCEPT ![t] = n.sib]
            /\ pc' = [pc EXCEPT ![t] = "lockInternal"]
            /\ UNCHANGED <<mem, nextAddr, pend, cache, cfree, centry>>
         \/ /\ InFences(n, k)
            /\ k \notin SepKeys(n.kp)
            /\ Len(n.kp) < InternalSpan
            /\ mem' = [mem EXCEPT ![p[t]].kp = InsertSorted(@, k, v)]
            /\ Unlock(p[t])
            /\ pc' = [pc EXCEPT ![t] = "idle"]
            /\ ClearEntry(t)
            /\ UNCHANGED <<nextAddr, p, pend, cache, cfree>>
         \/ /\ InFences(n, k)
            /\ k \notin SepKeys(n.kp)
            /\ Len(n.kp) = InternalSpan
            /\ SplitInternal(t, n, k, v, level)
            /\ UNCHANGED <<cache, cfree>>
  /\ UNCHANGED <<root, op, key, val, lvl, path, ret, nops>>

(* Every thread has run its operations, or its client has aborted.         *)
Finished ==
  /\ \A t \in Threads : (pc[t] = "idle" /\ nops[t] = MaxOps[t]) \/ pc[t] = "aborted"
  /\ UNCHANGED vars

Step(t) ==
  \/ /\ \/ Invoke(t) \/ Traverse(t) \/ LockLeaf(t) \/ LeafInsert(t)
        \/ LeafUpdate(t) \/ LeafSearch(t) \/ NewRoot(t) \/ ParentFromRoot(t)
        \/ InsertInternal(t) \/ LockInternal(t) \/ InternalInsert(t)
     /\ UNCHANGED rq
  \/ RangeInvoke(t) \/ RangeRead(t) \/ RangeFill(t)

ThreadStep(t) == Step(t) /\ SeenNext

Next == (\E t \in Threads : ThreadStep(t)) \/ Finished

\* The coroutine scheduler (run_coroutine) keeps polling every coroutine,
\* so each thread's enabled step is eventually taken.
Fairness == \A t \in Threads : WF_vars(ThreadStep(t))

Spec == Init /\ [][Next]_vars /\ Fairness

-----------------------------------------------------------------------------
(*************************** Properties **************************************)

Pcs == {"idle", "internal", "lockLeaf", "leafInsert", "leafUpdate", "leafSearch",
        "newRoot", "parentFromRoot", "insertInternal", "lockInternal",
        "internalInsert", "aborted", "rangeRead", "rangeFill"}

\* Steps at which the thread is about to read, or holds, node p.
VisitPcs == Pcs \ {"idle", "newRoot", "parentFromRoot", "aborted", "rangeRead",
                   "rangeFill"}
LatchPcs == {"leafInsert", "leafUpdate", "internalInsert"}

(* Type invariant: every variable has its type, and no node holds more     *)
(* entries than leafSpanSize / internalSpanSize records allow.             *)
TypeOK ==
  /\ nextAddr \in 2..(MaxNodes + 1)
  /\ lock \in [Addr -> BOOLEAN]
  /\ root \in [level : 1..MaxHeight, ptr : Addr]
  /\ pc \in [Threads -> Pcs]
  /\ op \in [Threads -> Ops \cup {"none"}]
  /\ key \in [Threads -> UserKeys \cup {0}]
  /\ p \in [Threads -> Addr \cup {Null, Widest}]
  /\ lvl \in [Threads -> 0..MaxHeight]
  /\ path \in [Threads -> [0..(MaxHeight - 1) -> Addr \cup {Null, Widest}]]
  /\ \A t \in Threads : nops[t] \in 0..MaxOps[t]
  /\ \A a \in Leaves : Cardinality(DOMAIN mem[a].kv) <= LeafSpan
  /\ \A a \in Internals : Len(mem[a].kp) <= InternalSpan
  /\ DOMAIN cache \subseteq EntryKeys
  /\ \A e \in DOMAIN cache : cache[e] = NullPtr \/ ~cache[e].isLeaf
  /\ cfree \in Int
  /\ centry \in [Threads -> EntryKeys \cup {NoEntry}]
  /\ \A t \in Threads :
       /\ rq[t].leaves \subseteq Addr /\ DOMAIN rq[t].snaps \subseteq rq[t].leaves
       /\ DOMAIN rq[t].res \subseteq UserKeys /\ rq[t].sub \in BOOLEAN

(* B-link leaf level (node_split_and_unlock's fence and sibling updates):  *)
(* the leaves' fence intervals partition the key space, every key sits in  *)
(* the leaf whose fences cover it, and each leaf's sibling_ptr leads to    *)
(* the leaf that starts at its highest fence (Widest after the last one).  *)
LeafLevelPartition ==
  /\ \A k \in KeyMin..(KeyMax - 1) :
       Cardinality({a \in Leaves : mem[a].lo <= k /\ k < mem[a].hi}) = 1
  /\ \A a \in Leaves : \A k \in DOMAIN mem[a].kv : mem[a].lo <= k /\ k < mem[a].hi
  /\ \A a \in Leaves :
       IF mem[a].hi = KeyMax THEN mem[a].sib = Widest
       ELSE mem[a].sib \in Leaves /\ mem[mem[a].sib].lo = mem[a].hi

(* Internal nodes written by internal_node_insert, the internal split and  *)
(* the new-root branch: separators are strictly sorted inside the node's   *)
(* fences, each child starts exactly at its separator (the leftmost child  *)
(* at the node's lowest fence), ends no later than the next separator, and *)
(* sits one level below; the root entry names a node of level - 1 that     *)
(* starts at kKeyMin.                                                      *)
SeparatorsMatchChildren ==
  /\ mem[root.ptr].level = root.level - 1 /\ mem[root.ptr].lo = KeyMin
  /\ \A a \in Internals :
       LET n     == mem[a]
           kids  == <<n.leftmost>> \o [i \in DOMAIN n.kp |-> n.kp[i].ptr]
           lows  == <<n.lo>> \o [i \in DOMAIN n.kp |-> n.kp[i].key]
           highs == [i \in DOMAIN n.kp |-> n.kp[i].key] \o <<n.hi>>
       IN  \A i \in DOMAIN kids :
             /\ kids[i] \in Allocated
             /\ mem[kids[i]].level = n.level - 1
             /\ mem[kids[i]].lo = lows[i]
             /\ lows[i] < highs[i]
             /\ mem[kids[i]].hi <= highs[i]

(* The B-link move-right rule: every node a traversal, a latch wait or a   *)
(* parent insert reaches has lowest fence <= the key it routes, which is   *)
(* what the assert(k >= fence_keys.lowest) in internal_node_search,        *)
(* leaf_node_insert/update/search and internal_node_insert demands.        *)
NoLeftOvershoot ==
  \A t \in Threads : pc[t] \in VisitPcs =>
     /\ p[t] \in Allocated
     /\ mem[p[t]].lo <= RouteKey(t)

(* leaf_node_update's assert(i != leafSpanSize): a key present when the   *)
(* update began is in the leaf the update latched once it stops turning    *)
(* right, although splits may have moved it since the traversal.           *)
UpdateFindsKey ==
  \A t \in Threads :
     (pc[t] = "leafUpdate" /\ key[t] < mem[p[t]].hi) => key[t] \in DOMAIN mem[p[t]].kv

(* internal_node_insert's assert(records[i].key != k): a separator is put *)
(* into its parent level once only, even when the parent found through     *)
(* path_stack, a root read or a turn right is not where it was first seen. *)
NoDuplicateSeparator ==
  \A t \in Threads :
     (pc[t] = "internalInsert" /\ pend[t].key < mem[p[t]].hi)
        => pend[t].key \notin SepKeys(mem[p[t]].kp)

(* The root CAS in node_split_and_unlock: when a thread that split the     *)
(* root is about to swing the root entry, the entry still names the node  *)
(* it split, so the CAS succeeds and its failure branch (insert_internal   *)
(* from the returned root) is never needed.                                *)
RootCasSucceeds ==
  \A t \in Threads : pc[t] = "newRoot" =>
     root = [level |-> pend[t].level + 1, ptr |-> pend[t].node]

(* lock_node / unlock_node: a latch bit is set exactly while one thread is *)
(* in the step that holds it; every exit path (turn right, write, split)  *)
(* releases it.                                                           *)
LatchHeldByOwner ==
  \A a \in Addr :
     lock[a] <=> Cardinality({t \in Threads : pc[t] \in LatchPcs /\ p[t] = a}) = 1

(* Every operation the workload invokes returns (or its client aborts on an *)
(* assert, which InsertInternalAboveLeaves rules out separately): no latch *)
(* is left held, no lock_node spins forever and no traversal chases        *)
(* pointers forever.                                                       *)
OpsComplete == \A t \in Threads : pc[t] # "idle" ~> pc[t] \in {"idle", "aborted"}

(* insert_internal's assert(level > 1): the root entry a split's parent    *)
(* insert starts from (path_stack had no parent) is above the leaves, so   *)
(* the separator has an internal level to go to.                           *)
InsertInternalAboveLeaves == \A t \in Threads : pc[t] # "aborted"

(* TreeCache's free_size accounting: add_to_cache charges a node when it  *)
(* fills a new or cleared entry, invalidate refunds it when its CAS       *)
(* clears a ptr, and evict() invalidates until free_size is not negative. *)
(* free_size is always the capacity less the live entries, and because   *)
(* add_to_cache tests the value fetch_add returned (before its own        *)
(* charge) the cache holds at most one node more than its capacity.       *)
CacheWithinCapacity ==
  /\ cfree = CacheCap - Cardinality(LiveEntries(cache))
  /\ cfree >= -1

(* range_query(from, to, ret) once it has returned: ret has an entry for  *)
(* every key of [from, to), and each is a value the key held at some       *)
(* moment of the call (regular, not a snapshot), although the leaves came *)
(* from cached images that splits may have made stale, were read at       *)
(* different moments without a fence check, and the missing keys were     *)
(* searched afterwards.                                                     *)
RangeRegular ==
  \A t \in Threads : (rq[t] # NoRange /\ ~Ranging(t)) =>
     /\ DOMAIN rq[t].res = RangeKeys(rq[t])
     /\ \A k \in RangeKeys(rq[t]) : rq[t].res[k] \in seen[t][k]

\* Steps during which an invoked operation has not yet taken effect.
PendingPcs == {"internal", "lockLeaf", "leafInsert", "leafUpdate", "leafSearch"}

\* The map the tree holds when the clients start: Tree::Tree's empty root
\* leaf.  MCBLinkTree's loaded run starts from a populated tree instead.
InitAbsMap == [k \in UserKeys |-> ValueNull]

KV == INSTANCE KVMap WITH
        InitMap <- InitAbsMap,
        amap <- AbsMap,
        apc  <- [t \in Threads |-> IF pc[t] \in PendingPcs THEN "pending" ELSE "idle"],
        aop  <- op, akey <- key, aval <- val, ares <- ret

(* Insert, update and search are linearizable against the KVMap spec: the *)
(* leaf write or leaf read is the point where the operation takes effect, *)
(* and AbsMap (the value in the covering leaf) is the abstract map.        *)
Linearizable == KV!ASpec
=============================================================================
