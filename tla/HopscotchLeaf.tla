---------------------------- MODULE HopscotchLeaf ----------------------------
(***************************************************************************)
(* The level-0 nodes of CHIME built with HOPSCOTCH_LEAF_NODE and, when     *)
(* VALock holds, VACANCY_AWARE_LOCK (src/src/Tree.cpp, src/include/        *)
(* LeafNode.h, src/include/Metadata.h).  A leaf is a hopscotch table of    *)
(* Span slots: a key lives within H slots of its hash slot, and the hash   *)
(* slot's hop bitmap has one bit per occupied offset.                      *)
(*                                                                         *)
(* One writer holds the leaf latch (the latch itself is BLinkTree's) and   *)
(* runs leaf_node_insert or leaf_node_update: it reads the leaf (or, with  *)
(* the vacancy-aware lock, only the slots up to the first bucket with a    *)
(* vacancy), computes the hop chain on its local copy, and writes back the *)
(* changed segment.  An RDMA write is not atomic across entries, so every  *)
(* slot of a segment lands as a step of its own, in any order; a split     *)
(* writes the new sibling and then the whole old leaf, each as one step    *)
(* (a reader that sees a mix of old and new entries of a node write fails  *)
(* the node-version check, which NodeVersions models).  Lock-free readers  *)
(* run leaf_node_search: two reads of one batch (header with the wrapped   *)
(* part of the neighbourhood, and the rest of it), node-version check,     *)
(* turn right, and the hop-bitmap consistency check.                       *)
(*                                                                         *)
(* With SPECULATIVE_READ, search and update first try the slot the leaf    *)
(* index cache (IdxCache.h) remembers for the key: a hint that may be      *)
(* stale by the time it is read, so the entry's key is compared with k.    *)
(***************************************************************************)
EXTENDS Integers, FiniteSets, FiniteSetsExt, Sequences, TLC

CONSTANTS
    Span,       \* define::leafSpanSize
    H,          \* define::neighborSize
    ISpan,      \* define::internalSpanSize, only sizes the vacancy bitmap
    Keys,       \* user keys, positive integers
    Ghost,      \* the ghost key Tree::Tree puts into the first root leaf
    Hash,       \* get_hashed_leaf_entry_index, [Keys \cup {Ghost} -> 0..Span-1]
    Vals,       \* values, positive integers
    VALock,     \* VACANCY_AWARE_LOCK is defined
    MaxOps,     \* bound on writer operations
    Readers,    \* reader threads
    ReadKeys,   \* keys the readers search for
    MaxReads,   \* bound on searches per reader
    SpecRead,   \* SPECULATIVE_READ is defined
    Fp,         \* key2fp, [Keys -> fingerprints]; distinct keys may collide
    CacheCap,   \* IdxCache capacity in entries (free_size / sizeof(IdxCacheEntry))
    EvictDelay  \* the delay_cnt evict() sets (10 in the code)

ASSUME /\ Span > H /\ H >= 2
       /\ Keys \subseteq Nat \ {0} /\ Vals \subseteq Nat \ {0}
       /\ \A k \in Keys : k < Ghost
       /\ Hash \in [Keys \cup {Ghost} -> 0..Span-1]
       /\ ReadKeys \subseteq Keys
       /\ Keys \subseteq DOMAIN Fp /\ CacheCap \in Nat /\ EvictDelay \in Nat

KNull == 0            \* define::kkeyNull
VNull == 0            \* define::kValueNull
Top == Ghost + 1      \* fence_keys.highest of the rightmost leaf
NoAddr == 0
NoSlot == -1          \* no cached slot to try
Addrs == 1..MaxOps + 1    \* every operation splits at most one leaf
Slots == 0..Span-1

EmptyEntry == [key |-> KNull, val |-> VNull, hop |-> {}]
EmptyRec == [i \in Slots |-> EmptyEntry]

\* get_entry: records[(logical_idx + leafSpanSize) % leafSpanSize]
Get(rec, i) == rec[i % Span]

-----------------------------------------------------------------------------
(* The vacancy-aware lock (VALOCK in Metadata.h).  A set bit of the bitmap *)
(* is a bucket that had no empty slot when last written.                   *)

RECURSIVE Log2Ceil(_, _)
Log2Ceil(n, p) == IF n <= 1 THEN p ELSE Log2Ceil((n + 1) \div 2, p + 1)

VBits == Min({63 - Log2Ceil(Max({Span, ISpan}), 0), Span, ISpan})
Buckets == 0..VBits-1

\* floor(kv_idx / (span / vacancyMapBit)), exact in the integers
FindBucket(i) == ((i * VBits) \div Span) % VBits

BucketFirst(b) ==
    IF b = 0 THEN 0
    ELSE (b * Span) \div VBits + (IF (Span * b) % VBits # 0 THEN 1 ELSE 0)

BucketLast(b) == Min({BucketFirst(b + 1) - 1, Span - 1})

\* Seeded fault: the written range is not marked, only the empties cleared.
UpdateVacancyNoMark(vac, l, r, empties) == vac \ {FindBucket(i) : i \in empties}

UpdateVacancy(vac, l, r, empties) ==
    LET lb == FindBucket(l)
        rb == FindBucket(r)
        marked == IF lb <= rb THEN lb..rb ELSE (0..rb) \cup (lb..VBits-1)
    IN  (vac \cup marked) \ {FindBucket(i) : i \in empties}

\* Seeded fault: the read stops one slot before the end of the bucket.
ReadEntryNumShort(vac, start) ==
    LET s == FindBucket(start)
        usable == {i \in 0..VBits-1 :
                     /\ (s + i) % VBits \notin vac
                     /\ start <= BucketFirst((s + i) % VBits)}
        n == IF usable = {} THEN 0
             ELSE (BucketLast((s + Min(usable)) % VBits) + Span - start) % Span
    IN  IF n = 0 THEN Span ELSE n

\* get_read_entry_num_from_bitmap: read up to the end of the first bucket
\* with a vacancy that starts at or after start, or the whole leaf.
ReadEntryNum(vac, start) ==
    LET s == FindBucket(start)
        usable == {i \in 0..VBits-1 :
                     /\ (s + i) % VBits \notin vac
                     /\ start <= BucketFirst((s + i) % VBits)}
        n == IF usable = {} THEN 0
             ELSE (BucketLast((s + Min(usable)) % VBits) + Span - start + 1) % Span
    IN  IF n = 0 THEN Span ELSE n

ReadSet(l, n) == {(l + i) % Span : i \in 0..n-1}

-----------------------------------------------------------------------------
(* Hopping (hopscotch_insert_and_unlock, hopscotch_insert_locally).        *)
(* Indexes are logical: hash_idx <= j < hash_idx + Span.                   *)

\* The offsets z such that slot h is recorded in the hop bitmap of home
\* h - z and may move to j; the corner-case arithmetic of the code always
\* yields the logical home h - z when Span > H.
HopZ(rec, h, j) == {z \in 0..H-1 : h - z + H > j /\ z \in Get(rec, h - z).hop}

HopOffsets(rec, j) == {off \in 1..H-1 : HopZ(rec, j - off, j) # {}}

\* Seeded fault: the hop bit is set one offset too far.
PlaceOffByOne(rec, j, k, v, hash) ==
    LET r1 == [rec EXCEPT ![j % Span].key = k, ![j % Span].val = v]
    IN  [r1 EXCEPT ![hash % Span].hop = @ \cup {j - hash + 1}]

\* get_entry(j).update(k, v); get_entry(hash_idx).set_hop_bit(j - hash_idx)
Place(rec, j, k, v, hash) ==
    LET r1 == [rec EXCEPT ![j % Span].key = k, ![j % Span].val = v]
    IN  [r1 EXCEPT ![hash % Span].hop = @ \cup {j - hash}]

\* Seeded fault: the moved entry's old hop bit is not unset.
MoveEntryKeepBit(rec, h, j) ==
    LET hh == h - Max(HopZ(rec, h, j))
        r1 == [rec EXCEPT ![j % Span].key = Get(rec, h).key,
                          ![j % Span].val = Get(rec, h).val]
    IN  [r1 EXCEPT ![hh % Span].hop = @ \cup {j - hh}]

\* move the entry at h to j; the home's bit moves from h to j
MoveEntry(rec, h, j) ==
    LET hh == h - Max(HopZ(rec, h, j))
        r1 == [rec EXCEPT ![j % Span].key = Get(rec, h).key,
                          ![j % Span].val = Get(rec, h).val]
    IN  [r1 EXCEPT ![hh % Span].hop = (@ \ {h - hh}) \cup {j - hh}]

\* next_hop: place k if j is in its neighbourhood, else hop the farthest
\* movable entry into j and continue from its slot
RECURSIVE HopFrom(_, _, _, _, _)
HopFrom(rec, k, v, hash, j) ==
    IF j < hash + H THEN [ok |-> TRUE, rec |-> Place(rec, j, k, v, hash)]
    ELSE IF HopOffsets(rec, j) = {} THEN [ok |-> FALSE, rec |-> rec]
    ELSE LET h == j - Max(HopOffsets(rec, j))
         IN  HopFrom(MoveEntry(rec, h, j), k, v, hash, h)

EmptyFrom(rec, from, n) == {i \in from..from+n-1 : Get(rec, i).key = KNull}

\* The local part of an insert into the first n slots from the hash slot:
\* ok, the new records, and the empty slot the hop chain started from.
HopscotchInsert(rec, k, v, n) ==
    LET hash == Hash[k]
        E == EmptyFrom(rec, hash, n)
        res == HopFrom(rec, k, v, hash, Min(E))
    IN  IF E = {} THEN [ok |-> FALSE, rec |-> rec, e |-> 0]
        ELSE [ok |-> res.ok, rec |-> res.rec, e |-> Min(E) % Span]

-----------------------------------------------------------------------------
(* The split key (hopscotch_get_split_key): the median of k and the keys   *)
(* whose slot, if emptied, would let k hop into its neighbourhood.         *)

\* the hash slot of the key at h, moved next to h by the corner case
KeyHome(rec, h) ==
    LET hh == Hash[Get(rec, h).key]
    IN  IF h - hh < 0 THEN hh - Span
        ELSE IF h - hh >= H THEN hh + Span ELSE hh

RECURSIVE SimHop(_, _, _)
SimHop(rec, hash, j) ==
    \/ j < hash + H
    \/ LET offs == {off \in 1..H-1 : KeyHome(rec, j - off) + H > j}
       IN  offs # {} /\ SimHop(rec, hash, j - Max(offs))

\* the occupied run that starts at the hash slot
RunEnd(rec, hash) ==
    LET E == EmptyFrom(rec, hash, Span) IN IF E = {} THEN hash + Span ELSE Min(E)

CriticalKeys(rec, k) ==
    LET hash == Hash[k]
        run == [i \in 1..RunEnd(rec, hash) - hash |-> hash + i - 1]
        crit == SelectSeq(run, LAMBDA e : SimHop(rec, hash, e))
    IN  [i \in DOMAIN crit |-> Get(rec, crit[i]).key]

SplitKey(rec, k) ==
    LET s == SortSeq(Append(CriticalKeys(rec, k), k), <)
    IN  s[Len(s) \div 2 + 1]

\* The two halves of hopscotch_split_and_unlock before k is inserted: keys
\* >= sk move to the same slot of the sibling, with their hop bits.
MovedSlots(rec, sk) == {i \in Slots : rec[i].key # KNull /\ rec[i].key >= sk}

MovedOffsets(rec, sk, h) ==
    {(i - h) % Span : i \in {m \in MovedSlots(rec, sk) : Hash[rec[m].key] = h}}

StayHalf(rec, sk) ==
    [i \in Slots |->
        IF i \in MovedSlots(rec, sk)
        THEN [key |-> KNull, val |-> VNull, hop |-> rec[i].hop \ MovedOffsets(rec, sk, i)]
        ELSE [rec[i] EXCEPT !.hop = @ \ MovedOffsets(rec, sk, i)]]

MoveHalf(rec, sk) ==
    [i \in Slots |->
        [key |-> IF i \in MovedSlots(rec, sk) THEN rec[i].key ELSE KNull,
         val |-> IF i \in MovedSlots(rec, sk) THEN rec[i].val ELSE VNull,
         hop |-> MovedOffsets(rec, sk, i)]]

\* update_vacancy_bitmap of a whole leaf
LeafVacancy(rec) == UpdateVacancy({}, 0, Span - 1, {i \in Slots : rec[i].key = KNull})

-----------------------------------------------------------------------------
VARIABLES
    leaf,     \* leaf[a]: fences, sibling, node version and records in memory
    vac,      \* vac[a]: the vacancy bitmap of a's lock word
    nLeaves,  \* leaves allocated so far
    wslots,   \* slot writes of the writer's segment write still in flight
    wnodes,   \* whole-node writes of the writer's split still to land, in order
    ops,      \* writer operations started
    abort,    \* the assertion that failed, or "none"
    ref,      \* reference map after every started writer operation
    prev,     \* reference map before the writer operation in flight, or ref
    rd,       \* reader state of leaf_node_search
    seen,     \* values of the searched key while the search runs
    icache,   \* IdxCache entries [a, i, fp]: slot i of leaf a held a key with fp
    idelay    \* IdxCache::delay_cnt, its non-positive values all as 0

cvars == <<icache, idelay>>
vars == <<leaf, vac, nLeaves, wslots, wnodes, ops, abort, ref, prev, rd, seen, icache, idelay>>

NoLeaf == [lo |-> 0, hi |-> 0, sib |-> NoAddr, nv |-> 0, rec |-> EmptyRec]
NoRead == [pc |-> "idle", k |-> KNull, a |-> NoAddr, got |-> {}, view |-> EmptyRec,
           hi |-> 0, sib |-> NoAddr, nvH |-> 0, nvR |-> 0, res |-> VNull, n |-> 0,
           si |-> NoSlot, ent |-> EmptyEntry]

\* the first root leaf of Tree::Tree, holding the ghost key
RootRec == HopscotchInsert(EmptyRec, Ghost, VNull, Span).rec

Init ==
    /\ leaf = [a \in Addrs |->
                 IF a = 1 THEN [lo |-> 0, hi |-> Top, sib |-> NoAddr, nv |-> 0, rec |-> RootRec]
                 ELSE NoLeaf]
    /\ vac = [a \in Addrs |->
                IF a = 1 THEN UpdateVacancy({}, Hash[Ghost], Hash[Ghost], {}) ELSE {}]
    /\ nLeaves = 1
    /\ wslots = {}
    /\ wnodes = <<>>
    /\ ops = 0
    /\ abort = "none"
    /\ ref = [k \in Keys |-> VNull]
    /\ prev = ref
    /\ rd = [r \in Readers |-> NoRead]
    /\ seen = [r \in Readers |-> {}]
    /\ icache = {}
    /\ idelay = 0

\* The leaves reachable along sibling pointers from the leftmost leaf: a
\* split writes the new sibling before the leaf that links it, and no leaf
\* is ever unlinked, so these are the first leaf and every sibling target.
Chain(a) == {a} \cup ({leaf[b].sib : b \in Addrs} \ {NoAddr})

\* the leaf a latched writer ends at after turning right
Covering(k) == CHOOSE a \in Chain(1) : leaf[a].lo <= k /\ k < leaf[a].hi

WriterIdle == wslots = {} /\ wnodes = <<>> /\ abort = "none"

-----------------------------------------------------------------------------
(* The leaf index cache (IdxCache.h).  Entry frequencies only order the    *)
(* candidates of a lookup and pick eviction victims, so they are left out  *)
(* and both choices are free.  Which bucket (leaf_addr + kv_idx) % 10^6   *)
(* an entry falls in is left out: any entry may share a full bucket.       *)

\* evict(): evict_one removes the LFU entry of two random buckets until
\* free_size >= 0 again; the caches it may leave
Evicted(pool) == kSubset(CacheCap, pool)

\* add_to_cache: refresh an entry of (a, i), else (unless delayed) insert
\* one: into a full bucket by replacing its LFU entry, else into an empty
\* slot, calling evict() when free_size was already negative
AddToCache(a, i, k) ==
    LET e == [a |-> a, i |-> i, fp |-> Fp[k]]
        old == {c \in icache : c.a = a /\ c.i = i}
    IN  CASE ~SpecRead \/ CacheCap = 0 -> UNCHANGED cvars      \* is_disabled
          [] old # {} -> icache' = (icache \ old) \cup {e} /\ UNCHANGED idelay
          [] idelay > 0 -> idelay' = idelay - 1 /\ UNCHANGED icache
          [] OTHER ->
               \/ \E lfu \in icache : icache' = (icache \ {lfu}) \cup {e} /\ UNCHANGED idelay
               \/ Cardinality(icache) <= CacheCap /\ icache' = icache \cup {e} /\ UNCHANGED idelay
               \/ /\ Cardinality(icache) > CacheCap
                  /\ idelay' = EvictDelay
                  /\ \E keep \in Evicted(icache \cup {e}) : icache' = keep

\* search_idx_from_cache(leaf, hash_idx, (hash_idx + neighborSize) % Span):
\* the slots from l_idx to r_idx, both included, wrapping past the end
SpecRange(hash) == {(hash + d) % Span : d \in 0..H}

\* the slots of leaf a cached with k's fingerprint (FOOTPRINT_SPECULATIVE_READ)
SpecCands(a, k) == {c.i : c \in {e \in icache : e.a = a /\ e.fp = Fp[k] /\ e.i \in SpecRange(Hash[k])}}

\* Seeded fault: the entry at the cached slot is used whatever its key.
SpecHitAny(ent, k) == ent.key # KNull

\* speculative_read: the entry at the cached slot is used only if its key is k
SpecHit(ent, k) == ent.key = k

\* Seeded fault: a segment that wraps past the last slot is cut there.
SegmentWritesNoWrap(a, rec, l, r) ==
    {[a |-> a, i |-> i, e |-> rec[i]] :
        i \in {j \in IF l <= r THEN l..r ELSE l..Span-1 : rec[j] # leaf[a].rec[j]}}

\* a segment write of slots [l, r], one step per slot; a slot whose entry
\* is rewritten unchanged is left out, since readers cannot tell it landed
SegmentWrites(a, rec, l, r) ==
    {[a |-> a, i |-> i, e |-> rec[i]] :
        i \in {j \in IF l <= r THEN l..r ELSE (0..r) \cup (l..Span-1) :
                 rec[j] # leaf[a].rec[j]}}

\* the value of k in the reference map changes only when an operation starts
SeenNext == seen' = [r \in Readers |->
                       IF rd'[r].pc \in {"spec", "read"} THEN seen[r] \cup {ref'[rd'[r].k]} ELSE seen[r]]

StartOp(k, v) ==
    /\ ops' = ops + 1
    /\ prev' = ref
    /\ ref' = [ref EXCEPT ![k] = v]

\* leaf_node_insert (upsert) of k with v, up to its writes
Insert(k, v) ==
    LET a == Covering(k)
        L == leaf[a]
        l == Hash[k]
        n == IF VALock THEN ReadEntryNum(vac[a], l) ELSE Span
        view == IF n < Span
                THEN [i \in Slots |-> IF i \in ReadSet(l, n) THEN L.rec[i] ELSE EmptyEntry]
                ELSE L.rec
        same == {i \in Slots : view[i].key = k}
        ins == HopscotchInsert(view, k, v, n)
        sk == SplitKey(L.rec, k)
        half == IF k < sk THEN StayHalf(L.rec, sk) ELSE MoveHalf(L.rec, sk)
        loc == HopscotchInsert(half, k, v, Span)
        stay == IF k < sk THEN loc.rec ELSE StayHalf(L.rec, sk)
        move == IF k < sk THEN MoveHalf(L.rec, sk) ELSE loc.rec
        s == nLeaves + 1
    IN
    /\ WriterIdle /\ ops < MaxOps
    /\ StartOp(k, v)
    /\ UNCHANGED <<rd, icache, idelay>> /\ SeenNext
    /\ CASE n < Span /\ \A i \in ReadSet(l, n) : view[i].key # KNull ->
              \* assert(read_entry_num == leafSpanSize || has_empty)
              abort' = "has_empty" /\ UNCHANGED <<leaf, vac, nLeaves, wslots, wnodes>>
         [] same # {} ->
              \* entry_write_and_unlock of the first slot holding k
              /\ wslots' = {[a |-> a, i |-> Min(same),
                             e |-> [view[Min(same)] EXCEPT !.val = v]]}
              /\ UNCHANGED <<leaf, vac, nLeaves, wnodes, abort>>
         [] ins.ok ->
              \* segment_write_and_unlock of [hash_idx, empty_idx]
              /\ wslots' = SegmentWrites(a, ins.rec, l, ins.e)
              /\ vac' = IF VALock
                        THEN [vac EXCEPT ![a] = UpdateVacancy(@, l, ins.e,
                                 {i \in ReadSet(l, ((ins.e - l) % Span) + 1) : ins.rec[i].key = KNull})]
                        ELSE vac
              /\ UNCHANGED <<leaf, nLeaves, wnodes, abort>>
         [] Len(CriticalKeys(L.rec, k)) = 0 ->
              \* assert(!critical_keys.empty()) in hopscotch_get_split_key
              abort' = "critical" /\ UNCHANGED <<leaf, vac, nLeaves, wslots, wnodes>>
         [] ~loc.ok ->
              \* assert(j >= 0) / assert(false) in hopscotch_insert_locally
              abort' = "insert_locally" /\ UNCHANGED <<leaf, vac, nLeaves, wslots, wnodes>>
         [] OTHER ->
              \* hopscotch_split_and_unlock: write the sibling, then the leaf
              /\ nLeaves' = s
              /\ wnodes' = << [a |-> s, node |-> [lo |-> sk, hi |-> L.hi, sib |-> L.sib,
                                                   nv |-> 0, rec |-> move]],
                              [a |-> a, node |-> [lo |-> L.lo, hi |-> sk, sib |-> s,
                                                   nv |-> L.nv + 1, rec |-> stay]] >>
              /\ vac' = IF VALock
                        THEN [vac EXCEPT ![a] = LeafVacancy(stay), ![s] = LeafVacancy(move)]
                        ELSE vac
              /\ UNCHANGED <<leaf, wslots, abort>>

\* leaf_node_update (hopscotch branch) of an existing key k: under the
\* latch, the speculative read of a cached slot (goto update_entry on a
\* hit), else the search of the neighbourhood; then add_to_cache of the
\* slot and the entry write
Update(k, v) ==
    LET a == Covering(k)
        rec == leaf[a].rec
        found == {j \in 0..H-1 : Get(rec, Hash[k] + j).key = k}
        cands == SpecCands(a, k)
    IN
    /\ WriterIdle /\ ops < MaxOps
    /\ ref[k] # VNull
    /\ StartOp(k, v)
    /\ \E c \in IF cands = {} THEN {NoSlot} ELSE cands :
         LET hit == c # NoSlot /\ SpecHit(rec[c], k)
             i == IF hit THEN c ELSE (Hash[k] + Min(found)) % Span
         IN  IF ~hit /\ found = {}
             THEN abort' = "update" /\ UNCHANGED <<wslots, icache, idelay>>  \* assert(j != neighborSize)
             ELSE /\ wslots' = {[a |-> a, i |-> i, e |-> [rec[i] EXCEPT !.val = v]]}
                  /\ AddToCache(a, i, k)
                  /\ UNCHANGED abort
    /\ UNCHANGED <<leaf, vac, nLeaves, wnodes, rd>> /\ SeenNext

\* one entry of a segment write lands
WriteSlot ==
    \E w \in wslots :
        /\ leaf' = [leaf EXCEPT ![w.a].rec[w.i] = w.e]
        /\ wslots' = wslots \ {w}
        /\ prev' = IF wslots' = {} /\ wnodes = <<>> THEN ref ELSE prev
        /\ UNCHANGED <<vac, nLeaves, wnodes, ops, abort, ref, rd, seen, icache, idelay>>

\* the next node write of a split lands
WriteNode ==
    /\ wnodes # <<>>
    /\ leaf' = [leaf EXCEPT ![Head(wnodes).a] = Head(wnodes).node]
    /\ wnodes' = Tail(wnodes)
    /\ prev' = IF wnodes' = <<>> /\ wslots = {} THEN ref ELSE prev
    /\ UNCHANGED <<vac, nLeaves, wslots, ops, abort, ref, rd, seen, icache, idelay>>

-----------------------------------------------------------------------------
(* Readers: leaf_node_search with the hopscotch_search of its neighbourhood *)

LSlots(hash) == 0..(hash + H - Span - 1)          \* segment_l, read with the header
RSlots(hash) == hash..(Min({Span, hash + H}) - 1)  \* segment_r

\* a search of k enters the leaf level at a leaf at or left of k (the
\* internal levels and the cache, modelled in BLinkTree, route it there);
\* with SPECULATIVE_READ it first looks up a cached slot of that leaf
SearchStart(r, k) ==
    /\ rd[r].pc = "idle" /\ rd[r].n < MaxReads
    /\ \E a \in Chain(1) :
          /\ leaf[a].lo <= k
          /\ \E c \in IF SpecCands(a, k) = {} THEN {NoSlot} ELSE SpecCands(a, k) :
                rd' = [rd EXCEPT ![r] = [NoRead EXCEPT !.pc = IF c = NoSlot THEN "read" ELSE "spec",
                                                       !.k = k, !.a = a, !.si = c,
                                                       !.n = rd[r].n + 1]]
    /\ seen' = [seen EXCEPT ![r] = {ref[k]} \cup (IF WriterIdle THEN {} ELSE {prev[k]})]
    /\ UNCHANGED <<leaf, vac, nLeaves, wslots, wnodes, ops, abort, ref, prev, icache, idelay>>

\* rs[0]: the header with the node version and the wrapped part
ReadHeader(r) ==
    LET s == rd[r]  L == leaf[s.a]
    IN  /\ s.pc = "read" /\ "H" \notin s.got
        /\ rd' = [rd EXCEPT ![r].got = @ \cup {"H"}, ![r].hi = L.hi, ![r].sib = L.sib,
                            ![r].nvH = L.nv,
                            ![r].view = [i \in Slots |-> IF i \in LSlots(Hash[s.k])
                                                        THEN L.rec[i] ELSE @[i]]]
        /\ UNCHANGED <<leaf, vac, nLeaves, wslots, wnodes, ops, abort, ref, prev, seen, icache, idelay>>

\* rs[1]: the neighbourhood up to the end of the leaf
ReadSegment(r) ==
    LET s == rd[r]  L == leaf[s.a]
    IN  /\ s.pc = "read" /\ "R" \notin s.got
        /\ rd' = [rd EXCEPT ![r].got = @ \cup {"R"}, ![r].nvR = L.nv,
                            ![r].view = [i \in Slots |-> IF i \in RSlots(Hash[s.k])
                                                        THEN L.rec[i] ELSE @[i]]]
        /\ UNCHANGED <<leaf, vac, nLeaves, wslots, wnodes, ops, abort, ref, prev, seen, icache, idelay>>

\* leaf_entry_read: one batch of two reads, the header (rs[0]) and the
\* cached slot's entry (rs[1]), each landing at its own moment
LeafEntryRead(r) ==
    LET s == rd[r]  L == leaf[s.a]
    IN  /\ s.pc = "spec"
        /\ \/ "H" \notin s.got /\ rd' = [rd EXCEPT ![r].got = @ \cup {"H"}, ![r].nvH = L.nv]
           \/ "E" \notin s.got /\ rd' = [rd EXCEPT ![r].got = @ \cup {"E"}, ![r].nvR = L.nv,
                                                     ![r].ent = L.rec[s.si]]
        /\ UNCHANGED <<leaf, vac, nLeaves, wslots, wnodes, ops, abort, ref, prev, seen, icache, idelay>>

\* speculative_read after leaf_entry_read: re-read on a node-version
\* mismatch; on a key match return the value and add_to_cache the slot;
\* else fall back to the hopscotch_search of the same leaf
SpeculativeCheck(r) ==
    LET s == rd[r]
    IN  /\ s.pc = "spec" /\ s.got = {"H", "E"}
        /\ CASE s.nvH # s.nvR -> rd' = [rd EXCEPT ![r].got = {}] /\ UNCHANGED cvars
             [] SpecHit(s.ent, s.k) ->
                  /\ rd' = [rd EXCEPT ![r] = [NoRead EXCEPT !.pc = "done", !.k = s.k,
                                                             !.res = s.ent.val, !.n = s.n]]
                  /\ AddToCache(s.a, s.si, s.k)
             [] OTHER -> rd' = [rd EXCEPT ![r] = [NoRead EXCEPT !.pc = "read", !.k = s.k,
                                                                !.a = s.a, !.n = s.n]]
                         /\ UNCHANGED cvars
        /\ UNCHANGED <<leaf, vac, nLeaves, wslots, wnodes, ops, abort, ref, prev, seen>>

\* Seeded fault: the rebuilt hop bitmap is not compared with the stored one.
SearchCheckNoBitmap(r) ==
    LET s == rd[r]
        hash == Hash[s.k]
        nb(j) == Get(s.view, hash + j)
        mine == {j \in 0..H-1 : nb(j).key # KNull /\ Hash[nb(j).key] = hash}
        hit == {j \in mine : nb(j).key = s.k}
        \* a re-read overwrites the whole snapshot, so it is dropped here
        again == [rd EXCEPT ![r] = [NoRead EXCEPT !.pc = "read", !.k = s.k, !.a = s.a,
                                                  !.n = s.n]]
        done(v) == [rd EXCEPT ![r] = [NoRead EXCEPT !.pc = "done", !.k = s.k,
                                                    !.res = v, !.n = s.n]]
    IN  /\ s.pc = "read" /\ s.got = {"H", "R"}
        /\ CASE s.nvH # s.nvR -> rd' = again /\ UNCHANGED cvars         \* goto re_read
             [] s.k >= s.hi -> rd' = [again EXCEPT ![r].a = s.sib]      \* turn right
                               /\ UNCHANGED cvars
             [] hit # {} -> rd' = done(nb(Min(hit)).val)
                              /\ AddToCache(s.a, (hash + Min(hit)) % Span, s.k)
             [] OTHER -> rd' = done(VNull) /\ UNCHANGED cvars
        /\ UNCHANGED <<leaf, vac, nLeaves, wslots, wnodes, ops, abort, ref, prev, seen>>

\* Seeded fault: turning right re-reads the same leaf.
SearchCheckSameLeaf(r) ==
    LET s == rd[r]
        hash == Hash[s.k]
        nb(j) == Get(s.view, hash + j)
        mine == {j \in 0..H-1 : nb(j).key # KNull /\ Hash[nb(j).key] = hash}
        hit == {j \in mine : nb(j).key = s.k}
        \* a re-read overwrites the whole snapshot, so it is dropped here
        again == [rd EXCEPT ![r] = [NoRead EXCEPT !.pc = "read", !.k = s.k, !.a = s.a,
                                                  !.n = s.n]]
        done(v) == [rd EXCEPT ![r] = [NoRead EXCEPT !.pc = "done", !.k = s.k,
                                                    !.res = v, !.n = s.n]]
    IN  /\ s.pc = "read" /\ s.got = {"H", "R"}
        /\ CASE s.nvH # s.nvR -> rd' = again /\ UNCHANGED cvars         \* goto re_read
             [] s.k >= s.hi -> rd' = again /\ UNCHANGED cvars          \* turn right
             [] hit # {} -> rd' = done(nb(Min(hit)).val)
                              /\ AddToCache(s.a, (hash + Min(hit)) % Span, s.k)
             [] mine # s.view[hash].hop -> rd' = again /\ UNCHANGED cvars \* goto re_read
             [] OTHER -> rd' = done(VNull) /\ UNCHANGED cvars
        /\ UNCHANGED <<leaf, vac, nLeaves, wslots, wnodes, ops, abort, ref, prev, seen>>

\* the checks after both reads: node versions, turn right, scan of the
\* neighbourhood, and the rebuilt hop bitmap against the stored one
SearchCheck(r) ==
    LET s == rd[r]
        hash == Hash[s.k]
        nb(j) == Get(s.view, hash + j)
        mine == {j \in 0..H-1 : nb(j).key # KNull /\ Hash[nb(j).key] = hash}
        hit == {j \in mine : nb(j).key = s.k}
        \* a re-read overwrites the whole snapshot, so it is dropped here
        again == [rd EXCEPT ![r] = [NoRead EXCEPT !.pc = "read", !.k = s.k, !.a = s.a,
                                                  !.n = s.n]]
        done(v) == [rd EXCEPT ![r] = [NoRead EXCEPT !.pc = "done", !.k = s.k,
                                                    !.res = v, !.n = s.n]]
    IN  /\ s.pc = "read" /\ s.got = {"H", "R"}
        /\ CASE s.nvH # s.nvR -> rd' = again /\ UNCHANGED cvars         \* goto re_read
             [] s.k >= s.hi -> rd' = [again EXCEPT ![r].a = s.sib]      \* turn right
                               /\ UNCHANGED cvars
             [] hit # {} -> rd' = done(nb(Min(hit)).val)
                              /\ AddToCache(s.a, (hash + Min(hit)) % Span, s.k)
             [] mine # s.view[hash].hop -> rd' = again /\ UNCHANGED cvars \* goto re_read
             [] OTHER -> rd' = done(VNull) /\ UNCHANGED cvars
        /\ UNCHANGED <<leaf, vac, nLeaves, wslots, wnodes, ops, abort, ref, prev, seen>>

\* the search returns to its client
SearchReturn(r) ==
    /\ rd[r].pc = "done"
    /\ rd' = [rd EXCEPT ![r] = [NoRead EXCEPT !.n = rd[r].n]]
    /\ seen' = [seen EXCEPT ![r] = {}]
    /\ UNCHANGED <<leaf, vac, nLeaves, wslots, wnodes, ops, abort, ref, prev, icache, idelay>>

Reader(r) ==
    \/ \E k \in ReadKeys : SearchStart(r, k)
    \/ LeafEntryRead(r) \/ SpeculativeCheck(r)
    \/ ReadHeader(r) \/ ReadSegment(r) \/ SearchCheck(r) \/ SearchReturn(r)

Writer ==
    \/ \E k \in Keys, v \in Vals : Insert(k, v) \/ Update(k, v)
    \/ WriteSlot \/ WriteNode

(* The writer has run its operations or stopped at a failed assertion, and *)
(* every reader has run its searches.                                      *)
Finished ==
    /\ (WriterIdle /\ ops = MaxOps) \/ abort # "none"
    /\ \A r \in Readers : rd[r].pc = "idle" /\ rd[r].n = MaxReads
    /\ UNCHANGED vars

Next == Writer \/ (\E r \in Readers : Reader(r)) \/ Finished

\* The writer's posted RDMA writes complete, and the coroutine scheduler
\* (run_coroutine) keeps polling every reader.  Starting an operation is the
\* client's choice and is not required.
Fairness == /\ WF_vars(WriteSlot) /\ WF_vars(WriteNode)
            /\ \A r \in Readers : WF_vars(Reader(r))

Spec == Init /\ [][Next]_vars /\ Fairness

-----------------------------------------------------------------------------
(******************************* Properties ********************************)

Entry == [key: Keys \cup {Ghost, KNull}, val: Vals \cup {VNull}, hop: SUBSET (0..H-1)]
Leaf == [lo: Keys \cup {KNull}, hi: Keys \cup {Top, 0}, sib: Addrs \cup {NoAddr},
         nv: Nat, rec: [Slots -> Entry]]

(* Type invariant.                                                         *)
TypeOK ==
    /\ leaf \in [Addrs -> Leaf]
    /\ vac \in [Addrs -> SUBSET Buckets]
    /\ nLeaves \in Addrs
    /\ wslots \subseteq [a: Addrs, i: Slots, e: Entry]
    /\ wnodes \in Seq([a: Addrs, node: Leaf])
    /\ ops \in 0..MaxOps
    /\ abort \in {"none", "has_empty", "critical", "insert_locally", "update"}
    /\ ref \in [Keys -> Vals \cup {VNull}] /\ prev \in [Keys -> Vals \cup {VNull}]
    /\ \A r \in Readers : /\ rd[r].pc \in {"idle", "spec", "read", "done"}
                          /\ rd[r].a \in Addrs \cup {NoAddr}
                          /\ rd[r].got \subseteq {"H", "E", "R"}
                          /\ rd[r].si \in Slots \cup {NoSlot}
                          /\ rd[r].n \in 0..MaxReads
    /\ seen \in [Readers -> SUBSET (Vals \cup {VNull})]
    /\ icache \subseteq [a: Addrs, i: Slots, fp: {Fp[k] : k \in Keys}]
    /\ Cardinality(icache) <= CacheCap + 1
    /\ idelay \in 0..EvictDelay

(* The hopscotch invariant (spec.md section 2): whenever no write is in    *)
(* flight, every key of a leaf lies fewer than neighborSize slots after    *)
(* its hash slot and is recorded in that slot's hop bitmap, and every bit  *)
(* of a hop bitmap points at a key hashed to that slot.  Hops, splits and  *)
(* the split's insert_locally must all preserve it.                        *)
HopscotchInvariant ==
    WriterIdle =>
      \A a \in Chain(1), i \in Slots :
        LET rec == leaf[a].rec
        IN  /\ rec[i].key # KNull =>
                 LET h == Hash[rec[i].key] IN (i - h) % Span \in rec[h].hop
            /\ \A d \in rec[i].hop :
                 LET e == rec[(i + d) % Span] IN e.key # KNull /\ Hash[e.key] = i

(* The vacancy bitmap of the lock word never claims a vacancy that is not  *)
(* there: a clear bit means its bucket has an empty slot.  The narrowed    *)
(* read of leaf_node_insert (get_read_entry_num_from_bitmap) relies on it. *)
VacancySound ==
    WriterIdle =>
      \A a \in Chain(1) : \A b \in Buckets \ vac[a] :
        \E i \in BucketFirst(b)..BucketLast(b) : leaf[a].rec[i].key = KNull

(* No assertion of the insert and update paths fails: the narrowed read    *)
(* finds an empty slot, a split finds a critical key and insert_locally    *)
(* always places the new key (Tree.cpp:720 is assert(false)), and an       *)
(* update finds its key in the neighbourhood.                              *)
AssertionsHold == abort = "none"

\* the value leaf_node_search finds for k in memory
Lookup(k) ==
    LET rec == leaf[Covering(k)].rec
        hit == {j \in 0..H-1 : Get(rec, Hash[k] + j).key = k}
    IN  IF hit = {} THEN VNull ELSE Get(rec, Hash[k] + Min(hit)).val

(* Whenever no write is in flight, a search of every key finds the value   *)
(* of the last insert or update of it (spec.md: the visible mapping equals *)
(* the reference map at quiescent points; insert has upsert semantics).    *)
MapMatchesReference == WriterIdle => \A k \in Keys : Lookup(k) = ref[k]

(* A lock-free search returns a value its key held at some moment during   *)
(* the search (or, with a write in flight, the value before it): torn      *)
(* segment writes, hops and splits are caught by the node-version and      *)
(* hop-bitmap checks and re-read.                                          *)
SearchRegular == \A r \in Readers : rd[r].pc = "done" => rd[r].res \in seen[r]

(* Every search returns: the re-read loops of hopscotch_search and         *)
(* leaf_node_search end once the writer's writes have landed.              *)
SearchTerminates == \A r \in Readers : rd[r].pc = "read" ~> rd[r].pc = "done"

=============================================================================
