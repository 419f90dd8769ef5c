----------------------------- MODULE MCBLinkTree -----------------------------
(* Model-checking instance of BLinkTree: small spans so that a handful of  *)
(* inserts splits leaves, grows the root and reaches the parent-insert     *)
(* fallbacks.                                                              *)
EXTENDS BLinkTree

CONSTANTS t1, t2, v1, v2

MCThreads == {t1, t2}
MCVals    == {v1, v2}
AllOps    == {"insert", "update", "search"}

\* Small workload: both threads run two operations of any kind.
SmallMaxOps == [t \in MCThreads |-> 2]
SmallOpsOf  == [t \in MCThreads |-> AllOps]
SmallKeysOf == [t \in MCThreads |-> 1..3]

\* Deep workload, keys partitioned between the clients: t1 loads keys 1..5,
\* which splits an internal node and grows the tree to three levels, while
\* t2 inserts key 6 once; t2 may have read the root while it was still a
\* leaf and split a leaf of the grown tree.
DeepMaxOps == (t1 :> 5 @@ t2 :> 1)
DeepOpsOf  == [t \in MCThreads |-> {"insert"}]
DeepKeysOf == (t1 :> 1..5 @@ t2 :> {6})
DeepVals   == {v1}
\* Writes on the loaded tree use v2, so they differ from the loaded v1.
CacheVals  == {v2}
(* A tree already loaded: the state BLinkTree reaches when one client      *)
(* inserts 4, 8, 12, 16, 2, 6, 10, 14, 18, 20 (value v1) in that order     *)
(* with MaxKey = 20, so Ghost = 21 and KeyMax = 22.  Three levels: the     *)
(* level-1 node 7 = [12, 22) is full (three records) over the full leaves *)
(* 5 = [12, 16) and 10 = [18, 21), so one leaf split under it splits it    *)
(* and a second leaf split still has a key to take.  The clients that run *)
(* on it start with an empty TreeCache, as a compute node that            *)
(* (re)starts against a loaded memory pool does.                           *)
LoadedMem ==
  [a \in Addr |->
     CASE a = 1  -> LeafNode(KeyMin, 4, 6, 2 :> v1)
       [] a = 2  -> LeafNode(Ghost, KeyMax, Widest, Ghost :> ValueNull)
       [] a = 3  -> InternalNode(1, KeyMin, 12, 7, 1,
                                 <<[key |-> 4, ptr |-> 6], [key |-> 8, ptr |-> 4]>>)
       [] a = 4  -> LeafNode(8, 12, 5, (8 :> v1) @@ (10 :> v1))
       [] a = 5  -> LeafNode(12, 16, 9, (12 :> v1) @@ (14 :> v1))
       [] a = 6  -> LeafNode(4, 8, 4, (4 :> v1) @@ (6 :> v1))
       [] a = 7  -> InternalNode(1, 12, KeyMax, Null, 5,
                                 <<[key |-> 16, ptr |-> 9], [key |-> 18, ptr |-> 10],
                                   [key |-> Ghost, ptr |-> 2]>>)
       [] a = 8  -> InternalNode(2, KeyMin, KeyMax, Null, 3, <<[key |-> 12, ptr |-> 7]>>)
       [] a = 9  -> LeafNode(16, 18, 10, 16 :> v1)
       [] a = 10 -> LeafNode(18, Ghost, 2, (18 :> v1) @@ (20 :> v1))
       [] OTHER  -> FreeNode]

LoadedInit ==
  /\ mem      = LoadedMem
  /\ lock     = [a \in Addr |-> FALSE]
  /\ root     = [level |-> 3, ptr |-> 8]
  /\ nextAddr = 11
  /\ InitClients

LoadedSpec == LoadedInit /\ [][Next]_vars /\ Fairness

\* The map the loaded tree holds (AbsMap of LoadedMem).
LoadedMap == [k \in UserKeys |-> IF k \in {2, 4, 6, 8, 10, 12, 14, 16, 18, 20}
                                 THEN v1 ELSE ValueNull]

(* Cache workload on the loaded tree.  t1 inserts 13 (splitting leaf 5 and *)
(* then node 7) and 5 (under node 3, a third cached node).  t2 inserts,   *)
(* updates or searches 19 and 14: 19 splits leaf 10 after node 7 may have *)
(* split under a stale cached root; 14 moves to a new leaf when leaf 5     *)
(* splits under a stale cached node 7.                                      *)
CacheMaxOps == [t \in MCThreads |-> 2]
CacheOpsOf  == (t1 :> {"insert"} @@ t2 :> AllOps)
CacheKeysOf == (t1 :> {13, 5} @@ t2 :> {19, 14})
(* Range workload on the loaded tree.  t2 searches 13 (caching the root  *)
(* and node 7) or runs range_query(13, 15); t1 inserts 13, splitting leaf *)
(* 5 and node 7 under t2's cached images, or updates 12 or 13 while the    *)
(* range is read.                                                          *)
RangeMaxOps == [t \in MCThreads |-> 2]
RangeOpsOf  == (t1 :> {"insert", "update"} @@ t2 :> {"search", "range"})
RangeKeysOf == (t1 :> {13, 12} @@ t2 :> {13})
\* Threads are interchangeable.
ThreadSymmetry == Permutations(MCThreads)
=============================================================================
