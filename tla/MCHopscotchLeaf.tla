--------------------------- MODULE MCHopscotchLeaf ---------------------------
(* Hash functions for the TLC instances of HopscotchLeaf: MCHash for a     *)
(* five-slot leaf with neighbourhood three and three vacancy buckets of one *)
(* or two slots, MCHash4 for a four-slot leaf with neighbourhood two.  Both *)
(* put several keys on one slot and let a neighbourhood wrap.               *)
EXTENDS HopscotchLeaf

\* hash slots: 1 and 3 on slot 0, 2 and 4 on slot 4 (their neighbourhood
\* wraps), 5 on slot 2, the ghost on slot 3
MCHash == (1 :> 0) @@ (2 :> 4) @@ (3 :> 0) @@ (4 :> 4) @@ (5 :> 2) @@ (9 :> 3)

\* A four-slot leaf with neighbourhood two, for the runs with readers: the
\* ghost key sits on slot 1, keys 1 and 3 hash to slot 0 (the second displaces
\* the ghost), 2 and 4 to slot 3 (their neighbourhood wraps to slot 0).
MCHash4 == (1 :> 0) @@ (2 :> 3) @@ (3 :> 0) @@ (4 :> 3) @@ (9 :> 1)

\* key2fp with collisions: keys that share a hash slot share a fingerprint,
\* so a cached slot of one is a candidate for the other
MCFp == (1 :> 1) @@ (2 :> 2) @@ (3 :> 1) @@ (4 :> 2) @@ (5 :> 3)
=============================================================================
