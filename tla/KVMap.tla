------------------------------- MODULE KVMap -------------------------------
(***************************************************************************)
(* What the CHIME tree promises its clients (Tree::insert, Tree::update,   *)
(* Tree::search): a map from keys to values in which every operation takes *)
(* effect atomically at one point between its invocation and its return.  *)
(* Each client thread runs one operation at a time.  There is no delete.   *)
(* update is only ever called on a key that is present (the spec's strict *)
(* update; the code asserts it).                                           *)
(***************************************************************************)
EXTENDS Naturals

CONSTANTS Threads,     \* client threads / coroutines
          UserKeys,    \* keys the workload may use
          Vals,        \* values the workload may write
          ValueNull,   \* define::kValueNull: "no value"
          Ops,         \* {"insert", "update", "search"}
          InitMap      \* what the map holds when the clients start

NoOp == "none"

VARIABLES amap,   \* the abstract map, key -> value or ValueNull
          apc,    \* "idle" or "pending" per thread
          aop,    \* the thread's current (or last) operation
          akey,   \* its key
          aval,   \* its value argument
          ares    \* the value its last search returned

avars == <<amap, apc, aop, akey, aval, ares>>

\* The map holding InitMap, no operation running.
AInit == /\ amap = InitMap
         /\ apc  = [t \in Threads |-> "idle"]
         /\ aop  = [t \in Threads |-> NoOp]
         /\ akey = [t \in Threads |-> 0]
         /\ aval = [t \in Threads |-> ValueNull]
         /\ ares = [t \in Threads |-> ValueNull]

\* A thread invokes an operation; update only on a present key.
Invoke(t) ==
  /\ apc[t] = "idle"
  /\ \E o \in Ops, k \in UserKeys, v \in Vals :
       /\ o = "update" => amap[k] # ValueNull
       /\ aop'  = [aop EXCEPT ![t] = o]
       /\ akey' = [akey EXCEPT ![t] = k]
       /\ aval' = [aval EXCEPT ![t] = IF o = "search" THEN ValueNull ELSE v]
  /\ apc'  = [apc EXCEPT ![t] = "pending"]
  /\ ares' = [ares EXCEPT ![t] = ValueNull]
  /\ UNCHANGED amap

\* The pending operation takes effect and returns.
TakeEffect(t) ==
  /\ apc[t] = "pending"
  /\ apc' = [apc EXCEPT ![t] = "idle"]
  /\ IF aop[t] = "search"
       THEN /\ ares' = [ares EXCEPT ![t] = amap[akey[t]]]
            /\ UNCHANGED amap
       ELSE /\ amap' = [amap EXCEPT ![akey[t]] = aval[t]]
            /\ UNCHANGED ares
  /\ UNCHANGED <<aop, akey, aval>>

ANext == \E t \in Threads : Invoke(t) \/ TakeEffect(t)

ASpec == AInit /\ [][ANext]_avars
=============================================================================
