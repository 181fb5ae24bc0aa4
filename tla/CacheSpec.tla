------------------------------ MODULE CacheSpec ------------------------------
(***************************************************************************)
(* What kapitan's compile cache promises, without files or locks: a        *)
(* write-once map from input hashes to compiled outputs.  A lookup that is *)
(* served returns the value the map holds at that moment; the cache may    *)
(* always decline to serve, since a miss only costs a recomputation.       *)
(***************************************************************************)
CONSTANTS Procs, Keys, Values, None

VARIABLES
  map,      \* map[k]: the stored output of key k, or None
  served    \* served[p]: the key and output process p was last served, or None

vars == <<map, served>>

Init ==
  /\ map = [k \in Keys |-> None]
  /\ served = [p \in Procs |-> None]

\* The first output stored for a key is the one that stays.
Fill(k, v) ==
  /\ map[k] = None
  /\ map' = [map EXCEPT ![k] = v]
  /\ UNCHANGED served

Serve(p, k) ==
  /\ map[k] # None
  /\ served' = [served EXCEPT ![p] = [key |-> k, value |-> map[k]]]
  /\ UNCHANGED map

\* Processes forget what they were served: they are done with it, or die.
Forget(ps) ==
  /\ served' = [p \in Procs |-> IF p \in ps THEN None ELSE served[p]]
  /\ UNCHANGED map

Next ==
  \/ \E k \in Keys, v \in Values : Fill(k, v)
  \/ \E p \in Procs, k \in Keys : Serve(p, k)
  \/ \E ps \in SUBSET Procs : Forget(ps)

Spec == Init /\ [][Next]_vars
=============================================================================
