---------------------------- MODULE AbstractMap -----------------------------
(***************************************************************************)
(* What the hash table promises: each key has at most one value, which     *)
(* stays its value until the key is removed.  An iteration meets every key *)
(* that was in the map when it began exactly once, those it removes        *)
(* itself included.                                                        *)
(***************************************************************************)
EXTENDS Integers

CONSTANTS Key, Value, NULL

VARIABLES
    dict,      \* the value of each key, NULL for none
    taken,     \* the value the last removal returned
    ahead      \* the keys an iteration still has to meet, its current one included

mapVars == <<dict, taken, ahead>>

Present == {k \in Key : dict[k] # NULL}

Init == dict = [k \in Key |-> NULL] /\ taken = NULL /\ ahead = {}

\* The owner of a map adds a key only when it is absent, and not in the middle of an iteration.
Put(k, v) == /\ k \notin Present
             /\ dict' = [dict EXCEPT ![k] = v]
             /\ taken' = NULL
             /\ ahead' = {}

Drop(k) == /\ taken' = dict[k]
           /\ dict' = [dict EXCEPT ![k] = NULL]
           /\ ahead' = {}

Begin == ahead' = Present /\ taken' = NULL /\ UNCHANGED dict

Pass(k) == k \in ahead /\ ahead' = ahead \ {k} /\ taken' = NULL /\ UNCHANGED dict

DropHere(k) == /\ k \in ahead
               /\ dict' = [dict EXCEPT ![k] = NULL]
               /\ ahead' = ahead \ {k}
               /\ taken' = NULL

\* An iteration that is put on a key meets that key next.
Find(k) == k \in Present /\ k \in ahead' /\ ahead' \subseteq Present /\ taken' = NULL /\ UNCHANGED dict

\* A look at the map, and an iteration that is already over.
Look == taken' = NULL /\ UNCHANGED <<dict, ahead>>

Next ==
    \/ Look
    \/ \E k \in Key, v \in Value : Put(k, v)
    \/ \E k \in Key : Drop(k) \/ Pass(k) \/ DropHere(k) \/ Find(k)
    \/ Begin

Spec == Init /\ [][Next]_mapVars
=============================================================================
