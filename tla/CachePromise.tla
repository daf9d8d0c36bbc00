---- MODULE CachePromise ----
(***************************************************************************)
(* What the cache promises to those who use it, without a word on layers,  *)
(* buffers, batches and the operations of other threads.  A write gives a  *)
(* key a new version, of which there is one value; from then on copies of  *)
(* it may get lost (evicted, expired, swept, cleared, killed), at any time *)
(* and in any order, and older versions may well outlive newer ones.  What *)
(* has got lost for good stays lost: no copy comes back, and none comes    *)
(* back changed.                                                           *)
(***************************************************************************)
EXTENDS Integers

CONSTANT Keys

VARIABLES
    latest, \* version of the last write of each key
    around  \* the values of each key of which there is a copy

vars == <<latest, around>>

Init == latest = [k \in Keys |-> 0] /\ around = [k \in Keys |-> {}]

(* Copies of the keys K get lost, and nothing is added to them.            *)
Fewer(K) == \A k \in K : around'[k] \subseteq around[k]

Lose == Fewer(Keys) /\ UNCHANGED latest

(* A put, or an invalidate, which is a write of no value.                  *)
Write(k) ==
    /\ latest' = [latest EXCEPT ![k] = @ + 1]
    /\ \A x, y \in around'[k] \ around[k] : x.v = latest'[k] /\ x = y
    /\ Fewer(Keys \ {k})

Next == Lose \/ \E k \in Keys : Write(k)

Spec == Init /\ [][Next]_vars

====
