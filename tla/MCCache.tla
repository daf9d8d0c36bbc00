---- MODULE MCCache ----
(* Cache on two keys of two prefixes and one shard. *)
EXTENDS Cache, TLC

CONSTANTS k1, k2

(* A clear of everything, and one of each prefix. *)
ClearAll == {{k1, k2}}

ClearPrefix == {{k1}, {k2}}

(* Of the other prefix, with the buffered writes of k1. *)
ClearSome == {{k2}}

NoClear == {}

(* k2 is there to push k1 out of the shard, which holds one slot. *)
MCWrites == (k1 :> 2) @@ (k2 :> 1)

TaskSymmetry == Permutations(Threads) \cup Permutations(Flushers)
====
