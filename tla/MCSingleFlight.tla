---- MODULE MCSingleFlight ----
(* SingleFlight with a handful of callers of one key. *)
EXTENDS SingleFlight, TLC

CallerSymmetry == Permutations(Callers)
====
