---- MODULE MCColdBudget ----
(* ColdBudget on a small instance for TLC. *)
EXTENDS ColdBudget, TLC

MCSymmetry == Permutations(Calls) \cup Permutations(Keys)
====
