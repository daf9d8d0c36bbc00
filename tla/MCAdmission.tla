---- MODULE MCAdmission ----
(* Admission with a few requests of two clients for three codes. *)
EXTENDS Admission, TLC

MCSymmetry == Permutations(Requests) \cup Permutations(Keys) \cup Permutations(Codes)
====
