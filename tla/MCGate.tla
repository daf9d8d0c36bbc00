---- MODULE MCGate ----
(* Gate with two downloads: three windows after the head, and one. *)
EXTENDS Gate, TLC

CONSTANTS s1, s2

MCParts == (s1 :> 5) @@ (s2 :> 3)
====
