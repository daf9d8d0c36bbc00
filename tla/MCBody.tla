---- MODULE MCBody ----
(***************************************************************************)
(* Blocks of 16 bytes fetched in parts of 2, 4 or 8 and a head of 8: MB,   *)
(* MAX_CHUNK and PRIME_BYTES keep their proportions. The sizes are those   *)
(* of a file of one part, of one block and of two or three that end        *)
(* inside a part, with Ranges that start and end anywhere in them.         *)
(***************************************************************************)
EXTENDS Body
====
