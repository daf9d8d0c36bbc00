---- MODULE Delivery ----
(***************************************************************************)
(* What a client of /api/download/ is promised, without a word on how the  *)
(* bytes are fetched.  It asks for a range of a file; what it has received *)
(* is at every moment a beginning of that range, byte after byte, and the  *)
(* response ends by itself only when it is whole, or when the file turned  *)
(* out to be shorter than the promise.  Any other end is a failure that    *)
(* the client can see.                                                     *)
(***************************************************************************)
EXTENDS Integers

CONSTANT Lengths \* the lengths a file may have

VARIABLES
    phase,       \* of the response
    length,      \* of the file, as it is now
    first, last, \* the range promised
    body         \* what the client has: pairs of a place in the body and a byte of the file

vars == <<phase, length, first, last, body>>

Due == last - first + 1

(* The first n bytes of the range.                                         *)
Upto(n) == {<<i, first + i>> : i \in 0 .. n - 1}

Init ==
    /\ phase = "asked" /\ length \in Lengths
    /\ first = 0 /\ last = 0 /\ body = {}

(* A range of the file as it is known.                                     *)
Promise ==
    /\ phase = "asked"
    /\ phase' = "promised"
    /\ first' \in 0 .. length - 1 /\ last' \in first' .. length - 1
    /\ UNCHANGED <<length, body>>

(* Before the first byte the file may be another one of the same name.     *)
Replace ==
    /\ phase = "promised"
    /\ length' \in Lengths
    /\ UNCHANGED <<phase, first, last, body>>

(* Some more of the range, from where the body was.                        *)
Deliver ==
    /\ phase \in {"promised", "open"}
    /\ phase' = "open"
    /\ \E n \in 0 .. Due : body \subseteq Upto(n) /\ body' = Upto(n)
    /\ UNCHANGED <<length, first, last>>

End ==
    /\ phase = "open"
    /\ last < length => body = Upto(Due)
    /\ phase' = "ended"
    /\ UNCHANGED <<length, first, last, body>>

(* A refusal, an error, a connection that is cut.                          *)
Fail ==
    /\ phase \in {"asked", "promised", "open"}
    /\ phase' = "failed"
    /\ UNCHANGED <<length, first, last, body>>

Next == Promise \/ Replace \/ Deliver \/ End \/ Fail

Spec == Init /\ [][Next]_vars

====
