---- MODULE Admission ----
(***************************************************************************)
(* The slots a download holds: Limiter::acquire and Guard::drop of         *)
(* src/src/ratelimit.rs, and the stream gate of src/src/download.rs, over  *)
(* the life of a request of /api/download.                                 *)
(*                                                                         *)
(* bodies and titles have a lock each, so acquiring a slot and dropping a  *)
(* guard are two steps, and a refusal by the second counter undoes the     *)
(* first in a step of its own.  A HashMap entry that is absent is a zero.  *)
(***************************************************************************)
EXTENDS Integers, FiniteSets

CONSTANTS
    Requests,   \* the requests that may be under way at once
    Keys,       \* the client keys
    Codes,      \* the short codes (or file ids)
    Local,      \* the key of a client that is exempt
    MaxTitles,  \* max_titles_per_ip, 0 for off
    MaxBodies,  \* max_bodies_per_ip, 0 for off
    MaxStreams  \* permits of download_gate: --max-streams, or very many for 0

ASSUME RequestsAssumption == IsFiniteSet(Requests)

ASSUME LimitsAssumption == MaxTitles \in Nat /\ MaxBodies \in Nat /\ MaxStreams \in Nat

ASSUME LocalAssumption == Local \notin Keys /\ (MaxTitles > 0 \/ MaxBodies > 0)

VARIABLES
    at,       \* where a request is
    key,      \* its client key
    code,     \* its short code
    bodies,   \* client key -> bodies
    pairs,    \* (client key, short code) -> bodies
    perKey,   \* client key -> distinct short codes
    permits   \* who holds a permit of the gate

vars == <<at, key, code, bodies, pairs, perKey, permits>>

Stages == {"idle", "title", "undo", "admitted", "streaming", "dropBody", "dropTitle", "dropPermit"}

(* The key and the code of an idle request mean nothing. *)
Init ==
    /\ at = [r \in Requests |-> "idle"]
    /\ key \in [Requests -> {Local}]
    /\ code \in [Requests -> Codes]
    /\ bodies = [k \in Keys |-> 0]
    /\ pairs = [p \in Keys \X Codes |-> 0]
    /\ perKey = [k \in Keys |-> 0]
    /\ permits = {}

Goto(r, stage) == at' = [at EXCEPT ![r] = stage]

Pair(r) == <<key[r], code[r]>>

(* A counter that goes down and, at zero, out of its map. *)
Less(f, x) == [f EXCEPT ![x] = IF @ > 0 THEN @ - 1 ELSE 0]

More(f, x) == [f EXCEPT ![x] = @ + 1]

-----------------------------------------------------------------------------

(* A local client gets no guard. *)
Exempt(r, c) ==
    /\ at[r] = "idle"
    /\ Goto(r, "admitted")
    /\ key' = [key EXCEPT ![r] = Local]
    /\ code' = [code EXCEPT ![r] = c]
    /\ UNCHANGED <<bodies, pairs, perKey, permits>>

(* Fault: the cap is taken for the last number that is allowed to be there. *)
TakeBodyLate(r, k, c) ==
    /\ at[r] = "idle"
    /\ MaxBodies > 0 => bodies[k] <= MaxBodies
    /\ bodies' = IF MaxBodies > 0 THEN More(bodies, k) ELSE bodies
    /\ key' = [key EXCEPT ![r] = k]
    /\ code' = [code EXCEPT ![r] = c]
    /\ Goto(r, IF MaxTitles > 0 THEN "title" ELSE "admitted")
    /\ UNCHANGED <<pairs, perKey, permits>>

(* acquire, the bodies.  A refusal leaves everything as it is. *)
TakeBody(r, k, c) ==
    /\ at[r] = "idle"
    /\ MaxBodies > 0 => bodies[k] < MaxBodies
    /\ bodies' = IF MaxBodies > 0 THEN More(bodies, k) ELSE bodies
    /\ key' = [key EXCEPT ![r] = k]
    /\ code' = [code EXCEPT ![r] = c]
    /\ Goto(r, IF MaxTitles > 0 THEN "title" ELSE "admitted")
    /\ UNCHANGED <<pairs, perKey, permits>>

(* acquire, the titles: a code the client has open costs nothing. *)
TakeTitle(r) ==
    /\ at[r] = "title"
    /\ pairs[Pair(r)] = 0 => perKey[key[r]] < MaxTitles
    /\ pairs' = More(pairs, Pair(r))
    /\ perKey' = IF pairs[Pair(r)] = 0 THEN More(perKey, key[r]) ELSE perKey
    /\ Goto(r, "admitted")
    /\ UNCHANGED <<key, code, bodies, permits>>

(* Faults: the cap is looked at before the pair; the body slot is kept. *)
RefuseTitleFirst(r) ==
    /\ at[r] = "title"
    /\ perKey[key[r]] >= MaxTitles
    /\ Goto(r, IF MaxBodies > 0 THEN "undo" ELSE "idle")
    /\ UNCHANGED <<key, code, bodies, pairs, perKey, permits>>

RefuseTitleOnly(r) ==
    /\ at[r] = "title"
    /\ pairs[Pair(r)] = 0 /\ perKey[key[r]] >= MaxTitles
    /\ Goto(r, "idle")
    /\ UNCHANGED <<key, code, bodies, pairs, perKey, permits>>

RefuseTitle(r) ==
    /\ at[r] = "title"
    /\ pairs[Pair(r)] = 0 /\ perKey[key[r]] >= MaxTitles
    /\ Goto(r, IF MaxBodies > 0 THEN "undo" ELSE "idle")
    /\ UNCHANGED <<key, code, bodies, pairs, perKey, permits>>

(* The body slot the refused request had taken is given back. *)
UndoBody(r) ==
    /\ at[r] = "undo"
    /\ bodies' = Less(bodies, key[r])
    /\ Goto(r, "idle")
    /\ UNCHANGED <<key, code, pairs, perKey, permits>>

TakePermit(r) ==
    /\ at[r] = "admitted"
    /\ Cardinality(permits) < MaxStreams
    /\ permits' = permits \cup {r}
    /\ Goto(r, "streaming")
    /\ UNCHANGED <<key, code, bodies, pairs, perKey>>

(* The handler returns before it has a permit (the cold budget, no file,   *)
(* no session, five seconds at the gate), or its client goes away.         *)
Refuse(r) ==
    /\ at[r] = "admitted"
    /\ Goto(r, "dropBody")
    /\ UNCHANGED <<key, code, bodies, pairs, perKey, permits>>

(* With a permit: the handler gives up before the body, and its locals are *)
(* dropped, the permit first.                                              *)
GiveUp(r) ==
    /\ at[r] = "streaming"
    /\ permits' = permits \ {r}
    /\ Goto(r, "dropBody")
    /\ UNCHANGED <<key, code, bodies, pairs, perKey>>

(* The body task ends; the permit is the last thing it drops. *)
EndBody(r) ==
    /\ at[r] = "streaming"
    /\ Goto(r, "dropBody")
    /\ UNCHANGED <<key, code, bodies, pairs, perKey, permits>>

CountsBody(r) == key[r] # Local /\ MaxBodies > 0

CountsTitle(r) == key[r] # Local /\ MaxTitles > 0

(* Guard::drop, the bodies. *)
DropBody(r) ==
    /\ at[r] = "dropBody"
    /\ bodies' = IF CountsBody(r) THEN Less(bodies, key[r]) ELSE bodies
    /\ Goto(r, "dropTitle")
    /\ UNCHANGED <<key, code, pairs, perKey, permits>>

(* Faults: every body frees a title; the title outlives its last body. *)
DropTitleEach(r) ==
    /\ at[r] = "dropTitle"
    /\ pairs' = IF CountsTitle(r) THEN Less(pairs, Pair(r)) ELSE pairs
    /\ perKey' = IF CountsTitle(r) THEN [perKey EXCEPT ![key[r]] = @ - 1] ELSE perKey
    /\ Goto(r, IF r \in permits THEN "dropPermit" ELSE "idle")
    /\ UNCHANGED <<key, code, bodies, permits>>

DropPairOnly(r) ==
    /\ at[r] = "dropTitle"
    /\ pairs' = IF CountsTitle(r) THEN Less(pairs, Pair(r)) ELSE pairs
    /\ Goto(r, IF r \in permits THEN "dropPermit" ELSE "idle")
    /\ UNCHANGED <<key, code, bodies, perKey, permits>>

(* Guard::drop, the titles: the last body of a code frees the title. *)
DropTitle(r) ==
    /\ at[r] = "dropTitle"
    /\ pairs' = IF CountsTitle(r) THEN Less(pairs, Pair(r)) ELSE pairs
    /\ perKey' = IF CountsTitle(r) /\ pairs[Pair(r)] = 1 THEN Less(perKey, key[r]) ELSE perKey
    /\ Goto(r, IF r \in permits THEN "dropPermit" ELSE "idle")
    /\ UNCHANGED <<key, code, bodies, permits>>

DropPermit(r) ==
    /\ at[r] = "dropPermit"
    /\ permits' = permits \ {r}
    /\ Goto(r, "idle")
    /\ UNCHANGED <<key, code, bodies, pairs, perKey>>

Next ==
    \E r \in Requests :
        \/ \E c \in Codes : Exempt(r, c) \/ \E k \in Keys : TakeBody(r, k, c)
        \/ TakeTitle(r) \/ RefuseTitle(r) \/ UndoBody(r)
        \/ TakePermit(r) \/ Refuse(r) \/ GiveUp(r) \/ EndBody(r)
        \/ DropBody(r) \/ DropTitle(r) \/ DropPermit(r)

Spec == Init /\ [][Next]_vars

-----------------------------------------------------------------------------
(* Properties *)

(* Every variable has the shape the code gives it. *)
TypeOK ==
    /\ at \in [Requests -> Stages]
    /\ key \in [Requests -> Keys \cup {Local}]
    /\ code \in [Requests -> Codes]
    /\ bodies \in [Keys -> Nat]
    /\ pairs \in [Keys \X Codes -> Nat]
    /\ perKey \in [Keys -> Nat]
    /\ permits \subseteq Requests

(* The requests that hold a body slot, and a title slot. *)
BodyHolders == {r \in Requests : CountsBody(r) /\ at[r] \notin {"idle", "dropTitle", "dropPermit"}}

TitleHolders == {r \in Requests : CountsTitle(r) /\ at[r] \in {"admitted", "streaming", "dropBody", "dropTitle"}}

(* No slot leaks and none is given back twice: the bodies counted for a    *)
(* client are those that hold one, whatever was refused, cancelled, undone *)
(* or ended in between.                                                    *)
BodiesExact ==
    \A k \in Keys : bodies[k] = Cardinality({r \in BodyHolders : key[r] = k})

(* The same for titles, where two counters must agree: a pair counts its   *)
(* bodies, and a client's titles are its pairs with a body.                *)
TitlesExact ==
    /\ \A p \in Keys \X Codes : pairs[p] = Cardinality({r \in TitleHolders : Pair(r) = p})
    /\ \A k \in Keys : perKey[k] = Cardinality({c \in Codes : pairs[<<k, c>>] > 0})

(* When all requests are over, every slot, title and permit is back, so the *)
(* server lets in tomorrow what it lets in today (ratelimit.rs:424-463,     *)
(* download.rs:1888-1935).                                                  *)
NothingLeaks ==
    (\A r \in Requests : at[r] = "idle") =>
        /\ \A k \in Keys : bodies[k] = 0 /\ perKey[k] = 0
        /\ \A p \in Keys \X Codes : pairs[p] = 0
        /\ permits = {}

Live(r) == at[r] \in {"admitted", "streaming"}

(* What the caps promise of live requests: no client has more bodies than  *)
(* max_bodies_per_ip or more different titles than max_titles_per_ip, and  *)
(* no more than max_streams stream.                                        *)
CapsHold ==
    /\ \A k \in Keys :
        LET mine == {r \in Requests : Live(r) /\ key[r] = k} IN
        /\ MaxBodies > 0 => Cardinality(mine) <= MaxBodies
        /\ MaxTitles > 0 => Cardinality({code[r] : r \in mine}) <= MaxTitles
    /\ Cardinality({r \in Requests : at[r] = "streaming"}) <= MaxStreams

(* The codes that requests of client k have a title slot for.              *)
Open(k) == {code[r] : r \in {q \in TitleHolders : key[q] = k}}

(* "counting (client, short_code) pairs ... makes every one of them cost   *)
(* exactly 1": a request is refused for its titles only if its client      *)
(* really has max_titles_per_ip codes open, all of them others.  So a seek, *)
(* a segmented download or a preload of an open code is never refused, and *)
(* neither is a client whose slots have been given back.                   *)
RefusedOnlyAtCap ==
    [][\A r \in Requests :
        at[r] = "title" /\ at'[r] \in {"undo", "idle"} =>
            /\ code[r] \notin Open(key[r])
            /\ Cardinality(Open(key[r])) = MaxTitles]_vars
====
