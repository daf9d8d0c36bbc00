---- MODULE SingleFlight ----
(***************************************************************************)
(* fetch_cached of src/src/cache.rs for one key: read-through with         *)
(* single-flight.  A caller that finds nothing cached joins the flight of  *)
(* the key, or claims it and calls the origin for all.  The lookup, the    *)
(* claim, the put, the wake-up and the release each take their own lock,   *)
(* so callers come between them.                                           *)
(*                                                                         *)
(* A value is named by the caller whose call of the origin made it.  What  *)
(* the cache does with a value is the module Cache; here it is there or it *)
(* is not.                                                                 *)
(***************************************************************************)
EXTENDS Integers, FiniteSets

CONSTANTS
    Callers,     \* calls of fetch_cached for the key
    None,        \* nothing cached, no flight, no answer
    Closed,      \* the receiver's side of a sender that was dropped
    MaxExpiries  \* bound: how often the value leaves the cache

(* An entry of WAITERS: its senders, and (not in the code) who claimed it. *)
Flights == [by : Callers, list : SUBSET Callers]

(* Whether the origin's answer is cacheable. *)
Results == {"good", "bad"}

ASSUME NoneAssumption ==
    /\ None \notin Callers /\ None \notin Flights /\ None \notin Results
    /\ Closed \notin Callers /\ None # Closed

ASSUME BoundAssumption == MaxExpiries \in Nat

VARIABLES
    cached,    \* the value the cache has
    flight,    \* the entry of WAITERS for the key
    pc,        \* where a caller is
    result,    \* what the caller's own call of the origin gave
    mailbox,   \* what the caller's oneshot receiver has
    answer,    \* the value the caller returns
    expiries   \* how often the value left the cache

vars == <<cached, flight, pc, result, mailbox, answer, expiries>>

(* "fetch", "wake" and "release" are the leader's; "alone" is a follower   *)
(* whose leader failed.                                                    *)
Pcs == {"start", "missed", "waiting", "alone", "fetch", "wake", "release", "done", "gone"}

Holding == {"fetch", "wake", "release"}

Init ==
    /\ cached = None
    /\ flight = None
    /\ pc = [c \in Callers |-> "start"]
    /\ result = [c \in Callers |-> None]
    /\ mailbox = [c \in Callers |-> None]
    /\ answer = [c \in Callers |-> None]
    /\ expiries = 0

Goto(c, where) == pc' = [pc EXCEPT ![c] = where]

Return(c, v) == Goto(c, "done") /\ answer' = [answer EXCEPT ![c] = v]

(* Removing the flight: its followers receive m. *)
EndFlight(m) ==
    /\ flight' = None
    /\ mailbox' = IF flight = None THEN mailbox
                  ELSE [d \in Callers |-> IF d \in flight.list THEN m ELSE mailbox[d]]

-----------------------------------------------------------------------------

Hit(c) ==
    /\ pc[c] = "start" /\ cached # None
    /\ Return(c, cached)
    /\ UNCHANGED <<cached, flight, result, mailbox, expiries>>

Miss(c) ==
    /\ pc[c] = "start" /\ cached = None
    /\ Goto(c, "missed")
    /\ UNCHANGED <<cached, flight, result, mailbox, answer, expiries>>

(* Fault: the follower's sender takes the place of the list. *)
JoinAsOnly(c) ==
    /\ pc[c] = "missed" /\ flight # None
    /\ flight' = [flight EXCEPT !.list = {c}]
    /\ Goto(c, "waiting")
    /\ UNCHANGED <<cached, result, mailbox, answer, expiries>>

Join(c) ==
    /\ pc[c] = "missed" /\ flight # None
    /\ flight' = [flight EXCEPT !.list = @ \cup {c}]
    /\ Goto(c, "waiting")
    /\ UNCHANGED <<cached, result, mailbox, answer, expiries>>

(* The cache is not looked at again. *)
Claim(c) ==
    /\ pc[c] = "missed" /\ flight = None
    /\ flight' = [by |-> c, list |-> {}]
    /\ Goto(c, "fetch")
    /\ UNCHANGED <<cached, result, mailbox, answer, expiries>>

(* Fault: the followers are woken with whatever came back. *)
FetchedForAll(c, r) ==
    /\ pc[c] = "fetch"
    /\ result' = [result EXCEPT ![c] = r]
    /\ cached' = IF r = "good" THEN c ELSE cached
    /\ Goto(c, "wake")
    /\ UNCHANGED <<flight, mailbox, answer, expiries>>

(* The leader's call of the origin ends; a cacheable value is put.         *)
Fetched(c, r) ==
    /\ pc[c] = "fetch"
    /\ result' = [result EXCEPT ![c] = r]
    /\ IF r = "good" THEN cached' = c /\ Goto(c, "wake")
                     ELSE UNCHANGED cached /\ Goto(c, "release")
    /\ UNCHANGED <<flight, mailbox, answer, expiries>>

(* The leader hands the value to whoever is on the list of the key now.    *)
Wake(c) ==
    /\ pc[c] = "wake"
    /\ EndFlight(c)
    /\ Goto(c, "release")
    /\ UNCHANGED <<cached, result, answer, expiries>>

(* Fault: no guard removes the flight of a leader that failed. *)
ReleaseNothing(c) ==
    /\ pc[c] = "release"
    /\ Return(c, c)
    /\ UNCHANGED <<cached, flight, result, mailbox, expiries>>

(* drop(claim) removes the flight of the key a second time, whoever it now *)
(* belongs to.                                                             *)
Release(c) ==
    /\ pc[c] = "release"
    /\ EndFlight(Closed)
    /\ Return(c, c)
    /\ UNCHANGED <<cached, result, expiries>>

Answered(c) ==
    /\ pc[c] = "waiting" /\ mailbox[c] \in Callers
    /\ Return(c, mailbox[c])
    /\ UNCHANGED <<cached, flight, result, mailbox, expiries>>

(* Fault: a closed channel is taken for an answer. *)
RetryAnswered(c) ==
    /\ pc[c] = "waiting" /\ mailbox[c] = Closed
    /\ Return(c, mailbox[c])
    /\ UNCHANGED <<cached, flight, result, mailbox, expiries>>

(* The leader failed: the follower calls the origin for itself. *)
Retry(c) ==
    /\ pc[c] = "waiting" /\ mailbox[c] = Closed
    /\ Goto(c, "alone")
    /\ UNCHANGED <<cached, flight, result, mailbox, answer, expiries>>

Alone(c, r) ==
    /\ pc[c] = "alone"
    /\ result' = [result EXCEPT ![c] = r]
    /\ cached' = IF r = "good" THEN c ELSE cached
    /\ Return(c, c)
    /\ UNCHANGED <<flight, mailbox, expiries>>

(* Fault: a leader that is cancelled leaves its flight behind. *)
CancelKeepsFlight(c) ==
    /\ pc[c] \in {"fetch", "waiting", "alone"}
    /\ Goto(c, "gone")
    /\ UNCHANGED <<cached, flight, mailbox, result, answer, expiries>>

(* The future is dropped at one of its awaits, or f panics: a leader drops *)
(* its claim, a follower its receiver.                                     *)
Cancel(c) ==
    /\ pc[c] \in {"fetch", "waiting", "alone"}
    /\ IF pc[c] = "fetch" THEN EndFlight(Closed) ELSE UNCHANGED <<flight, mailbox>>
    /\ Goto(c, "gone")
    /\ UNCHANGED <<cached, result, answer, expiries>>

(* The value expires, is evicted, invalidated or cleared. *)
Expire ==
    /\ cached # None /\ expiries < MaxExpiries
    /\ cached' = None
    /\ expiries' = expiries + 1
    /\ UNCHANGED <<flight, pc, result, mailbox, answer>>

(* What the caller's task does of its own accord. *)
Proceed(c) ==
    \/ Join(c) \/ Claim(c) \/ Wake(c) \/ Release(c) \/ Answered(c) \/ Retry(c)
    \/ \E r \in Results : Fetched(c, r) \/ Alone(c, r)

Next ==
    \/ \E c \in Callers : Hit(c) \/ Miss(c) \/ Proceed(c) \/ Cancel(c)
    \/ Expire

Spec == Init /\ [][Next]_vars

(* A task that can run is run, and a call of the origin ends: each has its *)
(* timeout.  Nobody has to call or to cancel.                              *)
FairSpec == Spec /\ \A c \in Callers : WF_vars(Proceed(c))

-----------------------------------------------------------------------------
(* Properties *)

(* Every variable has the shape the code gives it. *)
TypeOK ==
    /\ cached \in Callers \cup {None}
    /\ flight \in Flights \cup {None}
    /\ pc \in [Callers -> Pcs]
    /\ result \in [Callers -> Results \cup {None}]
    /\ mailbox \in [Callers -> Callers \cup {None, Closed}]
    /\ answer \in [Callers -> Callers \cup {None}]
    /\ expiries \in Nat

(* "so the key cannot stay claimed forever": whoever claimed the flight    *)
(* that is there still has its Claim to drop, although a flight may be     *)
(* ended by another leader's wake-up or release.                           *)
FlightIsHeld == flight # None => pc[flight.by] \in Holding

(* No wake-up is lost: a follower that has not been told anything is on    *)
(* the list of the flight that is there, so somebody will tell it, also    *)
(* when the flight it joined was ended by another leader.                  *)
WaiterIsListed ==
    \A c \in Callers :
        pc[c] = "waiting" /\ mailbox[c] = None => flight # None /\ c \in flight.list

(* A failure is never pinned or handed on: what is cached, and what a      *)
(* caller returns of another's, comes from a call that succeeded.          *)
FailureIsNotShared ==
    /\ cached # None => result[cached] = "good"
    /\ \A c \in Callers : answer[c] \notin {None, c} => result[answer[c]] = "good"

(* Every caller that goes for the origin is answered in the end, unless    *)
(* its own request is dropped.                                             *)
EveryCallerAnswered ==
    \A c \in Callers : pc[c] = "missed" ~> pc[c] \in {"done", "gone"}

(* The callers that have called the origin. *)
Called == {c \in Callers : pc[c] = "fetch" \/ result[c] # None}

(* The promise of the module: it "coalesces concurrent misses for the same *)
(* key into one upstream call".  As long as nothing failed, was cancelled  *)
(* or left the cache, the origin is called once.  This does not hold: who  *)
(* missed before the leader's put may claim after the flight is gone.      *)
OneUpstreamCall ==
    \/ expiries > 0
    \/ \E c \in Callers : pc[c] = "gone" \/ result[c] = "bad"
    \/ Cardinality(Called) <= 1
====
