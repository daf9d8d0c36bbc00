---- MODULE ColdBudget ----
(***************************************************************************)
(* The cold-start budget: Limiter::check_cold of src/src/ratelimit.rs, as  *)
(* src/src/download.rs calls it.                                           *)
(*                                                                         *)
(* The arithmetic is f64.  An arrival time is some 1.8e9 seconds, and from *)
(* 2^30 to 2^31 neighbouring f64s are 2^-22 of a second apart, so every    *)
(* sum and difference is rounded to a whole number of grains of 1/Grain of *)
(* a second, Grain = 2^22.  Times are counted in grains here, the seconds  *)
(* of the clock from some moment near the present; adding the quotient     *)
(* Window / Burst moves an arrival time by the nearest number of grains.   *)
(*                                                                         *)
(* The clock is read before the lock is taken, so a call may use a time    *)
(* that is past when it has the map.                                       *)
(*                                                                         *)
(* cold[k] = 0 is a key that has no entry: an entry is never 0, and        *)
(* unwrap_or(now).max(now) is what 0.max(now) gives.                       *)
(***************************************************************************)
EXTENDS Integers, FiniteSets, Sequences

CONSTANTS
    Calls,      \* the calls that may be under way at once
    Keys,       \* the client keys
    None,       \* no key
    Burst,      \* cold_starts_per_ip
    Window,     \* cold_start_window, in seconds
    Grain,      \* the grains of a second, 2^22
    MaxKeys,    \* MAX_KEYS, the entries that make a call sweep
    MaxNow,     \* bound: the clock stops here
    MaxStarts   \* bound: the starts one key is given

(* With either at zero check_cold lets everybody in and keeps nothing.  No *)
(* interval is a whole number of grains and a half: twice as fine as a     *)
(* grain is 2^-23, and no Burst under 2^23 has such a quotient.            *)
ASSUME BudgetAssumption ==
    /\ Burst \in Nat \ {0} /\ Window \in Nat \ {0} /\ Grain \in Nat \ {0}
    /\ None \notin Keys
    /\ Burst <= Window * Grain
    /\ (2 * Window * Grain + Burst) % (2 * Burst) # 0

VARIABLES
    now,      \* storage::now()
    cold,     \* the map: key -> arrival time, 0 for no entry
    who,      \* the key a call is about, between its clock and its lock
    stamp,    \* the clock the call has read
    starts,   \* the stamps of the starts a key was given, oldest first
    kept,     \* how many of them were before the key's entry was last swept
    promise   \* when a refused key was told to come back, 0 for not refused

vars == <<now, cold, who, stamp, starts, kept, promise>>

Init ==
    /\ now = 1
    /\ cold = [k \in Keys |-> 0]
    /\ who = [c \in Calls |-> None]
    /\ stamp = [c \in Calls |-> 0]
    /\ starts = [k \in Keys |-> <<>>]
    /\ kept = [k \in Keys |-> 0]
    /\ promise = [k \in Keys |-> 0]

(* The whole number of grains nearest to num / den of one.                 *)
Nearest(num, den) == (2 * num + den) \div (2 * den)

(* window / burst, as adding it to an arrival time rounds the sum. *)
Interval == Nearest(Window * Grain, Burst)

(* interval * (burst - 1), as taking it from an arrival time rounds. *)
Tolerance == Nearest(Window * Grain * (Burst - 1), Burst)

(* tat.max(now) - tolerance > now *)
Spent(tat, t) == tat - Tolerance > t * Grain

AllowedAt(tat, t) == IF tat > t * Grain THEN tat ELSE t * Grain

(* (earliest - now).ceil().max(1), which is at least 1 for a refusal.      *)
Wait(tat, t) == (tat - Tolerance - t * Grain + Grain - 1) \div Grain

(* Fault: the sweep looks for a key with more than its whole budget spent. *)
SweptLoose(t) ==
    IF Cardinality({k \in Keys : cold[k] > 0}) >= MaxKeys
    THEN {k \in Keys : cold[k] > 0 /\ cold[k] - Tolerance <= t * Grain + Interval}
    ELSE {}

(* The keys whose entry the retain of a full map lets go. *)
Swept(t) ==
    IF Cardinality({k \in Keys : cold[k] > 0}) >= MaxKeys
    THEN {k \in Keys : cold[k] > 0 /\ ~ Spent(cold[k], t)}
    ELSE {}

AfterSweep(t) == [k \in Keys |-> IF k \in Swept(t) THEN 0 ELSE cold[k]]

KeptAfterSweep(t) == [k \in Keys |-> IF k \in Swept(t) THEN Len(starts[k]) ELSE kept[k]]

-----------------------------------------------------------------------------

Tick ==
    /\ now < MaxNow
    /\ now' = now + 1
    /\ UNCHANGED <<cold, who, stamp, starts, kept, promise>>

(* A download with no file id reads the clock. *)
Arrive(c, k) ==
    /\ who[c] = None
    /\ who' = [who EXCEPT ![c] = k]
    /\ stamp' = [stamp EXCEPT ![c] = now]
    /\ UNCHANGED <<now, cold, starts, kept, promise>>

Leave(c) ==
    /\ who' = [who EXCEPT ![c] = None]
    /\ stamp' = [stamp EXCEPT ![c] = 0]

(* Faults: the arrival time is not brought up to now; the budget is looked *)
(* at after the start is added.                                            *)
StartFromEntry(c) ==
    LET k == who[c]
        t == stamp[c]
        tat == AfterSweep(t)[k]
    IN
    /\ k # None /\ Len(starts[k]) < MaxStarts
    /\ ~ Spent(tat, t)
    /\ cold' = [AfterSweep(t) EXCEPT ![k] = @ + Interval]
    /\ kept' = KeptAfterSweep(t)
    /\ starts' = [starts EXCEPT ![k] = Append(@, t)]
    /\ promise' = [promise EXCEPT ![k] = 0]
    /\ Leave(c)
    /\ UNCHANGED now

(* check_cold with the lock: the key is within its budget. *)
Start(c) ==
    LET k == who[c]
        t == stamp[c]
        tat == AfterSweep(t)[k]
    IN
    /\ k # None /\ Len(starts[k]) < MaxStarts
    /\ ~ Spent(tat, t)
    /\ cold' = [AfterSweep(t) EXCEPT ![k] = AllowedAt(tat, t) + Interval]
    /\ kept' = KeptAfterSweep(t)
    /\ starts' = [starts EXCEPT ![k] = Append(@, t)]
    /\ promise' = [promise EXCEPT ![k] = 0]
    /\ Leave(c)
    /\ UNCHANGED now

(* Faults: the budget is one start short; the refusal charges the key too. *)
RefuseEarly(c) ==
    LET k == who[c]
        t == stamp[c]
        tat == AfterSweep(t)[k]
    IN
    /\ k # None
    /\ Spent(tat + Interval, t)
    /\ cold' = AfterSweep(t)
    /\ kept' = KeptAfterSweep(t)
    /\ promise' = [promise EXCEPT ![k] = t + Wait(tat + Interval, t)]
    /\ Leave(c)
    /\ UNCHANGED <<now, starts>>

RefuseAndCharge(c) ==
    LET k == who[c]
        t == stamp[c]
        tat == AfterSweep(t)[k]
    IN
    /\ k # None
    /\ Spent(tat, t)
    /\ cold' = [AfterSweep(t) EXCEPT ![k] = tat + Interval]
    /\ kept' = KeptAfterSweep(t)
    /\ promise' = [promise EXCEPT ![k] = t + Wait(tat, t)]
    /\ Leave(c)
    /\ UNCHANGED <<now, starts>>

(* check_cold with the lock: the key is refused, and told when to retry.   *)
Refuse(c) ==
    LET k == who[c]
        t == stamp[c]
        tat == AfterSweep(t)[k]
    IN
    /\ k # None
    /\ Spent(tat, t)
    /\ cold' = AfterSweep(t)
    /\ kept' = KeptAfterSweep(t)
    /\ promise' = [promise EXCEPT ![k] = t + Wait(tat, t)]
    /\ Leave(c)
    /\ UNCHANGED <<now, starts>>

Next ==
    \/ Tick
    \/ \E c \in Calls : Start(c) \/ Refuse(c) \/ \E k \in Keys : Arrive(c, k)

Spec == Init /\ [][Next]_vars

-----------------------------------------------------------------------------
(* Properties *)

(* Every variable has its type, and no Retry-After is beyond one window.   *)
TypeOK ==
    /\ now \in Nat
    /\ cold \in [Keys -> Nat]
    /\ who \in [Calls -> Keys \cup {None}]
    /\ stamp \in [Calls -> Nat]
    /\ starts \in [Keys -> Seq(Nat)]
    /\ kept \in [Keys -> Nat]
    /\ promise \in [Keys -> Nat]
    /\ \A k \in Keys : promise[k] <= now + Window

(* From its i-th start to its j-th a key is within the rate: a window's    *)
(* worth of intervals at once, and one more for every interval between.    *)
WithinRate(k, i, j) ==
    (j - i + 1) * Interval <= (starts[k][j] - starts[k][i] + Window) * Grain

(* "burst starts are allowed back to back, then one every window / burst   *)
(* seconds" as a limit, whatever the order calls get the lock in, over the *)
(* starts since the sweep last dropped the key.                            *)
RateBetweenSweeps ==
    \A k \in Keys : \A i, j \in 1..Len(starts[k]) :
        kept[k] < i /\ i <= j => WithinRate(k, i, j)

(* The same over all the starts of a key, which is what the comment says   *)
(* of check_cold.  It holds as long as the map is never swept.             *)
RateHolds ==
    \A k \in Keys : \A i, j \in 1..Len(starts[k]) : i <= j => WithinRate(k, i, j)

(* A Retry-After is honest: a client that starts nothing else until then   *)
(* is let in from that second on, and, sweeps or not, no sooner.           *)
RetryIsHonest ==
    \A k \in Keys : promise[k] > 0 => (Spent(cold[k], now) <=> now < promise[k])

(* The intervals that fit a window: Burst, or one fewer when the rounding  *)
(* is upwards.                                                             *)
Fits == (Window * Grain) \div Interval

(* A refusal at the call's own clock of a key with fewer than n starts     *)
(* that are not a window old.  A call that other calls of its key overtook *)
(* between its clock and the lock does not count: to it their starts are   *)
(* in the future, and it can be refused after fewer.                       *)
RefusedBelow(c, n) == LET mine == starts[who[c]] IN
    /\ who[c] # None /\ who'[c] = None /\ starts' = starts
    /\ \A i \in 1..Len(mine) : mine[i] <= stamp[c]
    /\ Cardinality({i \in 1..Len(mine) : mine[i] > stamp[c] - Window}) < n

(* Only a spent budget refuses: a key that is refused has had as many      *)
(* starts that are not a window old as there are intervals to a window.    *)
RefusedOnlyWhenSpent == [][\A c \in Calls : ~ RefusedBelow(c, Fits)]_vars

(* "burst starts are allowed back to back": the same with Burst starts.    *)
(* It holds of a burst and a window whose interval is not rounded up.      *)
BurstIsAllowed == [][\A c \in Calls : ~ RefusedBelow(c, Burst)]_vars
====
