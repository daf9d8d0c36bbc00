---- MODULE Cache ----
(***************************************************************************)
(* The two-layer cache of src/src/cache.rs: an in-process L1, a redb file  *)
(* L2 that may be absent, and the write-behind buffer between them, used   *)
(* by any number of threads at once.                                       *)
(*                                                                         *)
(* Every operation is split where the code lets go of a lock, so that      *)
(* another thread, a flush or a kill of the process can come between:      *)
(*   get          L1 lookup; L2 lookup; L1 put of what L2 held             *)
(*   put          L1 put; queue in the buffer                              *)
(*   invalidate   L1 remove; queue a tombstone                             *)
(*   clear        L1 clear; buffer clear; L2 clear                         *)
(*   sweep        L1 sweep; L2 sweep                                       *)
(*   flush        take the buffer; commit it in one transaction            *)
(*                                                                         *)
(* The keys are those of one L1 shard: shards share nothing.  A value is a *)
(* version number, given out per key in the order in which L1 is written.  *)
(***************************************************************************)
EXTENDS Integers, FiniteSets

CONSTANTS
    Keys,        \* full keys, "<prefix>\u{1f}<key>", of one shard
    Threads,     \* request tasks that use the cache
    Flushers,    \* the callers of flush: its loop, an update, the server's end
    Cap,         \* CAP_PER_SHARD
    TTLs,        \* the ttl arguments of put
    Graces,      \* the grace arguments of put
    Clearable,   \* the sets of keys a clear is asked to drop: one per prefix
    None,        \* no slot, no row, nothing buffered
    Gone,        \* a tombstone in the buffer
    MaxWrites,   \* bound: writes of each key in a behaviour
    MaxTime,     \* bound: seconds
    MaxKills     \* bound: kills of the process

(* What a layer stores for a key: the value and its two deadlines. *)
Slot == [v : Nat, exp : Int, hard : Int]

ASSUME CapAssumption == Cap \in Nat \ {0}

ASSUME TimesAssumption == TTLs \subseteq Int /\ Graces \subseteq Int

ASSUME ClearableAssumption == Clearable \subseteq SUBSET Keys

ASSUME NoneAssumption == None \notin Slot /\ Gone \notin Slot /\ None # Gone

ASSUME BoundsAssumption == MaxWrites \in [Keys -> Nat] /\ MaxTime \in Nat /\ MaxKills \in Nat

VARIABLES
    now,       \* crate::storage::now()
    diskOpen,  \* did l2() open the database at start
    l1,        \* the L1 shard
    l2,        \* the rows of the redb table, as a reader sees them
    durable,   \* the rows a kill leaves behind
    pending,   \* the write-behind buffer
    batch,     \* what each flush has taken and not yet committed
    op,        \* where each thread is inside an operation
    kills      \* how often the process was killed

(* Not in the code: the write history the properties speak about. *)
VARIABLES
    latest,    \* version of the last write of L1, put or invalidate, per key
    settled,   \* version of the last such write that has returned, per key
    intended,  \* what L2 should end up with, None when nothing is promised
    older      \* the flushes under way that took the buffer before each one

code == <<now, diskOpen, l1, l2, durable, pending, batch, op, kills>>
ghost == <<latest, settled, intended, older>>
vars == <<code, ghost>>

-----------------------------------------------------------------------------

Slots == [Keys -> Slot \cup {None}]
Buffer == [Keys -> Slot \cup {None, Gone}]

Pcs == {"idle", "readL2", "promote", "queue", "clearPending", "clearL2", "sweepL2"}

(* get reads fresh, get_stale stale. *)
Modes == {"fresh", "stale"}

Op == [pc : Pcs, key : Keys \cup {None}, item : Slot \cup {None, Gone},
       mode : Modes, floor : Nat, ver : Nat, drop : SUBSET Keys]

Idle == [pc |-> "idle", key |-> None, item |-> None, mode |-> "fresh",
         floor |-> 0, ver |-> 0, drop |-> {}]

Empty == [k \in Keys |-> None]

Clamp(x) == IF x > 0 THEN x ELSE 0

(* Is the slot readable at time t, by get or by get_stale. *)
Readable(s, t, mode) == t < s.hard /\ (mode = "stale" \/ t < s.exp)

(* The keys that a layer holds. *)
Held(layer) == {k \in Keys : layer[k] # None}

Without(layer, K) == [k \in Keys |-> IF k \in K THEN None ELSE layer[k]]

Dead(layer) == {k \in Held(layer) : layer[k].hard <= now}

Init ==
    /\ now = 0
    /\ diskOpen \in BOOLEAN
    /\ l1 = Empty /\ l2 = Empty /\ durable = Empty
    /\ pending = Empty /\ batch = [f \in Flushers |-> Empty]
    /\ op = [t \in Threads |-> Idle]
    /\ kills = 0
    /\ latest = [k \in Keys |-> 0]
    /\ settled = [k \in Keys |-> 0]
    /\ intended = Empty
    /\ older = [f \in Flushers |-> {}]

-----------------------------------------------------------------------------
(* L1::put.  A full shard first drops what is past its hard deadline; if   *)
(* nothing was, a quarter of the cap goes, soonest deadline first.  Equal  *)
(* deadlines are taken in an order the hash map decides.                   *)

EvictionSize == IF Cap \div 4 > 1 THEN Cap \div 4 ELSE 1

SoonestOf(live) ==
    {D \in SUBSET live :
        /\ Cardinality(D) = EvictionSize
        /\ \A d \in D, k \in live \ D : l1[d].hard <= l1[k].hard}

(* Fault: the shard is taken for full one slot too late. *)
EvictionsLate(k) ==
    LET live == Held(l1) \ Dead(l1) IN
    IF k \in Held(l1) \/ Cardinality(Held(l1)) <= Cap THEN {{}}
    ELSE {Dead(l1) \cup D : D \in SoonestOf(live)}

(* The sets of keys that a put of k may push out of L1. *)
Evictions(k) ==
    LET live == Held(l1) \ Dead(l1) IN
    IF k \in Held(l1) \/ Cardinality(Held(l1)) < Cap THEN {{}}
    ELSE IF Cardinality(live) < Cap THEN {Dead(l1)}
    ELSE {Dead(l1) \cup D : D \in SoonestOf(live)}

PutL1(k, s) ==
    \E D \in Evictions(k) : l1' = [Without(l1, D) EXCEPT ![k] = s]

Enter(t, o) == op' = [op EXCEPT ![t] = o]
Leave(t) == op' = [op EXCEPT ![t] = Idle]

-----------------------------------------------------------------------------
(* get and get_stale.  A read that finds a readable slot in L1 answers     *)
(* with it and changes nothing, so it has no action: L1Answer says what    *)
(* it would get.                                                           *)

L1Answer(k, s) == l1[k] = s /\ s # None /\ Readable(s, now, "stale")

(* L1 has nothing readable.  A slot past its hard deadline is removed; the *)
(* thread goes on to L2 when there is one.                                 *)
GetMiss(t, k, mode) ==
    /\ op[t].pc = "idle"
    /\ l1[k] # None => ~Readable(l1[k], now, mode)
    /\ l1' = IF k \in Dead(l1) THEN Without(l1, {k}) ELSE l1
    /\ IF diskOpen
       THEN Enter(t, [Idle EXCEPT !.pc = "readL2", !.key = k, !.mode = mode,
                                  !.floor = settled[k]])
       ELSE UNCHANGED op
    /\ UNCHANGED <<now, diskOpen, l2, durable, pending, batch, kills,
                   latest, settled, intended, older>>

(* L2::get: the row, unless a deadline has passed.  What kind of read it   *)
(* is for makes no difference any more.                                    *)
ReadL2(t) ==
    LET o == op[t]
        row == l2[o.key]
    IN  /\ o.pc = "readL2"
        /\ IF row # None /\ Readable(row, now, o.mode)
           THEN Enter(t, [o EXCEPT !.pc = "promote", !.item = row, !.mode = "fresh"])
           ELSE Leave(t)
        /\ UNCHANGED <<now, diskOpen, l1, l2, durable, pending, batch, kills,
                       latest, settled, intended, older>>

(* Fault: the row is promoted like a new value, with a ttl of its own. *)
PromoteAnew(t) ==
    LET o == op[t] IN
    /\ o.pc = "promote"
    /\ \E ttl \in TTLs : PutL1(o.key, [o.item EXCEPT !.exp = now + ttl, !.hard = now + ttl])
    /\ Leave(t)
    /\ UNCHANGED <<now, diskOpen, l2, durable, pending, batch, kills,
                   latest, settled, intended, older>>

(* The row goes into L1 with the deadlines it has, and is the answer. *)
Promote(t) ==
    LET o == op[t] IN
    /\ o.pc = "promote"
    /\ PutL1(o.key, o.item)
    /\ Leave(t)
    /\ UNCHANGED <<now, diskOpen, l2, durable, pending, batch, kills,
                   latest, settled, intended, older>>

-----------------------------------------------------------------------------
(* put and invalidate *)

(* The slot put makes: negative ttl and grace count as zero. *)
NewSlot(k, ttl, grace) ==
    [v |-> latest[k] + 1, exp |-> now + Clamp(ttl),
     hard |-> now + Clamp(ttl) + Clamp(grace)]

(* put, as far as L1. *)
Put(t, k, ttl, grace) ==
    LET s == NewSlot(k, ttl, grace) IN
    /\ op[t].pc = "idle"
    /\ latest[k] < MaxWrites[k]
    /\ PutL1(k, s)
    /\ Enter(t, [Idle EXCEPT !.pc = "queue", !.key = k, !.item = s, !.ver = s.v])
    /\ latest' = [latest EXCEPT ![k] = s.v]
    /\ UNCHANGED <<now, diskOpen, l2, durable, pending, batch, kills,
                   settled, intended, older>>

(* Fault: only the tombstone is queued, L1 keeps its slot. *)
InvalidateL2Only(t, k) ==
    /\ op[t].pc = "idle"
    /\ latest[k] < MaxWrites[k]
    /\ Enter(t, [Idle EXCEPT !.pc = "queue", !.key = k, !.item = Gone,
                             !.ver = latest[k] + 1])
    /\ latest' = [latest EXCEPT ![k] = @ + 1]
    /\ UNCHANGED <<now, diskOpen, l1, l2, durable, pending, batch, kills,
                   settled, intended, older>>

(* invalidate, as far as L1. *)
Invalidate(t, k) ==
    /\ op[t].pc = "idle"
    /\ latest[k] < MaxWrites[k]
    /\ l1' = Without(l1, {k})
    /\ Enter(t, [Idle EXCEPT !.pc = "queue", !.key = k, !.item = Gone,
                             !.ver = latest[k] + 1])
    /\ latest' = [latest EXCEPT ![k] = @ + 1]
    /\ UNCHANGED <<now, diskOpen, l2, durable, pending, batch, kills,
                   settled, intended, older>>

(* queue: the buffer keeps the last write or tombstone of a key, and the   *)
(* operation returns.                                                      *)
Queue(t) ==
    LET o == op[t] IN
    /\ o.pc = "queue"
    /\ pending' = [pending EXCEPT ![o.key] = o.item]
    /\ intended' = [intended EXCEPT ![o.key] = o.item]
    /\ settled' = [settled EXCEPT ![o.key] = IF o.ver > @ THEN o.ver ELSE @]
    /\ Leave(t)
    /\ UNCHANGED <<now, diskOpen, l1, l2, durable, batch, kills,
                   latest, older>>

-----------------------------------------------------------------------------
(* clear and sweep *)

ClearL1(t, K) ==
    /\ op[t].pc = "idle"
    /\ l1' = Without(l1, K)
    /\ Enter(t, [Idle EXCEPT !.pc = "clearPending", !.drop = K])
    /\ UNCHANGED <<now, diskOpen, l2, durable, pending, batch, kills,
                   latest, settled, intended, older>>

(* The whole buffer goes, whatever prefix the clear is for; only what it   *)
(* was asked to drop is meant to go.                                       *)
ClearPending(t) ==
    /\ op[t].pc = "clearPending"
    /\ pending' = Empty
    /\ intended' = Without(intended, op[t].drop)
    /\ IF diskOpen THEN Enter(t, [op[t] EXCEPT !.pc = "clearL2"]) ELSE Leave(t)
    /\ UNCHANGED <<now, diskOpen, l1, l2, durable, batch, kills,
                   latest, settled, older>>

(* L2::clear commits with Durability::None, so a kill may undo it, and     *)
(* leaves the rows when the transaction cannot begin or commit.            *)
ClearL2(t) ==
    /\ op[t].pc = "clearL2"
    /\ l2' \in {l2, Without(l2, op[t].drop)}
    /\ intended' = Without(intended, op[t].drop)
    /\ Leave(t)
    /\ UNCHANGED <<now, diskOpen, l1, durable, pending, batch, kills,
                   latest, settled, older>>

SweepL1(t) ==
    /\ op[t].pc = "idle"
    /\ l1' = Without(l1, Dead(l1))
    /\ IF diskOpen THEN Enter(t, [Idle EXCEPT !.pc = "sweepL2"]) ELSE UNCHANGED op
    /\ UNCHANGED <<now, diskOpen, l2, durable, pending, batch, kills,
                   latest, settled, intended, older>>

SweepL2(t) ==
    /\ op[t].pc = "sweepL2"
    /\ l2' \in {l2, Without(l2, Dead(l2))}
    /\ Leave(t)
    /\ UNCHANGED <<now, diskOpen, l1, durable, pending, batch, kills,
                   latest, settled, intended, older>>

-----------------------------------------------------------------------------
(* The flushes, the clock and the process.                                 *)
(*                                                                         *)
(* Nothing keeps two flushes apart: the loop calls flush every             *)
(* FLUSH_INTERVAL_MS, and an update and the end of the server call it from *)
(* other tasks, whatever the loop is doing.  The model lets them come at   *)
(* any time and more than once.                                            *)

(* What f holds of key k was queued after all that others hold of it, and  *)
(* nothing has been queued since.                                          *)
IsLatest(f, k) ==
    /\ pending[k] = None /\ batch[f][k] # None
    /\ \A g \in Flushers \ {f} : batch[g][k] # None => g \in older[f]

(* The first half of flush: take the buffer. *)
FlushTake(f) ==
    /\ batch[f] = Empty
    /\ pending # Empty
    /\ batch' = [batch EXCEPT ![f] = pending]
    /\ pending' = Empty
    /\ older' = [older EXCEPT ![f] = {g \in Flushers : batch[g] # Empty}]
    /\ UNCHANGED <<now, diskOpen, l1, l2, durable, op, kills,
                   latest, settled, intended>>

(* Faults: a tombstone is written like a value; a tombstone is passed over. *)
WrittenRaw(f, F) ==
    [k \in Keys |-> IF batch[f][k] = None \/ k \in F THEN l2[k] ELSE batch[f][k]]

WrittenPutsOnly(f, F) ==
    [k \in Keys |-> IF batch[f][k] \in {None, Gone} \/ k \in F THEN l2[k] ELSE batch[f][k]]

(* L2 after write_batch: a write replaces the row, a tombstone removes it, *)
(* and a row in F could not be written.                                    *)
Written(f, F) ==
    [k \in Keys |-> IF batch[f][k] = None \/ k \in F THEN l2[k]
                    ELSE IF batch[f][k] = Gone THEN None ELSE batch[f][k]]

(* A flush has ended.  The keys in F did not reach L2: nothing is promised *)
(* any more of those of which it held the latest.                          *)
FlushEnd(f, F) ==
    /\ batch' = [batch EXCEPT ![f] = Empty]
    /\ older' = [g \in Flushers |-> IF g = f THEN {} ELSE older[g] \ {f}]
    /\ intended' = Without(intended, {k \in F : IsLatest(f, k)})
    /\ UNCHANGED <<now, diskOpen, l1, op, kills, latest, settled>>

(* Fault: the buffer is emptied again once the batch is written. *)
FlushCommitClears(f) ==
    \E F \in SUBSET Held(batch[f]) :
        /\ batch[f] # Empty
        /\ IF diskOpen THEN l2' = Written(f, F) /\ durable' = Written(f, F)
                       ELSE UNCHANGED <<l2, durable>>
        /\ FlushEnd(f, F)
        /\ pending' = Empty

(* The second half: one transaction, Durability::Eventual, which carries   *)
(* every earlier commit with it.  A row that fails is passed over.         *)
(* Without a database the batch is dropped.  The transactions of two       *)
(* flushes come in either order.                                           *)
FlushCommit(f) ==
    \E F \in SUBSET Held(batch[f]) :
        /\ batch[f] # Empty
        /\ IF diskOpen THEN l2' = Written(f, F) /\ durable' = Written(f, F)
                       ELSE UNCHANGED <<l2, durable>>
        /\ FlushEnd(f, F)
        /\ UNCHANGED pending

(* write_batch answers Err: the batch is lost. *)
FlushFail(f) ==
    /\ batch[f] # Empty /\ diskOpen
    /\ FlushEnd(f, Held(batch[f]))
    /\ UNCHANGED <<l2, durable, pending>>

Tick ==
    /\ now < MaxTime
    /\ now' = now + 1
    /\ UNCHANGED <<diskOpen, l1, l2, durable, pending, batch, op, kills,
                   latest, settled, intended, older>>

(* The process is killed and started again: memory is lost, the rows that  *)
(* were durable are there, and the database opens or does not.             *)
Restart ==
    /\ kills < MaxKills
    /\ kills' = kills + 1
    /\ diskOpen' \in BOOLEAN
    /\ l1' = Empty /\ pending' = Empty /\ batch' = [f \in Flushers |-> Empty]
    /\ l2' = durable
    /\ op' = [t \in Threads |-> Idle]
    /\ settled' = [k \in Keys |-> 0]
    /\ intended' = Empty
    /\ older' = [f \in Flushers |-> {}]
    /\ UNCHANGED <<now, durable, latest>>

-----------------------------------------------------------------------------

(* A thread begins an operation. *)
Begin(t) ==
    \/ \E k \in Keys, mode \in Modes : GetMiss(t, k, mode)
    \/ \E k \in Keys, ttl \in TTLs, grace \in Graces : Put(t, k, ttl, grace)
    \/ \E k \in Keys : Invalidate(t, k)
    \/ \E K \in Clearable : ClearL1(t, K)
    \/ SweepL1(t)

(* A thread goes on with the operation it is in. *)
Continue(t) ==
    \/ ReadL2(t) \/ Promote(t) \/ Queue(t)
    \/ ClearPending(t) \/ ClearL2(t) \/ SweepL2(t)

Flush(f) == FlushTake(f) \/ FlushCommit(f) \/ FlushFail(f)

Next ==
    \/ \E t \in Threads : Begin(t) \/ Continue(t)
    \/ \E f \in Flushers : Flush(f)
    \/ Tick
    \/ Restart

(* The flusher is a loop of its own and a thread inside an operation does  *)
(* not stop; nobody has to begin one.  An update and the server's end call *)
(* flush once and need not: where fairness is assumed, the loop alone is   *)
(* in Flushers.                                                            *)
Fairness ==
    /\ \A f \in Flushers : WF_vars(Flush(f))
    /\ \A t \in Threads : WF_vars(Continue(t))

Spec == Init /\ [][Next]_vars

FairSpec == Spec /\ Fairness

-----------------------------------------------------------------------------
(* Properties *)

(* Every variable has the shape the code gives it. *)
TypeOK ==
    /\ now \in Nat /\ kills \in Nat
    /\ diskOpen \in BOOLEAN
    /\ l1 \in Slots /\ l2 \in Slots /\ durable \in Slots
    /\ pending \in Buffer /\ batch \in [Flushers -> Buffer] /\ intended \in Buffer
    /\ older \in [Flushers -> SUBSET Flushers]
    /\ op \in [Threads -> Op]
    /\ latest \in [Keys -> Nat] /\ settled \in [Keys -> Nat]

(* The shard never holds more than its cap, however many threads put and   *)
(* promote rows of L2 at once: the eviction in L1::put makes room for the  *)
(* one slot it is about to insert.                                         *)
L1Bounded == Cardinality(Held(l1)) <= Cap

(* Every copy of a value of key k that some layer, the buffer, a flush or  *)
(* an operation holds.                                                     *)
Copies(k) ==
    ({l1[k], l2[k], durable[k], pending[k]}
        \cup {batch[f][k] : f \in Flushers}
        \cup {op[t].item : t \in {u \in Threads : op[u].key = k}}) \ {None, Gone}

(* A value keeps the deadlines it was put with and the key it was put for: *)
(* the copies of one write agree wherever they are, so a row of L2 that    *)
(* comes back into L1 (after an eviction, an expiry or a restart) gains no *)
(* time.                                                                   *)
CopiesAgree ==
    \A k \in Keys : \A x, y \in Copies(k) :
        x.v \in 1 .. latest[k] /\ (x.v = y.v => x = y)

(* A value of which no layer, no buffer and no operation under way has a    *)
(* copy any more never comes back, neither from L2 into L1 after a put, nor *)
(* from a batch after a clear, nor from the file after a kill, and one that *)
(* is still there is never changed (cache.rs:564-631): the cache implements *)
(* CachePromise.                                                            *)
Promised == INSTANCE CachePromise WITH around <- [k \in Keys |-> Copies(k)]

NothingComesBack == Promised!Spec

(* The slots that a read of k which begins now, or is about to return, may *)
(* answer with, each with the version it must not be behind.               *)
Answers(k) ==
    {<<s, settled[k]>> : s \in {x \in {l1[k]} : L1Answer(k, x)}} \cup
    {<<op[t].item, op[t].floor>> : t \in {u \in Threads : op[u].pc = "promote" /\ op[u].key = k}}

(* Running memory-only (no database), the cache is never behind: a read    *)
(* answers with nothing older than the last put or invalidate that had     *)
(* returned when the read began, also when the process had a database      *)
(* before its last restart.                                                *)
MemoryOnlyIsCurrent ==
    ~diskOpen => \A k \in Keys : \A a \in Answers(k) : a[1].v >= a[2]

Expired(x) == x \in Slot /\ x.hard <= now

InL2(k) ==
    \/ l2[k] = intended[k]
    \/ l2[k] = None /\ (intended[k] = Gone \/ Expired(intended[k]))

(* What was queued last for a key is in the buffer, is the latest that any *)
(* flush holds, or has reached L2 with no flush behind it.                 *)
Kept(k) ==
    intended[k] # None =>
        \/ pending[k] = intended[k]
        \/ \E f \in Flushers : IsLatest(f, k) /\ batch[f][k] = intended[k]
        \/ pending[k] = None /\ (\A f \in Flushers : batch[f][k] = None) /\ InL2(k)

(* The write-behind path neither loses nor reorders: as long as no clear   *)
(* of the key, no failed commit and no kill took it away, the last write   *)
(* or tombstone queued for a key is what L2 holds or is going to hold,     *)
(* also when it was queued while a flush was committing an earlier one.    *)
(* A clear of one prefix breaks it for the keys of another, against "drop  *)
(* the buffer's matching tombstones/writes first" (src/src/cache.rs), and  *)
(* so do two flushes at once.                                              *)
NoLostWrite == diskOpen => \A k \in Keys : Kept(k)

(* The only two steps that lose or reorder a write behind the caller's     *)
(* back (cache.rs:539-561, 613-631): a clear for somebody else's prefix,   *)
(* while the write is in the buffer; and the commit of a flush that passes *)
(* another, which took an earlier write of the key and has it still to     *)
(* commit.  Failed rows and commits, sweeps, expiry, later writes, clears  *)
(* after the buffer was taken and a flush with no other beside it do not.  *)
OnlyClearedOrOvertaken ==
    [][\A k \in Keys :
        (diskOpen => Kept(k)) /\ ~ (diskOpen => Kept(k))' =>
            \/ /\ pending[k] # None
               /\ \E t \in Threads : k \notin op[t].drop /\ ClearPending(t)
            \/ \E f \in Flushers : \E g \in older[f] :
                  /\ batch[f][k] # None /\ batch[g][k] # None
                  /\ FlushCommit(f)]_vars

(* Every queued write reaches the database, unless something took it away, *)
(* when the flusher's loop is the only one to flush.                       *)
WritesReachL2 ==
    \A k \in Keys :
        (diskOpen /\ intended[k] # None) ~> (intended[k] = None \/ InL2(k))

(* What invalidate is called for: "Drop it, or the resolve below hands the *)
(* same dead reference straight back" (src/src/download.rs).  After it has *)
(* returned no read answers with a value put before it.                    *)
InvalidatedIsNotServed ==
    \A k \in Keys : \A a \in Answers(k) : a[1].v >= a[2]
====
