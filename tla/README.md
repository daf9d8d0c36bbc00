# Formal models of the pencarimovie server

TLA+ models of the Rust server under `src/src/`, checked with TLC on small
instances and, where it matters most, proved with TLAPS for every value of the
constants. Line numbers are those of the commit the models were written from.

## 1. The system

The server answers a media player and a dashboard. A play is an HTTP request
for a *short code*, usually with a `Range`; the server resolves the code to a
Telegram file reference with the help of a WordPress origin, fetches the bytes
from Telegram over the connections of a bot, and streams them. Everything is
one process on a multi-threaded async runtime (tokio): a handler or a background
task can be preempted between any two steps, is suspended at every `await`, and
is *dropped* at an `await` when its client goes.

```
 player ── routes ── admission limits ── cold budget ── resolve ──┐
              │       (ratelimit.rs)     (ratelimit.rs)  cache ◄──┤ L1, L2, single-flight
              │                                                    └► httpc ── origin
              └── download ── pre-flight ──┐
                     │                     ├── gates of a bot's connections ── Telegram
                     └── streaming task ───┘            (telegram.rs)
```

| Component | State | Operations | How it meets the others |
|---|---|---|---|
| Cache (`cache.rs`) | 32 L1 shards, the redb database, the write-behind buffer, the batch of each flush | `get`, `get_stale`, `put`, `invalidate`, `clear`, `sweep`, `flush`, open | called by resolve, lookups, diagnostics, sessions; flushed by a loop every 400 ms, before an update and at exit, with no exclusion between them |
| Single-flight (`cache.rs`) | the map of flights and their followers | `fetch_cached`, `Claim::drop` | around every cached call of the origin |
| Admission (`ratelimit.rs`, `download.rs`) | bodies per client, bodies per (client, code), titles per client, the stream semaphore | `acquire`, `Guard::drop`, `max_streams` | first thing in `handle_download`; the guard moves into the streaming task |
| Cold budget (`ratelimit.rs`) | a theoretical arrival time per client | `check_cold` | charged when a download has no reference yet |
| Pre-flight (`download.rs`) | reference, bot, connection, attempt, deadlines | up to four attempts with re-resolve, other bot, back-off | resolve, bot pool, gates |
| Gates (`telegram.rs`) | a semaphore per connection, round robin index | `pick_slot`, `fetch_range_gated` | shared by all the downloads of a bot |
| Streaming task (`download.rs`) | plan of windows, windows in flight, bytes left, channel of 4 | head, `buffered`, emit, abort, close | gates; the client, through the channel |
| Resolve (`resolve.rs`) | entries, misses and fresh memos in the cache, batch locks, cooldown | single, forced, concurrent and batch resolves, prewarm | cache, httpc, enrolment |
| Origin client (`httpc.rs`) | origin-down deadline, clock offset | `http_json`, retry after a 401 | credentials |
| Enrolment (`credentials.rs`) | latch and its time, back-off, token | `ensure_enrolled` | origin |
| Sessions (`session.rs`) | bot files, lock file, flood waits | guest provisioning, bot list, flood notes | bot pool, cache |
| Bot pool (`telegram.rs`) | booted bots, boot lock | `boot`, `logout` | sessions |
| Authentication (`auth.rs`) | keys, sessions, lockout file | login, ladder of lockouts | routes |
| Tunnel (`tunnel.rs`) | `state.json`, `cloudflared.pid`, the log, the 300 s stamp, `STARTING` and the last error; cloudflared processes | `enable` behind `start_async`, `auto_restart`, `get_tunnel_status`, `disable` | routes; the tasks meet only in the files and the processes |
| Tunnel panel (`public/app.js`) | busy flag, status line, poll timer | Enable, Disable, the status poll | the tunnel's routes |
| Update, storage, tray, matcher, diagnostics, ... | files and processes | | mostly I/O or pure text |

`PROJECT.json` lists every part, with what is left out and why.

### What is hard here

* **Interleavings.** Cache operations touch L1, L2 and the buffer in separate
  steps without a common lock; `acquire` takes two locks one after the other;
  single-flight looks in the cache before it looks for a flight.
* **Dropped futures.** A leader, a follower, a pre-flight that waits for a permit,
  a window that has one: any of them can vanish at an `await`.
* **Suspended polling.** Windows of a body make progress only while the body waits
  for a window, not while it waits for its client.
* **Crash and failure.** A kill loses the write-behind buffer and what was not
  committed durably; a commit can fail; a part can fail at any time.
* **Stale state.** References expire, a re-resolve may bring another size or bot; a
  restart of the tunnel works for a minute on the state it read when it began, and a
  status request adopts a process it saw before it was killed.
* **Files as shared state.** The tunnel's tasks hold no lock: they read, kill, spawn,
  wait and write, and any other may have written meanwhile. The stamp that keeps its
  restarts apart is one more file, looked at before it is touched.
* **Edges.** Ranges, blocks and parts at the ends of a file; a spent budget at its
  very second; full maps and full shards.

What makes each component correct: the cache never serves or keeps what a later write
replaced, nor loses writes silently (where it does, exactly when is stated); a flight
never outlives its holder and forgets no follower; counters of slots are exact and
caps hold; a budget keeps its rate and tells the truth about when to retry; gates leak
nothing and whoever keeps reading is served; a body is exactly the bytes that were
asked for; a tunnel that is off stays off, one that should be up comes back, and there
are two only where tasks crossed.

## 2. Modules

| Module | Models | Proofs | Runs |
|---|---|---|---|
| `Cache` | `cache.rs` 50-631 | `CacheProofs` | `cache`, `cache_flusher`, `cache_prefix_clear`, `cache_invalidate` |
| `CachePromise` | what the cache promises its users (abstract; `Cache` implements it) | in `CacheProofs` | `cache` |
| `SingleFlight` | `cache.rs` 660-751 | `SingleFlightProofs` | `single_flight` |
| `Admission` | `ratelimit.rs` 260-463, its use in `download.rs` | `AdmissionProofs` | `admission` |
| `ColdBudget` | `ratelimit.rs` 372-403 | `ColdBudgetProofs` | `cold_budget` |
| `Gate` | `pick_slot`, `fetch_range_core`, the head and the streaming task | `GateProofs` | `gate`, `gate_paused` |
| `Semaphore` | what the gates promise the downloads (abstract; `Gate` implements it) | in `GateProofs` | `gate` |
| `Body` | `parse_range_header`, `prime_window`, `plan_limit`, the plan, the emission | `BodyProofs` | `body` |
| `Delivery` | what a client of a download is promised (abstract; `Body` implements it) | in `BodyProofs` | `body` |
| `Tunnel` | `tunnel.rs` 256-300, 693-796, 1332-1528, 1591-2238 | `TunnelProofs` | `tunnel` |
| `TunnelPanel` | `public/app.js` 2204-2370 and the tunnel's routes, on top of `Tunnel` | `TunnelPanelProofs` | `tunnel_panel` |

Each `MC...` module instantiates its module for TLC (bounds that are functions,
symmetry sets). A definition whose comment starts with "Fault" is a plausible bug
in the definition below it; it is part of no specification, and shows that the
property named for it in `PROJECT.json` would notice that bug.

### Cache

State: `l1` (one shard: the shards are independent and keys never move), `l2`
(what a reader of redb sees), `durable` (what a kill leaves of it), `pending` (the
buffer), `batch` (what each flush under way is writing), `now`, and the operation each
thread is in. A value is a number that grows with each write of its key, so that
"older" can be said. An operation is split where the code lets another thread in:
between L1, L2 and the buffer (`Begin`, then `Continue`); what happens under one
shard lock or in one redb transaction is one step. A flush takes the buffer in one step
and commits in another, and nothing keeps another from doing both in between: the
flusher's loop, an update (`update.rs` 486) and the server's end (`main.rs` 861) call it
(`Flushers`). `latest`, `settled`, `intended` and `older` (which flushes took the buffer
before this one) are history variables, used by properties only.

`TypeOK`; `L1Bounded`: concurrent puts and promotions keep a shard within its cap;
`NothingComesBack`: a value of which no copy is left anywhere never returns, and none
changes on its way;
`MemoryOnlyIsCurrent`: without a database nothing older than the last completed
write is read.

The write-behind path keeps a promise for each key (`intended`): what was queued last is
what the database will hold, unless a clear of the key, a failed row or commit of that very
write, or a kill took it. The code keeps it (`NoLostWrite`) only where all clears are whole
and nobody flushes beside the flusher. `OnlyClearedOrOvertaken` says in which two steps it
is broken, and holds of everything the code does: a clear of another prefix, while the write
is in the buffer, and the commit of a flush that passes one which took an earlier write of
the key and will commit it last. A batch taken before a clear and committed after it is in
neither, as the clear has taken the promise with it. `WritesReachL2`: with the loop alone
to flush, what is promised gets there.

`NothingComesBack` is a refinement: `Cache` implements `CachePromise`, in which there
are only the version of each key and the values of it of which a copy exists, in
whatever layer, buffer, batch, file or operation. A write adds one value; every other
step may lose copies and adds none. So no race of a get that promotes a row with a
put, a clear, a flush or a kill brings back what was gone, or gives a value a new
deadline. Two runs show what the code does not do: a clear of *one* prefix drops the
buffered writes of all (`cache_prefix_clear`), and until its tombstone is committed an
invalidated key can be read again from L2 *and put back into L1* (`cache_invalidate`).

Bounds: two keys (the write of one, the eviction or prefix of another), two threads
(an operation overtaken by another, the flusher being a third party), cap 1 (every
put evicts), two flushes, two writes of one key and one of the other, clears of one
prefix with the buffered writes of the other, one tick, one kill. `cache_flusher`, for
liveness, has clears of everything, the loop alone and one thread.

### SingleFlight

State: what is cached (named by the caller who fetched it), the flight (claimer,
followers), and for each caller its control point, its result and its mailbox.
Every `await` is a point where `Cancel` can drop the caller. `FlightIsHeld`,
`WaiterIsListed`, `FailureIsNotShared`, and, under weak fairness of the tasks
that can run (calls of the origin have timeouts, so they end),
`EveryCallerAnswered`.
Bounds: four callers (a leader, two followers of different flights and one that
claims in between), one expiry.

### Admission

State: the stage of each request and the three counters exactly as kept in
`Limiter`, the stream permits. The two locks of `acquire` are two steps, the undo a
third, and the three drops (body, title, permit) at the end are separate and in the
order in which the code's values are dropped. `BodiesExact` and `TitlesExact` tie the
counters to the requests that hold slots, `CapsHold` says what the caps promise, and
`RefusedOnlyAtCap` that a request is refused for its titles only when its client has as
many others open as it may: never on a code it has open, and never for a slot that was
given back. `NothingLeaks`, that every slot and permit is back when all requests are
over, follows from the invariant.
Bounds: four requests, two clients and the exempt local one, three codes, caps 2 and
3, two streams: each cap can be hit while the others are not.

### ColdBudget

A clock, the map of arrival times, calls that have read the clock and not yet the
lock. The sweep at `MaxKeys` entries is part of the step.

The code computes in `f64`. At some 1.8e9 seconds neighbouring numbers are 2^-22 s apart (a
*grain*), so each sum is rounded to whole grains, and what a start adds to an arrival time is
`window / burst` rounded to grains (`Nearest`): `Interval`, and `Tolerance` likewise. Sums
of grains are exact from then on. This was compared with the program's own `f64` sums for bursts and
windows at random, and is valid from 2004 to 2038 (2^30 to 2^31) for `Burst * Window` under
2^28, beyond which the rounding of the quotient itself would show.

`RateBetweenSweeps` and `RetryIsHonest` hold with the interval as rounded.
`RefusedOnlyWhenSpent` says that a refused key has had as many starts not a window old as
intervals fit a window (`Fits`): that is `Burst`, or one fewer where the rounding is upwards,
as with three starts in two seconds. There the comment's "`burst` starts are allowed back to
back" (`BurstIsAllowed`) does not hold at the very second at which the first of them is a
window old. With the defaults, and wherever the quotient is exact or rounded down, it does
(`BurstIsWhole`).
Bounds: two keys and a map of two (it sweeps), two calls (one overtakes the other), burst 3
in 2 seconds (2/3, which is rounded up), five seconds, four starts of a key.

### Gate

State: for each download its stage and what has become of each of its parts; for
each connection the line at its semaphore, whose first `Inflight` members hold its
permits (tokio's semaphore is fair, and hands a permit to a waiter whether or not it
is polled); the channel and what the client does. A part moves (`Ask`, `Return`) only
while its task polls it: in the pre-flight always, in the body only while it waits
for the next window and `buffered` is full. `End` drops the futures of a task in
whatever state they are.

`GateIsExact` (no permit leaks, nothing is out without one), `BodyIsBounded`,
`ReaderIsServed`: a download whose client keeps reading ends, if paused clients
resume or go in the end. `NoCircle`: downloads that hold permits of some connections
while they wait at others never wait for each other in a circle. `CanMove` spells out when
some step of a download is possible (TLC finds it equal to `ENABLED` of those steps); who
cannot move, and not because of its own client, waits at gates only, and each permit there
is with another download that can move or whose client is paused. `gate_paused` drops that last assumption: then a paused
player's windows keep the permits of the bot and another download's pre-flight waits
without end, against the "absolute ceiling on the whole pre-flight".

`GatesAreFair` is the refinement: `Gate` implements `Semaphore`, with the downloads as
owners, the parts as places, the connections as gates, and as `first` those of who came
before that wait too. `Semaphore` says nothing of stages, attempts or windows: an owner
drops places and takes others, and then the permits that were dropped are with those who
had come first, all that can be out are, and nobody else has lost one or his turn. So
however a retry, a failed half of a head, a client that goes or an end drops its futures,
the other downloads at the gate cannot tell it from one that left in order.

Left out: a head of one part (`prime_window` with a want of at most `MAX_CHUNK`,
`download.rs` 235-262); the two-part head has its steps and one more.
Fairness: tasks that can run do (tokio), Telegram answers or fails (transport
timeouts), a reading client reads. Opening, pausing and closing are never forced.
Bounds: two downloads of five and three parts, two connections with a permit each,
depth 2, a channel of 1, one pause, one failed part; for the paused run one connection.

### Body

The arithmetic of a download over a file whose bytes are their positions: the Range,
the 1 MB-aligned base, the head, the plan of windows, the part size of each fetch (a
fetch starts at the part that holds its offset, so an illegal offset shifts the
bytes), the bytes thrown away, the emission in order. Any window in the pipeline may
be fetched next; failed attempts may change the file's size; any window may fail.
`BytesInOrder`, `WholeBody`, `RangeIsWhatWasAsked` (against a definition byte by
byte), `WindowsAreLegal` (inside a block, aligned, gapless, two parts of 1 MB at most).

`DeliversTheRange` is the refinement: `Body` implements `Delivery`, in which a client asks
for a range, receives at every moment a beginning of it and is left with less only if the
response visibly fails or the file is shorter than the promise. The head, the windows, the
order in which they come and the bytes thrown away at both ends are not seen in it.
Bounds: blocks of 16, parts of 2, 4 or 8, a head of 8: the proportions of `MB`,
`MAX_CHUNK` and `PRIME_BYTES`. Sizes 1, 8, 13, 21, 39 (inside a part, exactly one
part, inside a block, two blocks, three), every Range with bounds up to 40, absent or
no number, on each.

### Tunnel

State: what each cloudflared process does (`proc`, from spawned over published and
connected to dead), the port it serves `/ready` on, the two files (`state`, `pidFile`),
what the log names (`logUrl`), the watchdog's stamp and its 20 s pause (`cooling`),
`STARTING` and the last error, and where each task is: the starts, the restarts, the
disable, the open status requests. A process's address is its own, so it is written as its
pid.

Actions: a step reads or writes files, or kills, spawns or probes. `StartAsync`,
`EnableKill` to `EnableWipe` are `enable`, with both of its waits and all of its ways to
fail; `RestartLoad` to `RestartUndo` are `auto_restart`, which carries the state it read
(`snap`) and writes it back; `StatusBegin` reads and probes, and then a request either
ends (`StatusEnd`), having written a process it found into the state, or finds the stamp old
(`StatusPasses`) and, in a step of its own, touches it and spawns a restart (`StatusTouch`).
Between these two steps another request may pass too, so there may be as many restarts at
work as there are places for (`Restarts`). `DisableKill` and `DisableClear`. Processes
publish, connect and die when they like; the server may be killed, which ends its tasks and
neither files nor processes. `stop` says also whether the disable under way has met anything,
and `crossed` whether a restart ever has; both are history but for their being idle or not.

* `DisabledStaysOff`: a disable that meets no start, no restart past its first look at the
  state and no request that saw the process alive leaves no process and no files; and once
  nothing is recorded and nobody is at work who would record (`Off`), or when no process
  lives either (`Gone`), this lasts until a start is accepted. Status requests that read the
  enabled state before, and restarts that they begin or that have not looked yet, change
  nothing.
* `EveryDisableSwitchesOff`, that this is so after every disable, does not hold; there are
  three ways. A restart past its first look ends after the clear and writes the state
  back, enabled, whether it succeeds (1652-1668) or fails (1644-1647). A request that had
  seen the process alive adopts it after the clear, with the address in the log
  (1778-1796). A start that is under way goes on past both halves of the disable.
* `OneConnector`: two processes live together only where a restart has met a start, a
  disable, another restart or the server's end: double taps and retries alone do not do it.
  That restarts do meet (`OneRestart`, against 1673-1674) is what the stamp does not prevent.
* `FailedStartLeavesNothing`: a start that fails, unless a restart has met something, leaves
  no process behind.
* `Revived`: with a page open, a tunnel that should be up and has no process is started
  again, however often the restart fails.

Left out, and why that is sound for these properties: named tunnels (another wait, the same
files); what the relay is told of the address (nothing here reads it back); a connector
found by its line in the log rather than by `/ready`; the Windows form of
`kill_leftovers`, which looks at ports where the other kills all that run with the
server's config file. A restart finds its cloudflared; the 20 s pause is noted in the state,
and a clear that forgets it is a pause that ends early (`Cools` may end it at any time). The
stamp outlasts a restart, which takes about a minute, and a request between its look and its
touch. Disables come one at a time.

Fairness: restarts and status requests go on (their waits have deadlines); while a page is
open it asks for the status every 30 s (`app.js` 2237-2246), and the stamp gets old. Nothing
is asked of starts, disables and cloudflared.
Bounds: two starts (the second is refused or comes after the first), two pages, of which
the second asks when the first is about to have a dead tunnel restarted, two restarts, at
most three tasks at work at once (`FewMeet`), two processes (one to replace the other), one
kill of the server. That is enough for both requests to pass the stamp and for their
restarts to meet; the proofs have none of these bounds.

### TunnelPanel

The settings page in front of that server: the click on Enable posts, starts the poll and
says "Starting..."; the POST's answer, each tick and each answer of the poll and the
answer of Disable write the status line in whatever order they come. The POST is answered
with "starting", or refused for a token that is none, which ends the poll. The server's steps
are those of `Tunnel`; its status requests are the panel's, one per poll at a time.
`PanelSettles`: the panel does not say "Starting..." for ever, whether the start succeeds,
fails, or neither before the poll's limit, except where a poll ended before the answer of
its click's POST came (`early`): in that order it may, as `StartingEnds` shows.
`PageIsNeverStuck` is the part of it that holds at every moment: "Starting..." is shown only
while a poll goes on, with the same exception, "Stopping..." only while a disable is out, and
the buttons are locked only while an answer is out that unlocks them.

Left out: the page reads the status once when it is loaded and then draws it; requests are
not lost, as the page is the server's own, so what its `catch` paths do (2329-2348,
2371-2380) is not there; a tick waits for the answer of the one before (in the code it does
not, and answers after the end of a poll are ignored).
Bounds: two clicks on Enable (the second poll beside the end of the first), one process, one
restart, a poll of two ticks in place of 80: the limit is reached before, while and after a
start ends.

## 3. Runs

| Run | Expect | Shows | States |
|---|---|---|---|
| `cache` | pass | safety of the three layers under two threads, two flushes, expiry, prefix clears, failed rows and commits, a kill; nothing that was gone comes back, and a write is lost in two ways only | 1 490 741 |
| `cache_flusher` | pass | liveness of the write-behind path | 117 561 |
| `cache_prefix_clear` | violation | a prefix clear loses other prefixes' writes | |
| `cache_invalidate` | violation | an invalidated value is served again | |
| `single_flight` | pass | safety and liveness with four callers | 148 668 |
| `admission` | pass | exact counters and caps, refusals only at the cap | 151 555 |
| `cold_budget` | pass | rate, honest Retry-After, only spent budgets refuse, with a rounded interval | 3 032 977 |
| `gate` | pass | gates exact, memory bounded, no circle of waits, readers served, the gates implement a fair semaphore | 314 769 |
| `gate_paused` | violation | a paused player starves a pre-flight | |
| `body` | pass | the bytes are the right ones, and a client gets the range it was promised | 119 650 |
| `tunnel` | pass | a tunnel that is off stays off until a start, is doubled only where a restart meets something, and comes back when it should be up | 620 109 |
| `tunnel_panel` | pass | the panel waits only for what will come, and comes to an end of "Starting..." | 613 878 |

`CHECK_DEADLOCK FALSE` stands where requests are bounded in number and all of them
may be over.

### Known counterexamples

Statements that one would expect and that do not hold. They are defined in the modules, no
run checks them, and TLC refutes each when it is added to the cfg named.

| Statement | Add to | Why it does not hold |
|---|---|---|
| `SingleFlight!OneUpstreamCall` | `MCSingleFlight.cfg`, `INVARIANT` | a caller that missed before the leader's put claims after the leader's flight is gone, and calls the origin again |
| `ColdBudget!RateHolds` | `MCColdBudget.cfg`, `INVARIANT` | the sweep of a full map forgets keys that have part of their budget to repay; `RateWithoutSweeps` proves that nothing else does |
| `ColdBudget!BurstIsAllowed` | `MCColdBudget.cfg`, `PROPERTY` | 2/3 of a second is rounded up, so three intervals are a grain more than the window, and at the second at which a window is over one of three starts is still counted |
| `Cache!NoLostWrite` | `MCCache.cfg`, `INVARIANT` | a clear of one prefix empties the buffer of all (the run `cache_prefix_clear`); also without any clear, a flush passes another that holds an earlier write of the same key, and the earlier write stays |
| `Tunnel!EveryDisableSwitchesOff` | `MCTunnel.cfg`, `PROPERTY` | a restart past its first look, a status request that saw the process alive, or a start under way goes on after the disable and writes an enabled state |
| `Tunnel!OneRestart` | `MCTunnel.cfg`, `INVARIANT` | two status requests look at the stamp before either touches it, and each begins a restart |
| `TunnelPanel!StartingEnds` | `MCTunnelPanel.cfg`, `PROPERTY` | the POST's answer comes after the poll has ended, and says "Starting..." with no poll left to take it back |

## 4. Proofs

Each proof module extends its component, defines an inductive invariant and shows
`Init => Inv`, `Inv /\ [Next]_vars => Inv'` (a step for each action, and under it a
step for each conjunct it can disturb) and `Inv =>` the property; the temporal step is
the last of each theorem.

| Module | Theorems | Property |
|---|---|---|
| `CacheProofs` | `TypeCorrect`, `L1StaysBounded`, `MemoryOnlyStaysCurrent`, `CacheKeepsPromise`, `LossesAreTheseTwo` | `TypeOK`, `L1Bounded`, `MemoryOnlyIsCurrent`, `NothingComesBack`, `OnlyClearedOrOvertaken` |
| | `WholeClearsLoseNothing` | `NoLostWrite`, under assumptions without which it does not hold |
| | `CopiesAlwaysAgree` | `CopiesAgree` (no run checks it) |
| `SingleFlightProofs` | `TypeCorrect`, `FlightAlwaysHeld`, `NoWaiterForgotten`, `FailureNeverShared` | `TypeOK`, `FlightIsHeld`, `WaiterIsListed`, `FailureIsNotShared` |
| `AdmissionProofs` | `TypeCorrect`, `BodiesStayExact`, `TitlesStayExact`, `CapsAlwaysHold`, `RefusalsAtCapOnly` | `TypeOK`, `BodiesExact`, `TitlesExact`, `CapsHold`, `RefusedOnlyAtCap` |
| | `AllComesBack` | `NothingLeaks` (no run checks it) |
| `ColdBudgetProofs` | `TypeCorrect`, `RateIsKept`, `RetryAlwaysHonest`, `RefusalsJustified` | `TypeOK`, `RateBetweenSweeps`, `RetryIsHonest`, `RefusedOnlyWhenSpent` |
| | `RateWithoutSweeps`, `BurstIsWhole` | `RateHolds`, `BurstIsAllowed`, each under an assumption without which it does not hold |
| `GateProofs` | `GateTyped`, `GatesAreExact`, `BodyBounded`, `WaitsHaveEnds`, `GatesStayFair` | `TypeOK`, `GateIsExact`, `BodyIsBounded`, `NoCircle`, `GatesAreFair` |
| `BodyProofs` | `BodyTyped`, `BodyInOrder`, `BodyWhole`, `RangeRight`, `WindowsLegal`, `BodyDelivers` | `TypeOK`, `BytesInOrder`, `WholeBody`, `RangeIsWhatWasAsked`, `WindowsAreLegal`, `DeliversTheRange` |
| `TunnelProofs` | `TunnelTyped`, `DisablesLast`, `TunnelsOneConnector`, `TunnelsFailedStarts` | `TypeOK`, `DisabledStaysOff`, `OneConnector`, `FailedStartLeavesNothing` |
| `TunnelPanelProofs` | `PanelTyped`, `PanelNeverStuck` | `PanelTypeOK`, `PageIsNeverStuck` |
| | `PanelImplementsTunnel`, `PanelKeepsTunnel` | the page's specification implies the server's, and so all that holds of the server holds behind the page |

What no run checks is there because it follows from, or explains, what a run does check;
each was found to hold by TLC on the instance of its component's run, or one to which its
assumptions apply, before it was proved. `WholeClearsLoseNothing` assumes that clears are of
all keys and that one caller flushes.

The strengthenings and what they are for:

* **Cache.** `TypeInv` adds what the record of an operation holds at each of its points,
  `L1Inv` that a shard holds finitely many keys though there may be infinitely many,
  `MemInv` that without a database nobody is at L2 and L1 holds the last write of what
  it holds. `FlushInv` says that no flush is older than itself and that a clear
  carries what a caller may clear; with it, what the buffer, the flushes in the order in
  which they took it and the database together come to is, for each key, what was queued
  last, or nothing once that has expired (`Kept`). Every step keeps `Kept` of every key but
  two: the clear of a prefix that drops the buffered write of another key (`Overrun`), and
  the commit that passes an earlier one (`Overtaken`). `LossesAreTheseTwo` says so of every
  choice of prefixes and any number of flushes; where only all keys are cleared and one
  caller flushes neither can be, and nothing is lost at all.
* **Cache implements CachePromise.** `CopiesMoveOnly`: a step takes no copy from anywhere but
  a copy, except the one of a put. A put's copy has the version that the put makes
  (`PutKeepsPromise`); `latest` grows by one for a put or an invalidate and stands
  still otherwise (`LatestSteps`).
* **SingleFlight.** `ResultInv`: who has a result, and that a value on its way to a
  follower is that of a call that succeeded.
* **Admission.** `StageInv` (what a request at each stage holds, and that whoever has a
  permit is at a stage that will drop it) and `CountInv` (the caps on the counters);
  counting is over the finite sets of holders. `OpenIsCounted` takes the counter of titles
  for the number of codes a client has open, which is what turns a refusal into a fact
  about its requests.
* **ColdBudget.** The arrival time bounds what was started since the last sweep of the key
  (`KeyInv`); `Charged` bounds it from above, by what the starts after the last one that is
  a window old have added, so that a spent budget has had `Fits` of them. All that is
  needed of the rounding is that `Interval` is positive and that it and `Tolerance` together
  are the window (`Constants`), which holds as no quotient lies half-way between two grains
  (`BudgetAssumption`).
* **Gate.** `StageInv` says what the parts of a download may be at each of its stages,
  `PlaceInv` that exactly the parts at a gate have a place. `LineInv` makes who-came-before
  a line: total and transitive. The lemma `FirstOfLine` then counts the permits: the
  number of those before somebody is different for each, so it takes every value
  below the length of the line, and `Inflight` of them, or all, are below `Inflight`.
  `OutInv`, that what is out keeps its permit, holds because nobody is put before
  somebody in line. For `NoCircle`: at a connection where somebody waits a permit is out
  (`SomebodyHolds`, from `FirstOfLine`); whoever has it polls, or stands still for its
  client alone, so it can use or return it (`HolderMoves`); and who cannot move has every
  part polled, so it holds no permit (`HeldUpWaits`). A chain of waits has therefore one
  link. `DepthInv` counts what `buffered` has and the window in hand.
* **Gate implements Semaphore.** Every step that moves a place drops some places of one
  download and may put others of it last (`StepServes`); the rest keep theirs, so that who
  came before them only gets less (`ShorterPermitted`), and `FirstOfLine` gives the number
  of permits out (`PermitsExact`). Every other step leaves the lines alone
  (`StepStutters`).
* **Body.** Lemmas about division come first, then one for each operator of the module: the
  part size divides its position and no larger one fits (`LimitIs`), a fetch from where a
  part can start gives what is asked for (`FetchIs`), the head passes `start` and ends
  where a part can, or with the file (`HeadIs`, `PrimedIs`), the windows are legal, gapless
  and exactly the bytes of the plan (`WindowsAre`), and a plan is needed only when the head
  came whole and ends at the byte that is next (`CommitIs`). The invariant over the steps is
  `InPlace`, that the next window is where the body is, and `Reaches`, that the last one
  ends where the Range does. The part sizes are assumed to double up to `MaxChunk`, half
  a block: that is what makes a window two parts. For `Delivery`, `Joined` adds
  that what was received of a body under way is exactly as many first bytes of the range
  as `remaining` says are gone, so that what each window adds continues it.
* **Tunnel.** `Named` says that a start that waits has spawned what it waits for. `QuietInv`
  is that while a disable that met nobody is between its kill and its clear, nobody is at
  work who records a process (`Calm`) and no process lives (`Down`). `Off` is `Calm` with
  empty files; `CalmStep` and `OffStep` show that only a start ends them: a restart that
  looks at an empty state ends, a request that saw nothing alive adopts nothing. `OneStart`
  is that `STARTING` lets one start in; `ApartInv` that, until something is crossed, at most
  one restart is past its first look, starts and restarts take turns and find no process
  alive when they spawn.

* **TunnelPanel.** Every step of the page and the server is one of the server or leaves it
  as it is (`PanelStepIsServers`), so the theorems on `Tunnel` carry over without a step of
  their own. `Owed` strengthens `PageIsNeverStuck`: a poll has ended before its POST's answer
  only where `early` says so.

Only model-checked: the liveness properties `WritesReachL2`, `EveryCallerAnswered`,
`ReaderIsServed`, `Revived` and `PanelSettles`. They rest on fairness, hence on `ENABLED`,
which is out of the prover's reach; `NoCircle` and `PageIsNeverStuck` are the parts of
two of them that could be stated as invariants and proved.

Assumptions on the constants are named in the modules (`...Assumption`), are what the
code guarantees of its settings, and are evaluated by every run.

## 5. Not modelled, and the plan

In order of importance:

1. `Preflight`: the bot pick with its fallback, the age of a cached reference, the
   charge of the cold budget, the attempt loop with re-resolve, alternate bot and
   back-off, and what is persisted at the end; state: which bot *minted* the reference
   in hand and which bot's connections are used. Abstract specification: every window
   is fetched by the bot that minted its reference.
2. `EnrolLatch` and `OriginGate`: the latch with its separate time, the stale take-over
   and the release by an old holder; the origin-down deadline against late answers.
3. `ProvisionLock`, `BotPool`, `FloodGate`: the lock file and its reclaim by two waiters,
   boot with its double check, flood waits that must not be shortened.
4. `Resolve`, composed with the abstract cache (`CachePromise`, which `Cache` is proved to
   implement): misses, the fresh memo, the batch lock and memo, the cooldown.
5. `Lookup`: the negative entry of `lookup_id` against `media_ids_upsert`.
6. `AuthLockout`; named tunnels in `Tunnel`, and a second disable beside the first.
7. A composition of `Gate` and `Admission`: slots live exactly as long as bodies.
8. Theorems: the invariants of the new modules.

Out of scope, as listed in `PROJECT.json`: text parsing and matching (`matcher.rs`,
`fileid.rs`, `eclipse.rs`), the tray, packaging, the PHP predecessor, and most of the
JavaScript, which is the bulk of the repository's lines. `app.bundle.js` is the built output
of a separate client, `core-js.bundle.js`, `quickjs-emscripten.global.js`,
`qrcode-generator.js` and `plugin-worker.js` are third-party or generated, `dashboard.js`
and the worker send one request and draw or forward its answer. In `app.js` the tunnel
section is the one part in which requests overlap and share state; its streaming views
(search, category page, file detail) look for the elements `streamApp` and
`categoryPageGrid`, which no shipped page has.
