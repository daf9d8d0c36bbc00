---- MODULE Gate ----
(***************************************************************************)
(* The in-flight gates of one bot, shared by the downloads it serves:      *)
(* BotEntry::pick_slot and fetch_range_core of src/src/telegram.rs, under  *)
(* fetch_prime_gated and the streaming task of src/src/download.rs.        *)
(*                                                                         *)
(* A part is a future: it does nothing unless the task that owns it polls  *)
(* it, and it gives its permit back when it is polled after the reply.     *)
(* The pre-flight polls the two parts of the head while it waits for them; *)
(* the body polls its windows (StreamExt::buffered) only while it waits    *)
(* for the next one, and not while it waits for room in the channel to the *)
(* client.  A semaphore hands a free permit to the first waiter, whether   *)
(* or not that one is being polled.                                        *)
(*                                                                         *)
(* Which bytes a part is about is the module Body; here a part is a        *)
(* number, 1 and 2 the head, and a download has Parts of them.             *)
(***************************************************************************)
EXTENDS Integers, FiniteSets

CONSTANTS
    Streams,    \* the downloads, each of which happens once
    Workers,    \* connections of the bot: --workers
    Inflight,   \* permits of a connection: --inflight
    Depth,      \* pipeline_depth()
    ChanCap,    \* the capacity of the channel to the client
    None,       \* no connection
    Parts,      \* bound: how many parts a download has
    MaxPauses,  \* bound: how often clients stop reading
    MaxErrors   \* bound: how often a part fails

ASSUME GateAssumption ==
    /\ IsFiniteSet(Streams)
    /\ Workers \in Nat \ {0} /\ Inflight \in Nat \ {0}
    /\ Depth \in Nat \ {0} /\ ChanCap \in Nat \ {0}
    /\ Parts \in [Streams -> Nat \ {0, 1}] /\ MaxPauses \in Nat /\ MaxErrors \in Nat

Conns == 0 .. Workers - 1

ASSUME NoneAssumption == None \notin Conns

Indices(s) == 1 .. Parts[s]

(* The parts of each download.                                            *)
PartsOf == [s \in Streams |-> {s} \X Indices(s)]

Of(s) == PartsOf[s]

AllParts == UNION {Of(s) : s \in Streams}

(* The two parts of the head. *)
HeadOf(s) == {<<s, 1>>, <<s, 2>>}

VARIABLES
    stage,    \* where the download is
    part,     \* what has become of each part
    conn,     \* the connection at whose gate it is in line, with or without a permit
    ahead,    \* the parts that came to that gate before it and are still there
    next,     \* BotEntry::next
    slot,     \* the connection of a pre-flight: client_gate
    chan,     \* items in the channel to the client
    client,   \* what the client does
    pauses,   \* how often a client stopped reading
    errors    \* how often a part failed

vars == <<stage, part, conn, ahead, next, slot, chan, client, pauses, errors>>

(* The head is "prime"d, then it and each window is "emit"ted and "pull"ed *)
(* in turn; "top" is the check for a client that has gone.                 *)
Stages == {"idle", "prime", "emit", "top", "pull", "ended"}

(* A part is in line until it is "ready" or "bad", which is when its       *)
(* future is over; it is "gone" when the task has taken what it gave.      *)
States == {"none", "lined", "asked", "replied", "failed", "ready", "bad", "gone"}

AtGate == {"lined", "asked", "replied", "failed"}

Init ==
    /\ stage = [s \in Streams |-> "idle"]
    /\ part = [p \in AllParts |-> "none"]
    /\ conn = [p \in AllParts |-> None]
    /\ ahead = [p \in AllParts |-> {}]
    /\ next = 0
    /\ slot = [s \in Streams |-> 0]
    /\ chan = [s \in Streams |-> 0]
    /\ client = [s \in Streams |-> "reading"]
    /\ pauses = 0 /\ errors = 0

Goto(s, where) == stage' = [stage EXCEPT ![s] = where]

Become(P, what) == part' = [p \in AllParts |-> IF p \in P THEN what ELSE part[p]]

Line(c) == {p \in AllParts : conn[p] = c}

(* A semaphore hands its permits out in the order of its line: the first   *)
(* Inflight of a line have one, polled or not.                             *)
Permitted(p) == conn[p] # None /\ Cardinality(ahead[p]) < Inflight

(* Parts of the set P are last in line at connection c, in their order;    *)
(* other parts of s leave theirs.                                          *)
Join(s, P, c) ==
    LET before == Line(c) \ Of(s) IN
    /\ conn' = [p \in AllParts |-> IF p \in P THEN c ELSE IF p \in Of(s) THEN None ELSE conn[p]]
    /\ ahead' = [p \in AllParts |->
                    IF p \in P THEN before \cup {q \in P : q[2] < p[2]}
                    ELSE IF p \in Of(s) THEN {} ELSE ahead[p] \ Of(s)]

Leave(P) ==
    /\ conn' = [p \in AllParts |-> IF p \in P THEN None ELSE conn[p]]
    /\ ahead' = [p \in AllParts |-> IF p \in P THEN {} ELSE ahead[p] \ P]

(* What buffered() counts: the windows it runs, and those it has finished  *)
(* and not given away.                                                     *)
Buffered(s) == {p \in Of(s) : part[p] \notin {"none", "gone"}}

Unasked(s) == {p \in Of(s) : part[p] = "none"}

Foremost(P) == CHOOSE p \in P : \A q \in P : p[2] <= q[2]

(* Fault: only the windows that still run are counted. *)
FilledRunning(s) ==
    \/ Unasked(s) = {}
    \/ Cardinality({p \in Buffered(s) : part[p] # "ready"}) >= Depth

(* buffered() starts what it may before it polls what it has. *)
Filled(s) == Unasked(s) = {} \/ Cardinality(Buffered(s)) >= Depth

(* Fault: the windows are awaited one after the other, each when it is due. *)
PolledWhenDue(p) ==
    \/ stage[p[1]] = "prime"
    \/ stage[p[1]] = "pull" /\ Filled(p[1]) /\ p = Foremost(Buffered(p[1]))

(* Does the task of part p poll its future. *)
Polled(p) == stage[p[1]] = "prime" \/ (stage[p[1]] = "pull" /\ Filled(p[1]))

(* Fault: the waiters of a task that is over stay in line. *)
EndInLine(s) ==
    /\ Goto(s, "ended")
    /\ Become(Of(s), "gone")
    /\ slot' = [slot EXCEPT ![s] = 0]
    /\ Leave({p \in Of(s) : part[p] # "lined"})

(* A task that is over drops its futures: those with a permit give it      *)
(* back, and those without leave the line.                                 *)
End(s) ==
    /\ Goto(s, "ended")
    /\ Become(Of(s), "gone")
    /\ slot' = [slot EXCEPT ![s] = 0]
    /\ Leave(Of(s))

(* The two parts of the head are sent to connection c. *)
AskHead(s, c) ==
    /\ Become(HeadOf(s), "lined")
    /\ Join(s, HeadOf(s), c)
    /\ slot' = [slot EXCEPT ![s] = c]

PickSlot == next' = (next + 1) % Workers

-----------------------------------------------------------------------------
(* The pre-flight *)

(* The head is asked for over the connection that one pick_slot gave.      *)
Open(s) ==
    /\ stage[s] = "idle"
    /\ Goto(s, "prime")
    /\ AskHead(s, next) /\ PickSlot
    /\ UNCHANGED <<chan, client, pauses, errors>>

(* One part failed, which drops the other: the next attempt is made on the *)
(* same connection with a new reference, or on another after a boot.       *)
Retry(s) ==
    /\ stage[s] = "prime" /\ \E p \in HeadOf(s) : part[p] = "bad"
    /\ \/ AskHead(s, next) /\ PickSlot
       \/ AskHead(s, slot[s]) /\ UNCHANGED next
    /\ UNCHANGED <<stage, chan, client, pauses, errors>>

GiveUp(s) ==
    /\ stage[s] = "prime" /\ \E p \in HeadOf(s) : part[p] = "bad"
    /\ End(s)
    /\ UNCHANGED <<next, chan, client, pauses, errors>>

(* The server drops the handler of a client that has gone. *)
Abandon(s) ==
    /\ stage[s] = "prime" /\ client[s] = "closed"
    /\ End(s)
    /\ UNCHANGED <<next, chan, client, pauses, errors>>

(* The head is there: the body task starts by sending it. *)
Commit(s) ==
    /\ stage[s] = "prime" /\ \A p \in HeadOf(s) : part[p] = "ready"
    /\ Goto(s, "emit")
    /\ Become(HeadOf(s), "gone")
    /\ slot' = [slot EXCEPT ![s] = 0]
    /\ UNCHANGED <<conn, ahead, next, chan, client, pauses, errors>>

-----------------------------------------------------------------------------
(* The body *)

(* Fault: the channel takes whatever it is given. *)
EmitUnbounded(s) ==
    /\ stage[s] = "emit" /\ client[s] # "closed"
    /\ chan' = [chan EXCEPT ![s] = @ + 1]
    /\ Goto(s, "top")
    /\ UNCHANGED <<part, conn, ahead, next, slot, client, pauses, errors>>

(* tx.send has room. *)
Emit(s) ==
    /\ stage[s] = "emit" /\ client[s] # "closed" /\ chan[s] < ChanCap
    /\ chan' = [chan EXCEPT ![s] = @ + 1]
    /\ Goto(s, "top")
    /\ UNCHANGED <<part, conn, ahead, next, slot, client, pauses, errors>>

(* Fault: a send that fails is taken for one that waits. *)
QuitAtTop(s) ==
    /\ stage[s] = "top" /\ client[s] = "closed"
    /\ End(s)
    /\ UNCHANGED <<next, chan, client, pauses, errors>>

(* tx.send fails, or tx.is_closed() says so first. *)
Quit(s) ==
    /\ stage[s] \in {"emit", "top"} /\ client[s] = "closed"
    /\ End(s)
    /\ UNCHANGED <<next, chan, client, pauses, errors>>

Finish(s) ==
    /\ stage[s] = "top" /\ \A p \in Of(s) : part[p] = "gone"
    /\ End(s)
    /\ UNCHANGED <<next, chan, client, pauses, errors>>

Pull(s) ==
    /\ stage[s] = "top" /\ client[s] # "closed" /\ \E p \in Of(s) : part[p] # "gone"
    /\ Goto(s, "pull")
    /\ UNCHANGED <<part, conn, ahead, next, slot, chan, client, pauses, errors>>

(* Fault: a window goes past those that wait. *)
IssuePassing(s) ==
    /\ stage[s] = "pull" /\ ~ Filled(s)
    /\ LET p == Foremost(Unasked(s)) IN
        /\ part' = [part EXCEPT ![p] = "lined"]
        /\ conn' = [conn EXCEPT ![p] = next]
        /\ ahead' = [ahead EXCEPT ![p] = {q \in Line(next) : Permitted(q)}]
    /\ PickSlot
    /\ UNCHANGED <<stage, slot, chan, client, pauses, errors>>

(* The next window of the plan is started, on the next connection. Those   *)
(* of s that wait or run stay where they are.                              *)
Issue(s) ==
    /\ stage[s] = "pull" /\ ~ Filled(s)
    /\ LET p == Foremost(Unasked(s)) IN
        /\ part' = [part EXCEPT ![p] = "lined"]
        /\ conn' = [conn EXCEPT ![p] = next]
        /\ ahead' = [ahead EXCEPT ![p] = Line(next)]
    /\ PickSlot
    /\ UNCHANGED <<stage, slot, chan, client, pauses, errors>>

(* stream.next() gives the windows in the order of the plan. *)
Yield(s) ==
    /\ stage[s] = "pull" /\ Filled(s)
    /\ part[Foremost(Buffered(s))] = "ready"
    /\ part' = [part EXCEPT ![Foremost(Buffered(s))] = "gone"]
    /\ Goto(s, "emit")
    /\ UNCHANGED <<conn, ahead, next, slot, chan, client, pauses, errors>>

Abort(s) ==
    /\ stage[s] = "pull" /\ Filled(s) /\ part[Foremost(Buffered(s))] = "bad"
    /\ End(s)
    /\ UNCHANGED <<next, chan, client, pauses, errors>>

-----------------------------------------------------------------------------
(* A part: fetch_range_core *)

(* Its future is polled and finds the permit. *)
Ask(p) ==
    /\ Polled(p) /\ part[p] = "lined" /\ Permitted(p)
    /\ part' = [part EXCEPT ![p] = "asked"]
    /\ UNCHANGED <<stage, conn, ahead, next, slot, chan, client, pauses, errors>>

(* Telegram answers, or the part fails for good. *)
Reply(p) ==
    /\ part[p] = "asked"
    /\ \/ part' = [part EXCEPT ![p] = "replied"] /\ UNCHANGED errors
       \/ errors < MaxErrors /\ part' = [part EXCEPT ![p] = "failed"] /\ errors' = errors + 1
    /\ UNCHANGED <<stage, conn, ahead, next, slot, chan, client, pauses>>

(* Its future is polled and finds the reply: the permit goes back. *)
Return(p) ==
    /\ Polled(p) /\ part[p] \in {"replied", "failed"}
    /\ part' = [part EXCEPT ![p] = IF @ = "replied" THEN "ready" ELSE "bad"]
    /\ Leave({p})
    /\ UNCHANGED <<stage, next, slot, chan, client, pauses, errors>>

-----------------------------------------------------------------------------
(* The client *)

Read(s) ==
    /\ client[s] = "reading" /\ chan[s] > 0
    /\ chan' = [chan EXCEPT ![s] = @ - 1]
    /\ UNCHANGED <<stage, part, conn, ahead, next, slot, client, pauses, errors>>

Live(s) == stage[s] \notin {"idle", "ended"}

(* A player that is paused stops reading when it has buffered enough. *)
Pause(s) ==
    /\ Live(s) /\ client[s] = "reading" /\ pauses < MaxPauses
    /\ client' = [client EXCEPT ![s] = "paused"]
    /\ pauses' = pauses + 1
    /\ UNCHANGED <<stage, part, conn, ahead, next, slot, chan, errors>>

Resume(s) ==
    /\ client[s] = "paused"
    /\ client' = [client EXCEPT ![s] = "reading"]
    /\ UNCHANGED <<stage, part, conn, ahead, next, slot, chan, pauses, errors>>

(* A seek, a closed tab. *)
Close(s) ==
    /\ Live(s) /\ client[s] # "closed"
    /\ client' = [client EXCEPT ![s] = "closed"]
    /\ UNCHANGED <<stage, part, conn, ahead, next, slot, chan, pauses, errors>>

-----------------------------------------------------------------------------

(* What the task of a download does of its own accord. *)
Work(s) ==
    \/ Retry(s) \/ GiveUp(s) \/ Abandon(s) \/ Commit(s)
    \/ Emit(s) \/ Quit(s) \/ Finish(s) \/ Pull(s) \/ Issue(s) \/ Yield(s) \/ Abort(s)
    \/ \E p \in Of(s) : Ask(p) \/ Return(p)

Next ==
    \E s \in Streams :
        \/ Open(s) \/ Work(s) \/ Read(s) \/ Pause(s) \/ Resume(s) \/ Close(s)
        \/ \E p \in Of(s) : Reply(p)

Spec == Init /\ [][Next]_vars

(* Tasks run, Telegram answers, and a client that reads goes on reading.   *)
(* Nobody has to open, pause or close.                                     *)
TaskFairness ==
    \A s \in Streams :
        /\ WF_vars(Work(s)) /\ WF_vars(Read(s))
        /\ WF_vars(\E p \in Of(s) : Reply(p))

(* A client may stay paused for good. *)
PausedSpec == Spec /\ TaskFairness

(* A client that is paused plays on or goes in the end. *)
FairSpec == PausedSpec /\ \A s \in Streams : WF_vars(Resume(s))

-----------------------------------------------------------------------------
(* Properties *)

(* Every variable has its type; no more than its capacity is in a channel. *)
TypeOK ==
    /\ stage \in [Streams -> Stages]
    /\ part \in [AllParts -> States]
    /\ conn \in [AllParts -> Conns \cup {None}]
    /\ ahead \in [AllParts -> SUBSET AllParts]
    /\ next \in Conns /\ slot \in [Streams -> Conns]
    /\ chan \in [Streams -> 0 .. ChanCap]
    /\ client \in [Streams -> {"reading", "paused", "closed"}]
    /\ pauses \in 0 .. MaxPauses /\ errors \in 0 .. MaxErrors

(* The gates are exact, through drops of futures in every state they can   *)
(* be dropped in: what is out on a connection has one of its permits, a    *)
(* place in line is only ever that of a part a live download waits for,    *)
(* and a connection has Inflight permits out, or as many as it has parts   *)
(* in line: none leaks, none is made up, none lies idle.                   *)
GateIsExact ==
    /\ \A p \in AllParts : part[p] \in {"asked", "replied", "failed"} => Permitted(p)
    /\ \A p \in AllParts : conn[p] # None <=> Live(p[1]) /\ part[p] \in AtGate
    /\ \A c \in Conns :
        Cardinality({p \in Line(c) : Permitted(p)}) =
            IF Cardinality(Line(c)) < Inflight THEN Cardinality(Line(c)) ELSE Inflight

(* The windows of s that are at a gate, and those whose bytes are there.   *)
Waiting(s) == {p \in Of(s) : part[p] \in AtGate}

Fetched(s) == {p \in Of(s) : part[p] \in {"replied", "ready"}}

InHand(s) == IF stage[s] = "emit" THEN 1 ELSE 0

(* A body keeps no more than its pipeline, the window in its hand and its  *)
(* channel in memory, however slow its client, and has no more than Depth  *)
(* places at the gates.                                                    *)
BodyIsBounded ==
    \A s \in Streams : stage[s] \in {"emit", "top", "pull"} =>
        /\ Cardinality(Fetched(s)) + InHand(s) + chan[s] <= Depth + ChanCap
        /\ Cardinality(Waiting(s)) <= Depth

(* Some step can be taken for download s: by its task, for a part of it by  *)
(* Telegram, or by its client reading.                                     *)
CanMove(s) ==
    \/ /\ stage[s] = "prime"
       /\ \/ client[s] = "closed"
          \/ \E p \in HeadOf(s) : part[p] = "bad"
          \/ \A p \in HeadOf(s) : part[p] = "ready"
    \/ stage[s] = "emit" /\ (client[s] = "closed" \/ chan[s] < ChanCap)
    \/ stage[s] = "top"
    \/ stage[s] = "pull" /\ (~ Filled(s) \/ part[Foremost(Buffered(s))] \in {"ready", "bad"})
    \/ \E p \in Of(s) :
        \/ part[p] = "asked"
        \/ part[p] \in {"replied", "failed"} /\ Polled(p)
        \/ part[p] = "lined" /\ Permitted(p) /\ Polled(p)
    \/ client[s] = "reading" /\ chan[s] > 0

(* Its client has stopped reading, and its task waits for that alone.      *)
Stopped(s) == stage[s] = "emit" /\ client[s] = "paused"

Holders(c) == {p \in Line(c) : Permitted(p)}

(* Downloads hold permits of some connections while they wait at others,   *)
(* and never wait for each other in a circle: who is held up, and not by   *)
(* its own client, waits at gates only, and whoever has the permits there  *)
(* is another download that can go on, or one whose client is paused       *)
(* (download.rs:2005-2034, telegram.rs:907-919).                           *)
NoCircle ==
    \A s \in Streams : Live(s) /\ ~ CanMove(s) /\ ~ Stopped(s) =>
        /\ \E p \in Of(s) : part[p] = "lined"
        /\ \A p \in Of(s) : part[p] = "lined" =>
            /\ Holders(conn[p]) # {}
            /\ \A q \in Holders(conn[p]) : q[1] # s /\ (CanMove(q[1]) \/ Stopped(q[1]))

(* The parts that have a permit, and whom of those that wait each of the   *)
(* others must let go first.                                               *)
Out == {p \in AllParts : Permitted(p)}

First == [p \in AllParts |-> {q \in ahead[p] : ~ (Permitted(p) \/ Permitted(q))}]

(* A connection's gate is a fair semaphore to the downloads that share it: *)
(* whichever futures a download drops, retries or starts, the others keep  *)
(* their permits and their turn (fetch_range_core, telegram.rs:907-919).   *)
Fair == INSTANCE Semaphore WITH
    Gates <- Conns,
    Permits <- Inflight,
    Owners <- Streams,
    Places <- PartsOf,
    Nowhere <- None,
    at <- conn,
    out <- Out,
    first <- First

GatesAreFair == Fair!Spec

(* "Requests QUEUE for a permit": a download whose client goes on reading  *)
(* comes to its end, whatever the others do at the gates it shares.        *)
ReaderIsServed ==
    \A s \in Streams : ~ <>[](Live(s) /\ client[s] = "reading")

(* "Absolute ceiling on the whole pre-flight": it ends.  It does not while *)
(* a paused player's body keeps the permits of its windows, which come     *)
(* back only when it is polled.                                            *)
PreflightEnds == \A s \in Streams : stage[s] = "prime" ~> stage[s] # "prime"
====
