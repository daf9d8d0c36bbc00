------------------------------- MODULE Tunnel -------------------------------
(***************************************************************************)
(* src/tunnel.rs: the Cloudflare quick tunnel of the server.  What the      *)
(* server knows of it lies in two files (state.json and cloudflared.pid),   *)
(* read and written whole by four tasks that hold no lock against each      *)
(* other: `enable`, started in the background by the dashboard's POST;      *)
(* `auto_restart`, started by a status request that finds the tunnel dead;  *)
(* `get_tunnel_status`, which also writes the state when the process it     *)
(* finds is not the one recorded; and `disable`.  A step reads or writes    *)
(* the files, or kills, spawns or probes a process; a probe is made in one  *)
(* step with the read of the files that says what to probe.                 *)
(* The stamp that is to keep restarts 300 s apart is such a file too: a      *)
(* status request looks at it in one step and touches it in the next, so    *)
(* that several restarts may be at work at once.                            *)
(*                                                                         *)
(* A process is named by its pid; the address it publishes is its own, so   *)
(* the address of process p is written p, and 0 is none.  Named tunnels     *)
(* (with a token) are not modelled, nor what the relay is told of the       *)
(* address, which nothing here reads.                                       *)
(***************************************************************************)
EXTENDS Integers

CONSTANTS
    Starts,     \* tasks that may run `enable`
    Clients,    \* status requests that may be open at once
    Restarts,   \* tasks that may run `auto_restart`
    MaxPids,    \* cloudflared processes the system may ever spawn
    MaxCrashes  \* kills of the server

ASSUME TunnelAssumption ==
    /\ MaxPids \in Nat
    /\ MaxCrashes \in Nat

VARIABLES
    proc,      \* what each cloudflared process is doing
    port,      \* the metrics port each process was given
    state,     \* state.json
    pidFile,   \* cloudflared.pid; NoPid when there is no such file
    logUrl,    \* the address the last log names
    stamp,     \* .last_autorestart is younger than 300 s
    cooling,   \* a restart has ended, and noted it in the state, less than 20 s ago
    starting,  \* STARTING
    lastError, \* last_error() is set
    start,     \* the `enable` tasks
    restart,   \* the `auto_restart` tasks
    stop,      \* the `disable` request
    status,    \* the open status requests
    crashes,
    crossed    \* history: a restart or a disable has been crossed

disk == <<state, pidFile>>
world == <<proc, port, logUrl>>
clock == <<stamp, cooling>>
flags == <<starting, lastError>>
vars == <<proc, port, state, pidFile, logUrl, stamp, cooling, starting, lastError, start,
          restart, stop, status, crashes, crossed>>

Pids == 1 .. MaxPids
NoPid == -1
NoState == [enabled |-> FALSE, pid |-> 0, url |-> 0, port |-> 0]
States == [enabled: BOOLEAN, pid: 0 .. MaxPids, url: 0 .. MaxPids, port: 0 .. MaxPids]

IdleStart == [at |-> "idle", pid |-> 0]
IdleRestart == [at |-> "idle", snap |-> NoState, pid |-> 0]
IdleStatus == [at |-> "idle", snap |-> NoState, pid |-> 0, alive |-> FALSE]

TypeOK ==
    /\ proc \in [Pids -> {"unused", "up", "published", "connected", "dead"}]
    /\ port \in [Pids -> 0 .. MaxPids]
    /\ state \in States
    /\ pidFile \in {NoPid} \cup Pids
    /\ logUrl \in 0 .. MaxPids
    /\ stamp \in BOOLEAN
    /\ cooling \in BOOLEAN
    /\ starting \in BOOLEAN
    /\ lastError \in BOOLEAN
    /\ start \in [Starts -> [at: {"idle", "kill", "clear", "spawn", "url", "connector",
                                  "undo", "wipe"}, pid: 0 .. MaxPids]]
    /\ restart \in [Restarts -> [at: {"idle", "load", "kill", "spawn", "url", "undo"},
                                 snap: States, pid: 0 .. MaxPids]]
    /\ stop \in {"idle", "clear", "met"}
    /\ status \in [Clients -> [at: {"idle", "probed", "touch"}, snap: States,
                               pid: 0 .. MaxPids, alive: BOOLEAN]]
    /\ crashes \in 0 .. MaxCrashes
    /\ crossed \in BOOLEAN

Init ==
    /\ proc = [p \in Pids |-> "unused"]
    /\ port = [p \in Pids |-> 0]
    /\ state = NoState
    /\ pidFile = NoPid
    /\ logUrl = 0
    /\ stamp = FALSE
    /\ cooling = FALSE
    /\ starting = FALSE
    /\ lastError = FALSE
    /\ start = [s \in Starts |-> IdleStart]
    /\ restart = [w \in Restarts |-> IdleRestart]
    /\ stop = "idle"
    /\ status = [c \in Clients |-> IdleStatus]
    /\ crashes = 0
    /\ crossed = FALSE

-----------------------------------------------------------------------------
(* What the tasks ask of processes and files.                               *)

Live == {p \in Pids : proc[p] \in {"up", "published", "connected"}}
Published == {p \in Pids : proc[p] \in {"published", "connected"}}
Starting == {s \in Starts : start[s].at # "idle"}
Restarting == {w \in Restarts : restart[w].at # "idle"}

(* The restarts that are past their first look at the state.                *)
Acting == {w \in Restarts : restart[w].at \notin {"idle", "load"}}

(* The /ready answer of a metrics port.                                     *)
Ready(q) == \E p \in Pids : proc[p] = "connected" /\ port[p] = q

PidAlive(pid, q) == pid \in Live \/ (q > 0 /\ Ready(q))

ReadPid(file, st) == IF file = NoPid THEN st.pid ELSE file

(* kill_leftovers: the recorded pid, and every cloudflared that runs with   *)
(* this server's config file.                                               *)
KillLeftovers ==
    proc' = [p \in Pids |-> IF p \in Live THEN "dead" ELSE proc[p]]

ClearState ==
    /\ state' = NoState
    /\ pidFile' = NoPid

(* spawn: truncates the log and records the new pid.  A restart passes the  *)
(* metrics port it found in the state, an enable picks a free one.          *)
Spawn(p, q) ==
    /\ proc[p] = "unused"
    /\ \A r \in 1 .. p - 1 : proc[r] # "unused"
    /\ proc' = [proc EXCEPT ![p] = "up"]
    /\ port' = [port EXCEPT ![p] = IF q > 0 THEN q ELSE p]
    /\ pidFile' = p
    /\ logUrl' = 0

(* A spawn that fails has removed the old log and pid file.                 *)
SpawnFails ==
    /\ pidFile' = NoPid
    /\ logUrl' = 0
    /\ UNCHANGED <<proc, port>>

-----------------------------------------------------------------------------
(* enable, behind start_async.                                              *)

(* Fault: a second start is not refused.                                    *)
StartAsyncTwice(s) ==
    /\ start[s] = IdleStart
    /\ starting' = TRUE
    /\ start' = [start EXCEPT ![s].at = "kill"]
    /\ crossed' = (crossed \/ Restarting # {})
    /\ stop' = IF stop = "idle" THEN "idle" ELSE "met"
    /\ UNCHANGED <<disk, world, clock, lastError, restart, status, crashes>>

(* POST /api/tunnel/enable: answered "starting" whether or not a start was  *)
(* already in flight.                                                       *)
StartAsync(s) ==
    /\ IF starting
       THEN UNCHANGED <<starting, start, crossed, stop>>
       ELSE /\ start[s] = IdleStart
            /\ starting' = TRUE
            /\ start' = [start EXCEPT ![s].at = "kill"]
            /\ crossed' = (crossed \/ Restarting # {})
            /\ stop' = IF stop = "idle" THEN "idle" ELSE "met"
    /\ UNCHANGED <<disk, world, clock, lastError, restart, status, crashes>>

StartEnds(s, ok) ==
    /\ start' = [start EXCEPT ![s] = IdleStart]
    /\ starting' = FALSE
    /\ lastError' = ~ok

EnableKill(s) ==
    /\ start[s].at = "kill"
    /\ KillLeftovers
    /\ start' = [start EXCEPT ![s].at = "clear"]
    /\ UNCHANGED <<disk, port, logUrl, clock, flags, restart, stop, status, crashes, crossed>>

EnableClear(s) ==
    /\ start[s].at = "clear"
    /\ ClearState
    /\ start' = [start EXCEPT ![s].at = "spawn"]
    /\ UNCHANGED <<world, clock, flags, restart, stop, status, crashes, crossed>>

EnableSpawn(s) ==
    /\ start[s].at = "spawn"
    /\ \E p \in Pids :
          /\ Spawn(p, 0)
          /\ start' = [start EXCEPT ![s] = [at |-> "url", pid |-> p]]
    /\ UNCHANGED <<state, clock, flags, restart, stop, status, crashes, crossed>>

(* There is no cloudflared to run, or it cannot be run.                     *)
EnableCannotSpawn(s) ==
    /\ start[s].at = "spawn"
    /\ \/ SpawnFails
       \/ UNCHANGED <<pidFile, world>>
    /\ StartEnds(s, FALSE)
    /\ UNCHANGED <<state, clock, restart, stop, status, crashes, crossed>>

(* wait_for_url: up to 90 s, less when the process is gone.                 *)
EnableWaitsForUrl(s) ==
    /\ start[s].at = "url"
    /\ start' = [start EXCEPT ![s].at = IF start[s].pid \in Published THEN "connector"
                                        ELSE "undo"]
    /\ UNCHANGED <<disk, world, clock, flags, restart, stop, status, crashes, crossed>>

(* wait_for_connector: connected, or 30 s are over or the process is gone.  *)
EnableConnected(s) ==
    /\ start[s].at = "connector"
    /\ Ready(port[start[s].pid])
    /\ LET p == start[s].pid
       IN /\ state' = [enabled |-> TRUE, pid |-> p, url |-> p, port |-> port[p]]
          /\ pidFile' = p
    /\ StartEnds(s, TRUE)
    /\ UNCHANGED <<world, clock, restart, stop, status, crashes, crossed>>

EnableNotConnected(s) ==
    /\ start[s].at = "connector"
    /\ ~Ready(port[start[s].pid])
    /\ start' = [start EXCEPT ![s].at = "undo"]
    /\ UNCHANGED <<disk, world, clock, flags, restart, stop, status, crashes, crossed>>

(* Fault: the process is left behind.                                       *)
EnableUndoNothing(s) ==
    /\ start[s].at = "undo"
    /\ start' = [start EXCEPT ![s].at = "wipe"]
    /\ UNCHANGED <<disk, world, clock, flags, restart, stop, status, crashes, crossed>>

(* A start that cannot succeed kills what it has spawned.                   *)
EnableUndo(s) ==
    /\ start[s].at = "undo"
    /\ KillLeftovers
    /\ start' = [start EXCEPT ![s].at = "wipe"]
    /\ UNCHANGED <<disk, port, logUrl, clock, flags, restart, stop, status, crashes, crossed>>

EnableWipe(s) ==
    /\ start[s].at = "wipe"
    /\ ClearState
    /\ StartEnds(s, FALSE)
    /\ UNCHANGED <<world, clock, restart, stop, status, crashes, crossed>>

EnableStep(s) ==
    \/ EnableKill(s) \/ EnableClear(s) \/ EnableSpawn(s) \/ EnableCannotSpawn(s)
    \/ EnableWaitsForUrl(s) \/ EnableConnected(s) \/ EnableNotConnected(s)
    \/ EnableUndo(s) \/ EnableWipe(s)

-----------------------------------------------------------------------------
(* auto_restart: works on the state as it was when it began, and writes     *)
(* that state back whether it succeeds or not, with the time.  It does       *)
(* nothing when another has done so less than 20 s ago.  It finds its        *)
(* cloudflared.                                                             *)

(* Fault: what the status request has read is not read again.               *)
RestartLoadTrusting(w) ==
    /\ restart[w].at = "load"
    /\ restart' = [restart EXCEPT ![w].at = "kill", ![w].snap = [state EXCEPT !.enabled = TRUE]]
    /\ UNCHANGED <<disk, world, clock, flags, start, stop, status, crashes, crossed>>

(* Fault: a recorded pid is taken for a live process.                       *)
RestartLoadUnprobed(w) ==
    /\ restart[w].at = "load"
    /\ IF state.enabled /\ state.pid = 0
       THEN restart' = [restart EXCEPT ![w].at = "kill", ![w].snap = state]
       ELSE restart' = [restart EXCEPT ![w] = IdleRestart]
    /\ UNCHANGED <<disk, world, clock, flags, start, stop, status, crashes, crossed>>

(* The state says that there should be a tunnel, and there is none.         *)
Due == state.enabled /\ ~ (state.pid # 0 /\ PidAlive(state.pid, state.port)) /\ ~cooling

RestartLoad(w) ==
    /\ restart[w].at = "load"
    /\ IF Due
       THEN /\ restart' = [restart EXCEPT ![w].at = "kill", ![w].snap = state]
            /\ crossed' = (crossed \/ Starting # {} \/ Acting # {} \/ stop # "idle")
            /\ stop' = IF stop = "idle" THEN "idle" ELSE "met"
       ELSE /\ restart' = [restart EXCEPT ![w] = IdleRestart]
            /\ UNCHANGED <<crossed, stop>>
    /\ UNCHANGED <<disk, world, clock, flags, start, status, crashes>>

RestartKill(w) ==
    /\ restart[w].at = "kill"
    /\ KillLeftovers
    /\ restart' = [restart EXCEPT ![w].at = "spawn"]
    /\ UNCHANGED <<disk, port, logUrl, clock, flags, start, stop, status, crashes, crossed>>

RestartSpawn(w) ==
    /\ restart[w].at = "spawn"
    /\ \E p \in Pids :
          /\ Spawn(p, restart[w].snap.port)
          /\ restart' = [restart EXCEPT ![w].at = "url", ![w].pid = p]
    /\ UNCHANGED <<state, clock, flags, start, stop, status, crashes, crossed>>

RestartCannotSpawn(w) ==
    /\ restart[w].at = "spawn"
    /\ SpawnFails
    /\ state' = restart[w].snap
    /\ cooling' = TRUE
    /\ restart' = [restart EXCEPT ![w] = IdleRestart]
    /\ UNCHANGED <<stamp, flags, start, stop, status, crashes, crossed>>

(* wait_for_url answers with the address of the new process.                *)
RestartPublished(w) ==
    /\ restart[w].at = "url"
    /\ restart[w].pid \in Published
    /\ LET p == restart[w].pid
       IN /\ state' = [enabled |-> TRUE, pid |-> p, url |-> p, port |-> port[p]]
          /\ pidFile' = p
    /\ cooling' = TRUE
    /\ restart' = [restart EXCEPT ![w] = IdleRestart]
    /\ UNCHANGED <<world, stamp, flags, start, stop, status, crashes, crossed>>

RestartNoUrl(w) ==
    /\ restart[w].at = "url"
    /\ restart[w].pid \notin Published
    /\ state' = restart[w].snap
    /\ cooling' = TRUE
    /\ restart' = [restart EXCEPT ![w].at = "undo"]
    /\ UNCHANGED <<pidFile, world, stamp, flags, start, stop, status, crashes, crossed>>

RestartUndo(w) ==
    /\ restart[w].at = "undo"
    /\ KillLeftovers
    /\ restart' = [restart EXCEPT ![w] = IdleRestart]
    /\ UNCHANGED <<disk, port, logUrl, clock, flags, start, stop, status, crashes, crossed>>

RestartStep(w) ==
    \/ RestartLoad(w) \/ RestartKill(w) \/ RestartSpawn(w) \/ RestartCannotSpawn(w)
    \/ RestartPublished(w) \/ RestartNoUrl(w) \/ RestartUndo(w)

-----------------------------------------------------------------------------
(* GET /api/tunnel/status: reads the files and probes the process, and acts *)
(* on what it read when the probe has answered.                             *)

StatusBegin(c) ==
    /\ status[c] = IdleStatus
    /\ LET pid == ReadPid(pidFile, state)
       IN status' = [status EXCEPT ![c] = [at |-> "probed", snap |-> state, pid |-> pid,
                                           alive |-> PidAlive(pid, state.port)]]
    /\ UNCHANGED <<disk, world, clock, flags, start, restart, stop, crashes, crossed>>

(* The watchdog: the stamp is looked at ...                                 *)
Revives(r) == ~r.alive /\ r.snap.enabled /\ ~stamp

StatusPasses(c) ==
    /\ status[c].at = "probed"
    /\ Revives(status[c])
    /\ status' = [status EXCEPT ![c].at = "touch"]
    /\ UNCHANGED <<disk, world, clock, flags, start, restart, stop, crashes, crossed>>

(* ... and touched, and the restart begun, though another request may have  *)
(* done both meanwhile.  (A dead process is not adopted: the request ends.)  *)
StatusTouch(c) ==
    /\ status[c].at = "touch"
    /\ stamp' = TRUE
    /\ \E w \in Restarts :
          /\ restart[w] = IdleRestart
          /\ restart' = [restart EXCEPT ![w].at = "load"]
    /\ status' = [status EXCEPT ![c] = IdleStatus]
    /\ UNCHANGED <<disk, world, cooling, flags, start, stop, crashes, crossed>>

(* The address the answer names: the one in the state it read, else the one *)
(* the process publishes, else the one in the log.                          *)
UrlSeen(r) ==
    IF ~r.alive \/ r.snap.url # 0 THEN r.snap.url
    ELSE IF r.pid \in Published THEN r.pid ELSE logUrl

(* A live process that is not the recorded one is written into the state.   *)
Adopts(r) ==
    /\ r.alive
    /\ UrlSeen(r) # 0
    /\ UrlSeen(r) # r.snap.url \/ r.pid # r.snap.pid \/ ~r.snap.enabled

Adopted(r) ==
    [enabled |-> TRUE, pid |-> r.pid, url |-> UrlSeen(r), port |-> r.snap.port]

StatusEnd(c) ==
    LET r == status[c]
    IN /\ r.at = "probed"
       /\ ~Revives(r)
       /\ state' = IF Adopts(r) THEN Adopted(r) ELSE state
       /\ status' = [status EXCEPT ![c] = IdleStatus]
       /\ UNCHANGED <<pidFile, world, clock, flags, start, restart, stop, crashes, crossed>>

StatusStep(c) == StatusPasses(c) \/ StatusTouch(c) \/ StatusEnd(c)

(* What the answer says.  A dead process is looked up once more, in case a  *)
(* restart has ended meanwhile; the reason of a start that failed is given  *)
(* when there is neither a tunnel nor a start.                              *)
StatusAnswer(r) ==
    LET pid == ReadPid(pidFile, state)
        again == ~r.alive /\ pid # r.pid
        on == IF again THEN pid # 0 /\ PidAlive(pid, state.port) ELSE r.alive
        url == IF again THEN state.url ELSE UrlSeen(r)
        enabled == on /\ url # 0
    IN [enabled |-> enabled, starting |-> starting,
        error |-> ~enabled /\ ~starting /\ lastError]

-----------------------------------------------------------------------------
(* POST /api/tunnel/disable, one at a time.                                 *)

(* It meets something when a start or a restart is at work, or a status      *)
(* request has seen the process that it kills.                              *)
DisableKill ==
    /\ stop = "idle"
    /\ KillLeftovers
    /\ stop' = IF /\ Starting = {}
                  /\ Acting = {}
                  /\ \A c \in Clients : ~status[c].alive
               THEN "clear" ELSE "met"
    /\ crossed' = (crossed \/ Restarting # {})
    /\ UNCHANGED <<disk, port, logUrl, clock, flags, start, restart, status, crashes>>

(* Fault: the pid file is left with a 0 in it.                              *)
DisableClearZero ==
    /\ stop # "idle"
    /\ state' = NoState
    /\ pidFile' = 0
    /\ stop' = "idle"
    /\ UNCHANGED <<world, clock, flags, start, restart, status, crashes, crossed>>

DisableClear ==
    /\ stop # "idle"
    /\ ClearState
    /\ stop' = "idle"
    /\ UNCHANGED <<world, clock, flags, start, restart, status, crashes, crossed>>

-----------------------------------------------------------------------------
(* cloudflared, the clock and the server's end.                             *)

Publish(p) ==
    /\ proc[p] = "up"
    /\ proc' = [proc EXCEPT ![p] = "published"]
    /\ logUrl' = p
    /\ UNCHANGED <<disk, port, clock, flags, start, restart, stop, status, crashes, crossed>>

Connect(p) ==
    /\ proc[p] = "published"
    /\ proc' = [proc EXCEPT ![p] = "connected"]
    /\ UNCHANGED <<disk, port, logUrl, clock, flags, start, restart, stop, status,
                   crashes, crossed>>

Die(p) ==
    /\ p \in Live
    /\ proc' = [proc EXCEPT ![p] = "dead"]
    /\ UNCHANGED <<disk, port, logUrl, clock, flags, start, restart, stop, status,
                   crashes, crossed>>

(* A restart takes about a minute, the stamp is good for five; nobody takes *)
(* that long between looking at it and touching it.                         *)
StampExpires ==
    /\ stamp
    /\ Restarting = {}
    /\ \A c \in Clients : status[c].at # "touch"
    /\ stamp' = FALSE
    /\ cooling' = FALSE
    /\ UNCHANGED <<disk, world, flags, start, restart, stop, status, crashes, crossed>>

Cools ==
    /\ cooling
    /\ cooling' = FALSE
    /\ UNCHANGED <<disk, world, stamp, flags, start, restart, stop, status, crashes, crossed>>

(* The server is killed: its tasks are gone, cloudflared and the files stay. *)
Crash ==
    /\ crashes < MaxCrashes
    /\ crashes' = crashes + 1
    /\ start' = [s \in Starts |-> IdleStart]
    /\ restart' = [w \in Restarts |-> IdleRestart]
    /\ stop' = "idle"
    /\ status' = [c \in Clients |-> IdleStatus]
    /\ starting' = FALSE
    /\ lastError' = FALSE
    /\ crossed' = (crossed \/ Restarting # {} \/ stop # "idle")
    /\ UNCHANGED <<disk, world, clock>>

Outside ==
    \/ \E p \in Pids : Publish(p) \/ Connect(p) \/ Die(p)
    \/ StampExpires
    \/ Cools
    \/ Crash

Next ==
    \/ \E s \in Starts : StartAsync(s) \/ EnableStep(s)
    \/ \E w \in Restarts : RestartStep(w)
    \/ \E c \in Clients : StatusBegin(c) \/ StatusStep(c)
    \/ DisableKill
    \/ DisableClear
    \/ Outside

Spec == Init /\ [][Next]_vars

(* The server goes on with the restarts and the status requests it has      *)
(* begun; of a start, a disable or cloudflared nothing is asked ...         *)
Serves ==
    /\ \A w \in Restarts : WF_vars(RestartStep(w))
    /\ \A c \in Clients : WF_vars(StatusStep(c))

(* ... while some page stays open, whose watchdog polls every 30 s.         *)
Polled ==
    /\ \A c \in Clients : WF_vars(StatusBegin(c))
    /\ WF_vars(StampExpires)

FairSpec == Spec /\ Serves /\ Polled

-----------------------------------------------------------------------------
(* Nothing is recorded, and nobody is at work who would record a process:    *)
(* no start, no restart past its first look, no status request that has seen *)
(* one alive.  Status requests that read the state before a disable cleared  *)
(* it, and restarts they begin, may still be on their way.                   *)
Off ==
    /\ state = NoState /\ pidFile = NoPid
    /\ Starting = {} /\ Acting = {}
    /\ \A c \in Clients : ~status[c].alive

Gone == Off /\ Live = {}

StartBegins == \E s \in Starts : start[s].at = "idle" /\ start'[s].at = "kill"

(* A tunnel that was switched off stays off until a start is accepted.  A    *)
(* disable that met neither a start, nor a restart past its first look, nor  *)
(* a status request that had seen the process, leaves no process and no      *)
(* files; and from then on, as from the moment when whatever another disable *)
(* met has ended without recording a process, no watchdog or adoption brings *)
(* one back, though it read the state before the clear (tunnel.rs:1860-1866, *)
(* 1591-1604, 1686-1697, 1781-1796).                                         *)
DisabledStaysOff ==
    [][/\ stop = "clear" /\ stop' = "idle" /\ crashes' = crashes => Gone'
       /\ Off => Off' \/ StartBegins
       /\ Gone => Gone' \/ StartBegins]_vars

(* The same of every disable (routes.rs:427-428: disable "kills it and       *)
(* clears the state").  This does not hold: one that has met a restart past  *)
(* its first look, a status request that had seen the process, or a start is *)
(* answered while these are still about to write an enabled state.           *)
EveryDisableSwitchesOff ==
    [][stop # "idle" /\ stop' = "idle" /\ crashes' = crashes => Off']_vars

(* Two cloudflared processes live together only if a watchdog's restart has *)
(* met an enable, a disable, another restart or the server's end: neither a *)
(* double tap nor a retry starts a second one (tunnel.rs:1921-1922).        *)
OneConnector ==
    \A p, q \in Live : p # q => crossed

(* tunnel.rs:1673-1674: the stamp "is touched before the task starts so a    *)
(* poll storm cannot queue more than one restart per 5 minutes".  This does  *)
(* not hold: it is looked at before it is touched, and two requests may both *)
(* look first.                                                              *)
OneRestart ==
    \A v, w \in Restarting : v = w

(* A start that fails leaves no process behind, which nobody would ever     *)
(* stop (routes.rs:443-446), unless a restart has met something.            *)
FailedStartLeavesNothing ==
    [][\A s \in Starts :
          start[s].at # "idle" /\ start'[s].at = "idle" /\ lastError' =>
              crossed \/ (Live = {})']_vars

(* A tunnel that should be up and is not is started again by the polls of   *)
(* an open page, however often the start fails, unless it is disabled       *)
(* (tunnel.rs:1687-1698, 1591-1630).                                        *)
Revived ==
    state.enabled /\ Live = {} ~>
        ~state.enabled \/ Live # {} \/ \E w \in Restarts : restart[w].at = "spawn"

=============================================================================
