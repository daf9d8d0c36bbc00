---- MODULE TunnelProofs ----
(***************************************************************************)
(* What holds of Tunnel for any starts, status requests, processes and     *)
(* kills of the server.                                                    *)
(***************************************************************************)
EXTENDS Tunnel, TLAPS

StartType ==
    [at: {"idle", "kill", "clear", "spawn", "url", "connector", "undo", "wipe"},
     pid: 0 .. MaxPids]

RestartType ==
    [at: {"idle", "load", "kill", "spawn", "url", "undo"}, snap: States, pid: 0 .. MaxPids]

StatusType ==
    [at: {"idle", "probed", "touch"}, snap: States, pid: 0 .. MaxPids, alive: BOOLEAN]

(* The names of the types above keep the provers out of the records.       *)
LEMMA TypeIs ==
    TypeOK <=>
        /\ proc \in [Pids -> {"unused", "up", "published", "connected", "dead"}]
        /\ port \in [Pids -> 0 .. MaxPids]
        /\ state \in States
        /\ pidFile \in {NoPid} \cup Pids
        /\ logUrl \in 0 .. MaxPids
        /\ stamp \in BOOLEAN /\ cooling \in BOOLEAN /\ starting \in BOOLEAN /\ lastError \in BOOLEAN
        /\ start \in [Starts -> StartType]
        /\ restart \in [Restarts -> RestartType]
        /\ stop \in {"idle", "clear", "met"}
        /\ status \in [Clients -> StatusType]
        /\ crashes \in 0 .. MaxCrashes
        /\ crossed \in BOOLEAN
BY DEF TypeOK, StartType, RestartType, StatusType

LEMMA PidsAre == Pids \subseteq 0 .. MaxPids /\ 0 \in 0 .. MaxPids
BY TunnelAssumption DEF Pids

LEMMA IdleTypes ==
    /\ NoState \in States /\ NoState.enabled = FALSE
    /\ IdleStart \in StartType /\ IdleStart.at = "idle"
    /\ IdleRestart \in RestartType /\ IdleRestart.at = "idle"
    /\ IdleStatus \in StatusType /\ IdleStatus.at = "idle"
<1>1. NoState \in States /\ NoState.enabled = FALSE
  BY PidsAre DEF NoState, States
<1>2. IdleStart \in StartType /\ IdleStart.at = "idle"
  BY PidsAre DEF IdleStart, StartType
<1>3. IdleRestart \in RestartType /\ IdleRestart.at = "idle"
  BY <1>1, PidsAre DEF IdleRestart, RestartType
<1>4. IdleStatus \in StatusType /\ IdleStatus.at = "idle"
  BY <1>1, PidsAre DEF IdleStatus, StatusType
<1>5. QED
  BY <1>1, <1>2, <1>3, <1>4

(* Steps that move a task on.                                              *)
LEMMA StartMoves ==
    ASSUME start \in [Starts -> StartType], NEW s \in Starts,
           NEW where \in {"idle", "kill", "clear", "spawn", "url", "connector", "undo", "wipe"}
    PROVE  [start EXCEPT ![s].at = where] \in [Starts -> StartType]
BY DEF StartType

LEMMA RestartMoves ==
    ASSUME restart \in [Restarts -> RestartType], NEW w \in Restarts,
           NEW where \in {"idle", "load", "kill", "spawn", "url", "undo"}
    PROVE  [restart EXCEPT ![w].at = where] \in [Restarts -> RestartType]
BY DEF RestartType

LEMMA SnapType ==
    /\ \A r \in RestartType : r.snap \in States /\ r.pid \in 0 .. MaxPids
    /\ \A r \in StatusType : r.snap \in States /\ r.pid \in 0 .. MaxPids
    /\ \A r \in StartType : r.pid \in 0 .. MaxPids
    /\ \A st \in States : /\ st.pid \in 0 .. MaxPids /\ st.url \in 0 .. MaxPids
                          /\ st.port \in 0 .. MaxPids
BY DEF RestartType, StatusType, StartType, States

LEMMA StateType ==
    ASSUME NEW on \in BOOLEAN, NEW p \in 0 .. MaxPids, NEW u \in 0 .. MaxPids,
           NEW q \in 0 .. MaxPids
    PROVE  [enabled |-> on, pid |-> p, url |-> u, port |-> q] \in States
BY DEF States

LEMMA KillType ==
    ASSUME proc \in [Pids -> {"unused", "up", "published", "connected", "dead"}], KillLeftovers
    PROVE  proc' \in [Pids -> {"unused", "up", "published", "connected", "dead"}]
BY DEF KillLeftovers

LEMMA SpawnType ==
    ASSUME proc \in [Pids -> {"unused", "up", "published", "connected", "dead"}],
           port \in [Pids -> 0 .. MaxPids], NEW p \in Pids, NEW q \in 0 .. MaxPids, Spawn(p, q)
    PROVE  /\ proc' \in [Pids -> {"unused", "up", "published", "connected", "dead"}]
           /\ port' \in [Pids -> 0 .. MaxPids]
           /\ pidFile' \in {NoPid} \cup Pids
           /\ logUrl' \in 0 .. MaxPids
BY PidsAre DEF Spawn

LEMMA ReadPidType ==
    ASSUME pidFile \in {NoPid} \cup Pids, state \in States
    PROVE  ReadPid(pidFile, state) \in 0 .. MaxPids
BY PidsAre, SnapType DEF ReadPid

LEMMA AdoptedType ==
    ASSUME NEW r \in StatusType, logUrl \in 0 .. MaxPids
    PROVE  Adopted(r) \in States
<1>1. UrlSeen(r) \in 0 .. MaxPids
  BY SnapType DEF UrlSeen
<1>2. QED
  BY <1>1, SnapType, StateType DEF Adopted

(* Every task starts idle, with no process and no file.                    *)
LEMMA TypeInit == Init => TypeOK
<1> SUFFICES ASSUME Init PROVE TypeOK
  OBVIOUS
<1>1. /\ proc \in [Pids -> {"unused", "up", "published", "connected", "dead"}]
      /\ port \in [Pids -> 0 .. MaxPids]
      /\ logUrl \in 0 .. MaxPids
  BY PidsAre DEF Init
<1>2. state \in States /\ pidFile \in {NoPid} \cup Pids
  BY IdleTypes DEF Init
<1>3. /\ start \in [Starts -> StartType]
      /\ restart \in [Restarts -> RestartType]
      /\ status \in [Clients -> StatusType]
  BY IdleTypes DEF Init
<1>4. stamp \in BOOLEAN /\ cooling \in BOOLEAN /\ starting \in BOOLEAN /\ lastError \in BOOLEAN /\ crossed \in BOOLEAN
  BY DEF Init
<1>5. /\ stop \in {"idle", "clear", "met"}
      /\ crashes \in 0 .. MaxCrashes
  BY TunnelAssumption DEF Init
<1>6. QED
  BY <1>1, <1>2, <1>3, <1>4, <1>5, TypeIs

(* A start that waits for a process has spawned it.                        *)
Named == \A s \in Starts : start[s].at \in {"url", "connector"} => start[s].pid \in Pids

(* What a step does to one start.                                          *)
NamedOrNot(s) ==
    \/ start'[s] = start[s]
    \/ start'[s].at \notin {"url", "connector"}
    \/ start'[s].at = "url" /\ start'[s].pid \in Pids
    \/ start[s].at = "url" /\ start'[s].at = "connector" /\ start'[s].pid = start[s].pid

LEMMA StartStep ==
    ASSUME start \in [Starts -> StartType], [Next]_vars, NEW s \in Starts
    PROVE  NamedOrNot(s)
<1>0. start' = start => NamedOrNot(s)
  BY DEF NamedOrNot
<1>1. ASSUME NEW t \in Starts, StartAsync(t) PROVE NamedOrNot(s)
  <2>1. CASE start' = [start EXCEPT ![t].at = "kill"]
    BY <2>1 DEF NamedOrNot, StartType
  <2>2. QED
    BY <1>0, <1>1, <2>1 DEF StartAsync
<1>2. ASSUME NEW t \in Starts,
             EnableKill(t) \/ EnableClear(t) \/ EnableUndo(t) \/ EnableNotConnected(t)
      PROVE  NamedOrNot(s)
  BY <1>2 DEF EnableKill, EnableClear, EnableUndo, EnableNotConnected, NamedOrNot, StartType
<1>3. ASSUME NEW t \in Starts, EnableSpawn(t) PROVE NamedOrNot(s)
  BY <1>3 DEF EnableSpawn, NamedOrNot, StartType
<1>4. ASSUME NEW t \in Starts, EnableCannotSpawn(t) \/ EnableConnected(t) \/ EnableWipe(t)
      PROVE  NamedOrNot(s)
  BY <1>4, IdleTypes
  DEF EnableCannotSpawn, EnableConnected, EnableWipe, StartEnds, NamedOrNot, StartType
<1>5. ASSUME NEW t \in Starts, EnableWaitsForUrl(t) PROVE NamedOrNot(s)
  BY <1>5 DEF EnableWaitsForUrl, NamedOrNot, StartType
<1>6. CASE Crash
  BY <1>6, IdleTypes DEF Crash, NamedOrNot
<1>7. CASE \/ \E w \in Restarts : RestartStep(w)
           \/ DisableKill \/ DisableClear \/ UNCHANGED vars \/ StampExpires \/ Cools
           \/ \E p \in Pids : Publish(p) \/ Connect(p) \/ Die(p)
           \/ \E c \in Clients : StatusBegin(c) \/ StatusStep(c)
  BY <1>0, <1>7
  DEF RestartStep, RestartLoad, RestartKill, RestartSpawn, RestartCannotSpawn, RestartPublished,
      RestartNoUrl, RestartUndo, DisableKill, DisableClear, vars, StampExpires, Cools, Publish,
      Connect, Die, StatusBegin, StatusStep, StatusPasses, StatusTouch, StatusEnd
<1>8. QED
  BY <1>1, <1>2, <1>3, <1>4, <1>5, <1>6, <1>7 DEF Next, EnableStep, Outside

LEMMA NamedStep == TypeOK /\ Named /\ [Next]_vars => Named'
<1> SUFFICES ASSUME TypeOK, Named, [Next]_vars PROVE Named'
  OBVIOUS
<1>1. start \in [Starts -> StartType]
  BY TypeIs
<1>2. ASSUME NEW s \in Starts, start'[s].at \in {"url", "connector"} PROVE start'[s].pid \in Pids
  <2>1. NamedOrNot(s)
    BY <1>1, StartStep
  <2>2. start[s].at \in {"url", "connector"} => start[s].pid \in Pids
    BY DEF Named
  <2>3. QED
    BY <1>2, <2>1, <2>2 DEF NamedOrNot
<1>3. QED
  BY <1>2 DEF Named

LEMMA TypeStep == TypeOK /\ Named /\ [Next]_vars => TypeOK'
<1> SUFFICES ASSUME TypeOK, Named, [Next]_vars PROVE TypeOK'
  OBVIOUS
<1> DEFINE T == /\ proc \in [Pids -> {"unused", "up", "published", "connected", "dead"}]
                /\ port \in [Pids -> 0 .. MaxPids]
                /\ state \in States
                /\ pidFile \in {NoPid} \cup Pids
                /\ logUrl \in 0 .. MaxPids
                /\ stamp \in BOOLEAN /\ cooling \in BOOLEAN /\ starting \in BOOLEAN /\ lastError \in BOOLEAN
                /\ start \in [Starts -> StartType]
                /\ restart \in [Restarts -> RestartType]
                /\ stop \in {"idle", "clear", "met"}
                /\ status \in [Clients -> StatusType]
                /\ crashes \in 0 .. MaxCrashes
                /\ crossed \in BOOLEAN
<1>t. T
  BY TypeIs
<1>u. SUFFICES T'
  BY DEF TypeOK, StartType, RestartType, StatusType
<1>1. ASSUME NEW s \in Starts, StartAsync(s) PROVE T'
  BY <1>t, <1>1, StartMoves DEF StartAsync, disk, world, clock
<1>2. ASSUME NEW s \in Starts, EnableKill(s) \/ EnableUndo(s) PROVE T'
  <2>0. PICK where \in {"clear", "wipe"} : start' = [start EXCEPT ![s].at = where]
    BY <1>2 DEF EnableKill, EnableUndo
  <2>1. KillLeftovers /\ start' \in [Starts -> StartType]
    BY <1>t, <1>2, <2>0, StartMoves DEF EnableKill, EnableUndo
  <2>2. proc' \in [Pids -> {"unused", "up", "published", "connected", "dead"}]
    BY <1>t, <2>1, KillType
  <2>3. QED
    BY <1>t, <1>2, <2>1, <2>2 DEF EnableKill, EnableUndo, disk, clock, flags
<1>3. ASSUME NEW s \in Starts, EnableClear(s) PROVE T'
  BY <1>t, <1>3, StartMoves, IdleTypes DEF EnableClear, ClearState, world, clock, flags
<1>4. ASSUME NEW s \in Starts, EnableSpawn(s) PROVE T'
  <2>1. PICK p \in Pids : Spawn(p, 0) /\ start' = [start EXCEPT ![s] = [at |-> "url", pid |-> p]]
    BY <1>4 DEF EnableSpawn
  <2>2. [at |-> "url", pid |-> p] \in StartType
    BY PidsAre DEF StartType
  <2>3. start' \in [Starts -> StartType]
    BY <1>t, <2>1, <2>2
  <2>4. QED
    BY <1>t, <1>4, <2>1, <2>3, SpawnType, PidsAre DEF EnableSpawn, clock, flags
<1>5. ASSUME NEW s \in Starts, EnableCannotSpawn(s) PROVE T'
  BY <1>t, <1>5, IdleTypes, PidsAre DEF EnableCannotSpawn, SpawnFails, StartEnds, world, clock
<1>6. ASSUME NEW s \in Starts, EnableWaitsForUrl(s) \/ EnableNotConnected(s) PROVE T'
  <2>1. PICK where \in {"connector", "undo"} : start' = [start EXCEPT ![s].at = where]
    BY <1>6 DEF EnableWaitsForUrl, EnableNotConnected
  <2>2. start' \in [Starts -> StartType]
    BY <1>t, <2>1, StartMoves
  <2>3. QED
    BY <1>t, <1>6, <2>2 DEF EnableWaitsForUrl, EnableNotConnected, disk, world, clock, flags
<1>7. ASSUME NEW s \in Starts, EnableConnected(s) PROVE T'
  <2>1. start[s].pid \in Pids
    BY <1>7 DEF EnableConnected, Named
  <2>2. QED
    BY <1>t, <1>7, <2>1, IdleTypes, StateType, PidsAre DEF EnableConnected, StartEnds, world, clock
<1>8. ASSUME NEW s \in Starts, EnableWipe(s) PROVE T'
  BY <1>t, <1>8, IdleTypes DEF EnableWipe, ClearState, StartEnds, world, clock
<1>9. ASSUME NEW w \in Restarts, RestartLoad(w) PROVE T'
  <2>1. restart' \in [Restarts -> RestartType]
    BY <1>t, <1>9, IdleTypes DEF RestartLoad, RestartType
  <2>2. QED
    BY <1>t, <1>9, <2>1 DEF RestartLoad, disk, world, clock, flags
<1>10. ASSUME NEW w \in Restarts, RestartKill(w) \/ RestartUndo(w) PROVE T'
  <2>0. ASSUME restart' = [restart EXCEPT ![w] = IdleRestart]
        PROVE  restart' \in [Restarts -> RestartType]
    BY <1>t, <2>0, IdleTypes
  <2>1. ASSUME restart' = [restart EXCEPT ![w].at = "spawn"]
        PROVE  restart' \in [Restarts -> RestartType]
    BY <1>t, <2>1, RestartMoves
  <2>2. proc' \in [Pids -> {"unused", "up", "published", "connected", "dead"}]
    BY <1>t, <1>10, KillType DEF RestartKill, RestartUndo
  <2>3. QED
    BY <1>t, <1>10, <2>0, <2>1, <2>2 DEF RestartKill, RestartUndo, disk, clock, flags
<1>11. ASSUME NEW w \in Restarts, RestartSpawn(w) PROVE T'
  <2>1. PICK p \in Pids : /\ Spawn(p, restart[w].snap.port)
                          /\ restart' = [restart EXCEPT ![w].at = "url", ![w].pid = p]
    BY <1>11 DEF RestartSpawn
  <2>2. restart' \in [Restarts -> RestartType]
    BY <1>t, <2>1, PidsAre DEF RestartType
  <2>3. restart[w].snap.port \in 0 .. MaxPids
    BY <1>t, SnapType
  <2>4. QED
    BY <1>t, <1>11, <2>1, <2>2, <2>3, SpawnType DEF RestartSpawn, clock, flags
<1>12. ASSUME NEW w \in Restarts, RestartCannotSpawn(w) PROVE T'
  BY <1>t, <1>12, IdleTypes, SnapType, PidsAre DEF RestartCannotSpawn, SpawnFails, flags
<1>13. ASSUME NEW w \in Restarts, RestartPublished(w) PROVE T'
  <2>1. restart[w].pid \in Pids
    BY <1>13 DEF RestartPublished, Published
  <2>2. QED
    BY <1>t, <1>13, <2>1, IdleTypes, StateType, PidsAre DEF RestartPublished, world, flags
<1>14. ASSUME NEW w \in Restarts, RestartNoUrl(w) PROVE T'
  BY <1>t, <1>14, RestartMoves, SnapType DEF RestartNoUrl, world, flags
<1>15. ASSUME NEW c \in Clients, StatusBegin(c) PROVE T'
  <2>1. PICK pid, alive : /\ pid = ReadPid(pidFile, state)
                          /\ alive = PidAlive(pid, state.port)
    OBVIOUS
  <2>2. pid \in 0 .. MaxPids /\ alive \in BOOLEAN
    BY <1>t, <2>1, ReadPidType DEF PidAlive
  <2>3. [at |-> "probed", snap |-> state, pid |-> pid, alive |-> alive] \in StatusType
    BY <1>t, <2>2 DEF StatusType
  <2>4. status' \in [Clients -> StatusType]
    BY <1>t, <1>15, <2>1, <2>3 DEF StatusBegin
  <2>5. QED
    BY <1>t, <1>15, <2>4 DEF StatusBegin, disk, world, clock, flags
<1>16. ASSUME NEW c \in Clients, StatusStep(c) PROVE T'
  <2>1. CASE StatusPasses(c)
    <3>1. status' \in [Clients -> StatusType]
      BY <1>t, <2>1 DEF StatusPasses, StatusType
    <3>2. QED
      BY <1>t, <2>1, <3>1 DEF StatusPasses, disk, world, clock, flags
  <2>2. CASE StatusTouch(c)
    <3>1. restart' \in [Restarts -> RestartType]
      BY <1>t, <2>2, RestartMoves DEF StatusTouch
    <3>2. QED
      BY <1>t, <2>2, <3>1, IdleTypes DEF StatusTouch, disk, world, flags
  <2>3. CASE StatusEnd(c)
    <3>1. status[c] \in StatusType
      BY <1>t
    <3>2. state' \in States
      BY <1>t, <2>3, <3>1, AdoptedType DEF StatusEnd
    <3>3. QED
      BY <1>t, <2>3, <3>2, IdleTypes DEF StatusEnd, world, clock, flags
  <2>4. QED
    BY <1>16, <2>1, <2>2, <2>3 DEF StatusStep
<1>17. CASE DisableKill
  BY <1>t, <1>17, KillType DEF DisableKill, disk, clock, flags
<1>18. CASE DisableClear
  BY <1>t, <1>18, IdleTypes DEF DisableClear, ClearState, world, clock, flags
<1>19. ASSUME NEW p \in Pids, Publish(p) \/ Connect(p) \/ Die(p) PROVE T'
  BY <1>t, <1>19, PidsAre DEF Publish, Connect, Die, disk, clock, flags
<1>20. CASE StampExpires \/ Cools
  BY <1>t, <1>20 DEF StampExpires, Cools, disk, world, clock, flags
<1>21. CASE Crash
  <2>1. crashes' \in 0 .. MaxCrashes
    BY <1>t, <1>21, TunnelAssumption DEF Crash
  <2>2. QED
    BY <1>t, <1>21, <2>1, IdleTypes DEF Crash, disk, world, clock
<1>22. CASE UNCHANGED vars
  BY <1>t, <1>22 DEF vars
<1>23. QED
  BY <1>1, <1>2, <1>3, <1>4, <1>5, <1>6, <1>7, <1>8, <1>9, <1>10, <1>11, <1>12, <1>13,
     <1>14, <1>15, <1>16, <1>17, <1>18, <1>19, <1>20, <1>21, <1>22
  DEF Next, EnableStep, RestartStep, Outside

(* The files, the processes and the tasks keep their types.                *)
THEOREM TunnelTyped == Spec => []TypeOK
<1>1. Init => Named
  BY IdleTypes DEF Init, Named
<1>2. QED
  BY <1>1, TypeInit, NamedStep, TypeStep, PTL DEF Spec

-----------------------------------------------------------------------------
(* What a disable leaves.                                                  *)

Down == \A p \in Pids : proc[p] \notin {"up", "published", "connected"}

(* No task that will record a process, no request that saw one alive.      *)
Calm ==
    /\ \A s \in Starts : start[s].at = "idle"
    /\ \A w \in Restarts : restart[w].at \in {"idle", "load"}
    /\ \A c \in Clients : ~status[c].alive

(* From the kill of a disable that met nothing to its clear no process      *)
(* lives and nobody is about to spawn one.                                 *)
QuietInv == stop = "clear" => Calm /\ Down

LEMMA DownIs == Down <=> Live = {}
BY DEF Down, Live

LEMMA OffIs == Off <=> state = NoState /\ pidFile = NoPid /\ Calm
BY DEF Off, Calm, Starting, Acting

LEMMA DownKill == KillLeftovers => Down'
BY DEF KillLeftovers, Down, Live

(* With no process alive, or none recorded, a probe finds none.            *)
LEMMA DownProbe ==
    ASSUME Down, NEW pid, NEW q
    PROVE  ~PidAlive(pid, q)
BY DEF Down, PidAlive, Live, Ready

LEMMA OffProbe ==
    ASSUME state = NoState, pidFile = NoPid
    PROVE  ~PidAlive(ReadPid(pidFile, state), state.port) /\ ~state.enabled
BY PidsAre DEF ReadPid, PidAlive, Live, NoState, NoPid, Pids

(* The steps of a calm tunnel whose probes find nothing: a start begins, a  *)
(* restart finds an enabled state, or it stays calm and nothing is          *)
(* recorded or spawned.                                                    *)
Begins == StartBegins /\ proc' = proc /\ stop' # "clear"

Restarted == state.enabled /\ stop' # "clear"

StaysCalm ==
    /\ Calm'
    /\ UNCHANGED <<state, pidFile>> \/ (state' = NoState /\ pidFile' = NoPid)
    /\ Down => Down'

LEMMA CalmStep ==
    ASSUME TypeOK, Calm, [Next]_vars, ~PidAlive(ReadPid(pidFile, state), state.port)
    PROVE  Begins \/ Restarted \/ StaysCalm
<1>t. /\ start \in [Starts -> StartType]
      /\ restart \in [Restarts -> RestartType]
      /\ status \in [Clients -> StatusType]
  BY TypeIs
<1>c. /\ \A s \in Starts : start[s].at = "idle"
      /\ \A w \in Restarts : restart[w].at \in {"idle", "load"}
      /\ \A c \in Clients : ~status[c].alive
  BY DEF Calm
<1>same. ASSUME UNCHANGED <<proc, state, pidFile, start, restart, status>>
         PROVE  StaysCalm
  BY <1>c, <1>same DEF StaysCalm, Calm, Down
<1>1. ASSUME NEW s \in Starts, StartAsync(s) PROVE Begins \/ StaysCalm
  <2>1. CASE starting
    BY <1>same, <1>1, <2>1 DEF StartAsync, disk, world
  <2>2. CASE ~starting
    <3>1. start' = [start EXCEPT ![s].at = "kill"] /\ proc' = proc /\ stop' # "clear"
      BY <1>1, <2>2 DEF StartAsync, world
    <3>2. start'[s].at = "kill"
      BY <1>t, <3>1 DEF StartType
    <3>3. QED
      BY <1>c, <3>1, <3>2 DEF Begins, StartBegins
  <2>3. QED
    BY <2>1, <2>2
<1>2. ASSUME NEW s \in Starts, EnableStep(s) PROVE FALSE
  BY <1>c, <1>2
  DEF EnableStep, EnableKill, EnableClear, EnableSpawn, EnableCannotSpawn, EnableWaitsForUrl,
      EnableConnected, EnableNotConnected, EnableUndo, EnableWipe
<1>3. ASSUME NEW w \in Restarts, RestartStep(w) PROVE Restarted \/ StaysCalm
  <2>1. RestartLoad(w)
    <3>1. restart[w].at \in {"idle", "load"}
      BY <1>c
    <3>2. QED
      BY <1>3, <3>1
      DEF RestartStep, RestartKill, RestartSpawn, RestartCannotSpawn, RestartPublished,
          RestartNoUrl, RestartUndo
  <2>2. CASE ~Due
    <3>1. /\ UNCHANGED <<proc, state, pidFile, start, status>>
          /\ restart' = [restart EXCEPT ![w] = IdleRestart]
      BY <2>1, <2>2 DEF RestartLoad, disk, world
    <3>2. \A v \in Restarts : restart'[v].at \in {"idle", "load"}
      BY <1>t, <1>c, <3>1, IdleTypes
    <3>3. QED
      BY <1>c, <3>1, <3>2 DEF StaysCalm, Calm, Down
  <2>3. CASE Due
    BY <2>1, <2>3 DEF RestartLoad, Due, Restarted
  <2>4. QED
    BY <2>2, <2>3
<1>4. ASSUME NEW c \in Clients, StatusBegin(c) PROVE StaysCalm
  <2>1. PICK r : status' = [status EXCEPT ![c] = r] /\ ~r.alive
    <3>1. PICK pid, alive : /\ pid = ReadPid(pidFile, state)
                            /\ alive = PidAlive(pid, state.port)
      OBVIOUS
    <3>2. status' = [status EXCEPT ![c] = [at |-> "probed", snap |-> state, pid |-> pid,
                                           alive |-> alive]]
      BY <1>4, <3>1 DEF StatusBegin
    <3>3. ~[at |-> "probed", snap |-> state, pid |-> pid, alive |-> alive].alive
      BY <3>1
    <3>4. QED
      BY <3>2, <3>3
  <2>2. \A d \in Clients : ~status'[d].alive
    BY <1>t, <1>c, <2>1
  <2>3. UNCHANGED <<proc, state, pidFile, start, restart>>
    BY <1>4 DEF StatusBegin, disk, world
  <2>4. QED
    BY <1>c, <2>2, <2>3 DEF StaysCalm, Calm, Down
<1>5. ASSUME NEW c \in Clients, StatusStep(c) PROVE StaysCalm
  <2>1. \A w \in Restarts : restart'[w].at \in {"idle", "load"}
    BY <1>t, <1>c, <1>5
    DEF StatusStep, StatusPasses, StatusTouch, StatusEnd, RestartType
  <2>2. \A d \in Clients : ~status'[d].alive
    <3>1. ~IdleStatus.alive
      BY DEF IdleStatus
    <3>2. CASE status' = [status EXCEPT ![c] = IdleStatus]
      BY <1>t, <1>c, <3>1, <3>2
    <3>3. CASE status' = [status EXCEPT ![c].at = "touch"]
      BY <1>t, <1>c, <3>3 DEF StatusType
    <3>4. QED
      BY <1>5, <3>2, <3>3 DEF StatusStep, StatusPasses, StatusTouch, StatusEnd
  <2>3. ~Adopts(status[c])
    BY <1>c DEF Adopts
  <2>4. UNCHANGED <<proc, state, pidFile, start>>
    BY <1>5, <2>3 DEF StatusStep, StatusPasses, StatusTouch, StatusEnd, disk, world
  <2>5. QED
    BY <1>c, <2>1, <2>2, <2>4 DEF StaysCalm, Calm, Down
<1>6. ASSUME DisableKill PROVE StaysCalm
  <2>1. UNCHANGED <<state, pidFile, start, restart, status>> /\ Down'
    BY <1>6, DownKill DEF DisableKill, disk
  <2>2. QED
    BY <1>c, <2>1 DEF StaysCalm, Calm
<1>7. ASSUME DisableClear PROVE StaysCalm
  <2>1. UNCHANGED <<proc, start, restart, status>> /\ state' = NoState /\ pidFile' = NoPid
    BY <1>7 DEF DisableClear, world, ClearState
  <2>2. QED
    BY <1>c, <2>1 DEF StaysCalm, Calm, Down
<1>8. ASSUME NEW p \in Pids, Publish(p) \/ Connect(p) \/ Die(p) PROVE StaysCalm
  <2>1. UNCHANGED <<state, pidFile, start, restart, status>>
    BY <1>8 DEF Publish, Connect, Die, disk
  <2>2. ~Down
    BY <1>8 DEF Publish, Connect, Die, Down, Live
  <2>3. QED
    BY <1>c, <2>1, <2>2 DEF StaysCalm, Calm
<1>9. ASSUME StampExpires \/ Cools \/ UNCHANGED vars PROVE StaysCalm
  BY <1>same, <1>9 DEF StampExpires, Cools, disk, world, vars
<1>10. ASSUME Crash PROVE StaysCalm
  <2>1. UNCHANGED <<proc, state, pidFile>>
    BY <1>10 DEF Crash, disk, world
  <2>2. Calm'
    BY <1>10, IdleTypes DEF Crash, IdleStatus, Calm
  <2>3. QED
    BY <2>1, <2>2 DEF StaysCalm, Down
<1>11. QED
  BY <1>1, <1>2, <1>3, <1>4, <1>5, <1>6, <1>7, <1>8, <1>9, <1>10 DEF Next, Outside

(* Where a disable that meets nothing begins.                              *)
LEMMA OnlyDisableKillClears ==
    ASSUME [Next]_vars, stop # "clear", stop' = "clear"
    PROVE  DisableKill
BY DEF Next, vars, StartAsync, EnableStep, EnableKill, EnableClear, EnableSpawn,
       EnableCannotSpawn, EnableWaitsForUrl, EnableConnected, EnableNotConnected, EnableUndo,
       EnableWipe, RestartStep, RestartLoad, RestartKill, RestartSpawn, RestartCannotSpawn,
       RestartPublished, RestartNoUrl, RestartUndo, StatusBegin, StatusStep, StatusPasses,
       StatusTouch, StatusEnd, DisableClear, Outside, Publish, Connect, Die, StampExpires,
       Cools, Crash

(* ... and where it is answered.                                           *)
LEMMA OnlyDisableClearAnswers ==
    ASSUME TypeOK, [Next]_vars, stop = "clear", stop' = "idle", crashes' = crashes
    PROVE  DisableClear
<1>1. ~Crash
  BY TypeIs DEF Crash
<1>2. QED
  BY <1>1
  DEF Next, vars, StartAsync, EnableStep, EnableKill, EnableClear, EnableSpawn,
       EnableCannotSpawn, EnableWaitsForUrl, EnableConnected, EnableNotConnected, EnableUndo,
       EnableWipe, RestartStep, RestartLoad, RestartKill, RestartSpawn, RestartCannotSpawn,
       RestartPublished, RestartNoUrl, RestartUndo, StatusBegin, StatusStep, StatusPasses,
       StatusTouch, StatusEnd, DisableKill, Outside, Publish, Connect, Die, StampExpires, Cools

LEMMA QuietInvStep == TypeOK /\ QuietInv /\ [Next]_vars => QuietInv'
<1> SUFFICES ASSUME TypeOK, QuietInv, [Next]_vars, stop' = "clear" PROVE Calm' /\ Down'
  BY DEF QuietInv
<1>1. CASE stop = "clear"
  <2>1. Calm /\ Down
    BY <1>1 DEF QuietInv
  <2>2. Begins \/ Restarted \/ StaysCalm
    BY <2>1, CalmStep, DownProbe
  <2>3. QED
    BY <2>1, <2>2 DEF Begins, Restarted, StaysCalm
<1>2. CASE stop # "clear"
  <2>1. DisableKill
    BY <1>2, OnlyDisableKillClears
  <2>2. Calm /\ Down'
    BY <2>1, DownKill DEF DisableKill, Calm, Starting, Acting
  <2>3. UNCHANGED <<start, restart, status>>
    BY <2>1 DEF DisableKill
  <2>4. QED
    BY <2>2, <2>3 DEF Calm
<1>3. QED
  BY <1>1, <1>2

LEMMA OffStep ==
    ASSUME TypeOK, Off, [Next]_vars
    PROVE  (Off' /\ (Down => Down')) \/ StartBegins
<1>1. state = NoState /\ pidFile = NoPid /\ Calm
  BY OffIs
<1>2. Begins \/ StaysCalm
  BY <1>1, CalmStep, OffProbe DEF Restarted
<1>3. CASE StaysCalm
  BY <1>1, <1>3, OffIs DEF StaysCalm, Off, Calm, Starting, Acting
<1>4. QED
  BY <1>2, <1>3 DEF Begins

LEMMA AnsweredGone ==
    ASSUME TypeOK, QuietInv, [Next]_vars, stop = "clear", stop' = "idle", crashes' = crashes
    PROVE  Gone'
<1>1. DisableClear
  BY OnlyDisableClearAnswers
<1>2. /\ Calm /\ Down
      /\ UNCHANGED <<proc, start, restart, status>> /\ state' = NoState /\ pidFile' = NoPid
  BY <1>1 DEF QuietInv, DisableClear, ClearState, world
<1>3. Off'
  BY <1>2 DEF Calm, Off, Starting, Acting
<1>4. Live' = {}
  BY <1>2 DEF Down, Live
<1>5. QED
  BY <1>3, <1>4 DEF Gone

(* A disable that meets nobody who records a process leaves none, and what  *)
(* was switched off stays off until a start is accepted, whatever status     *)
(* requests and restarts had read before (tunnel.rs:1860-1866, 1686-1697).  *)
THEOREM DisablesLast == Spec => DisabledStaysOff
<1>1. Init => QuietInv
  BY DEF Init, QuietInv
<1>2. ASSUME TypeOK, QuietInv, [Next]_vars
      PROVE  /\ stop = "clear" /\ stop' = "idle" /\ crashes' = crashes => Gone'
             /\ Off => Off' \/ StartBegins
             /\ Gone => Gone' \/ StartBegins
  <2>1. Gone => Gone' \/ StartBegins
    <3>1. SUFFICES ASSUME Gone, ~StartBegins PROVE Gone'
      OBVIOUS
    <3>2. Off /\ Down
      BY <3>1, DownIs DEF Gone
    <3>3. Off' /\ Down'
      BY <1>2, <3>1, <3>2, OffStep
    <3>4. Live' = {}
      BY <3>3 DEF Down, Live
    <3>5. QED
      BY <3>3, <3>4 DEF Gone
  <2>2. QED
    BY <1>2, <2>1, OffStep, AnsweredGone
<1>3. TypeOK /\ QuietInv /\ [Next]_vars =>
          [/\ stop = "clear" /\ stop' = "idle" /\ crashes' = crashes => Gone'
           /\ Off => Off' \/ StartBegins
           /\ Gone => Gone' \/ StartBegins]_vars
  BY <1>2
<1>4. QED
  BY <1>1, <1>3, TunnelTyped, QuietInvStep, PTL DEF Spec, DisabledStaysOff

-----------------------------------------------------------------------------
(* Two processes at once.                                                  *)

Busy(s) == start[s].at # "idle"

(* STARTING lets one start in at a time.                                   *)
OneStart ==
    /\ \A s \in Starts : Busy(s) => starting
    /\ \A s, t \in Starts : Busy(s) /\ Busy(t) => s = t

LEMMA OneStartStep == TypeOK /\ OneStart /\ [Next]_vars => OneStart'
<1> SUFFICES ASSUME TypeOK, OneStart, [Next]_vars PROVE OneStart'
  OBVIOUS
<1>t. start \in [Starts -> StartType] /\ starting \in BOOLEAN
  BY TypeIs
<1>0. start' = start /\ starting' = starting => OneStart'
  BY DEF OneStart, Busy
<1>1. ASSUME NEW s \in Starts, StartAsync(s) PROVE OneStart'
  <2>1. CASE starting
    BY <1>0, <1>1, <2>1 DEF StartAsync
  <2>2. CASE ~starting
    <3>1. \A t \in Starts : start[t].at = "idle"
      BY <2>2 DEF OneStart, Busy
    <3>2. starting' /\ \A t \in Starts : t # s => start'[t] = start[t]
      BY <1>t, <1>1, <2>2 DEF StartAsync
    <3>3. QED
      BY <3>1, <3>2 DEF OneStart, Busy
  <2>3. QED
    BY <2>1, <2>2
<1>2. ASSUME NEW s \in Starts,
             \/ EnableKill(s) \/ EnableClear(s) \/ EnableSpawn(s) \/ EnableWaitsForUrl(s)
             \/ EnableNotConnected(s) \/ EnableUndo(s)
      PROVE  OneStart'
  <2>1. Busy(s) /\ starting' = starting
    BY <1>2 DEF EnableKill, EnableClear, EnableSpawn, EnableWaitsForUrl, EnableNotConnected,
                EnableUndo, Busy, flags
  <2>2. \A t \in Starts : t # s => start'[t] = start[t]
    BY <1>t, <1>2 DEF EnableKill, EnableClear, EnableSpawn, EnableWaitsForUrl,
                      EnableNotConnected, EnableUndo
  <2>3. QED
    BY <2>1, <2>2 DEF OneStart, Busy
<1>3. ASSUME NEW s \in Starts, EnableCannotSpawn(s) \/ EnableConnected(s) \/ EnableWipe(s)
      PROVE  OneStart'
  <2>1. Busy(s)
    BY <1>3 DEF EnableCannotSpawn, EnableConnected, EnableWipe, Busy
  <2>2. start' = [start EXCEPT ![s] = IdleStart]
    BY <1>3 DEF EnableCannotSpawn, EnableConnected, EnableWipe, StartEnds
  <2>3. \A t \in Starts : start'[t].at = "idle"
    BY <1>t, <2>1, <2>2, IdleTypes DEF OneStart, Busy
  <2>4. QED
    BY <2>3 DEF OneStart, Busy
<1>4. CASE Crash
  BY <1>4, IdleTypes DEF Crash, OneStart, Busy
<1>5. CASE \/ \E w \in Restarts : RestartStep(w)
           \/ DisableKill \/ DisableClear \/ UNCHANGED vars \/ StampExpires \/ Cools
           \/ \E p \in Pids : Publish(p) \/ Connect(p) \/ Die(p)
           \/ \E c \in Clients : StatusBegin(c) \/ StatusStep(c)
  BY <1>0, <1>5
  DEF RestartStep, RestartLoad, RestartKill, RestartSpawn, RestartCannotSpawn, RestartPublished,
      RestartNoUrl, RestartUndo, DisableKill, DisableClear, vars, StampExpires, Cools, Publish,
      Connect, Die, StatusBegin, StatusStep, StatusPasses, StatusTouch, StatusEnd, flags
<1>6. QED
  BY <1>1, <1>2, <1>3, <1>4, <1>5 DEF Next, EnableStep, Outside

Alone ==
    \A p, q \in Pids :
        /\ proc[p] \in {"up", "published", "connected"}
        /\ proc[q] \in {"up", "published", "connected"}
        => p = q

Acts(w) == restart[w].at \notin {"idle", "load"}

(* Until a restart or a disable is crossed, starts and restarts take turns *)
(* and each finds the tunnel down when it spawns.                          *)
Apart ==
    /\ \A w \in Restarts : Acts(w) => \A s \in Starts : ~Busy(s)
    /\ \A v, w \in Restarts : Acts(v) /\ Acts(w) => v = w
    /\ \A s \in Starts : start[s].at \in {"clear", "spawn", "wipe"} => Down
    /\ \A w \in Restarts : restart[w].at = "spawn" => Down
    /\ Alone

ApartInv == ~crossed => Apart

LEMMA DownAlone == Down => Alone
BY DEF Down, Alone

LEMMA SpawnAlone ==
    ASSUME proc \in [Pids -> {"unused", "up", "published", "connected", "dead"}],
           Down, NEW p \in Pids, NEW q, Spawn(p, q)
    PROVE  Alone'
BY DEF Down, Alone, Spawn

LEMMA OutsideAlone ==
    ASSUME proc \in [Pids -> {"unused", "up", "published", "connected", "dead"}],
           NEW p \in Pids, Publish(p) \/ Connect(p) \/ Die(p)
    PROVE  /\ Down => Down'
           /\ Alone => Alone'
BY DEF Down, Alone, Publish, Connect, Die, Live

LEMMA CrossedStays == TypeOK /\ [Next]_vars /\ crossed => crossed'
BY TypeIs
DEF Next, vars, StartAsync, EnableStep, EnableKill, EnableClear, EnableSpawn,
    EnableCannotSpawn, EnableWaitsForUrl, EnableConnected, EnableNotConnected, EnableUndo,
    EnableWipe, RestartStep, RestartLoad, RestartKill, RestartSpawn, RestartCannotSpawn,
    RestartPublished, RestartNoUrl, RestartUndo, StatusBegin, StatusStep, StatusPasses,
    StatusTouch, StatusEnd, DisableKill, DisableClear, Outside, Publish, Connect, Die,
    StampExpires, Cools, Crash

LEMMA ApartStep == TypeOK /\ OneStart /\ ApartInv /\ [Next]_vars => ApartInv'
<1> SUFFICES ASSUME TypeOK, OneStart, ApartInv, [Next]_vars, ~crossed' PROVE Apart'
  BY DEF ApartInv
<1>t. /\ proc \in [Pids -> {"unused", "up", "published", "connected", "dead"}]
      /\ start \in [Starts -> StartType]
      /\ restart \in [Restarts -> RestartType]
      /\ crossed \in BOOLEAN
  BY TypeIs
<1>c. Apart
  BY CrossedStays DEF ApartInv
<1>a. /\ \A w \in Restarts : Acts(w) => \A s \in Starts : ~Busy(s)
      /\ \A v, w \in Restarts : Acts(v) /\ Acts(w) => v = w
      /\ \A s \in Starts : start[s].at \in {"clear", "spawn", "wipe"} => Down
      /\ \A w \in Restarts : restart[w].at = "spawn" => Down
      /\ Alone
  BY <1>c DEF Apart
<1>0. UNCHANGED <<proc, start, restart>> => Apart'
  BY <1>a DEF Apart, Acts, Busy, Down, Alone
<1>1. ASSUME NEW s \in Starts, StartAsync(s) PROVE Apart'
  <2>1. CASE starting
    BY <1>0, <1>1, <2>1 DEF StartAsync, world
  <2>2. CASE ~starting
    <3>1. UNCHANGED <<proc, restart>> /\ Restarting = {}
      BY <1>1, <2>2 DEF StartAsync, world
    <3>2. start' = [start EXCEPT ![s].at = "kill"]
      BY <1>1, <2>2 DEF StartAsync
    <3>3. \A t \in Starts : start'[t].at \in {"clear", "spawn", "wipe"} =>
                                start[t].at \in {"clear", "spawn", "wipe"}
      BY <1>t, <3>2 DEF StartType
    <3>4. \A w \in Restarts : restart'[w].at = "idle"
      BY <3>1 DEF Restarting
    <3>5. Down' = Down /\ Alone' = Alone
      BY <3>1 DEF Down, Alone
    <3>6. QED
      BY <1>a, <3>3, <3>4, <3>5 DEF Apart, Acts
  <2>3. QED
    BY <2>1, <2>2
<1>2. ASSUME NEW s \in Starts, EnableStep(s) PROVE Apart'
  <2>1. Busy(s)
    BY <1>2 DEF Busy, EnableStep, EnableKill, EnableClear, EnableSpawn, EnableCannotSpawn,
                EnableWaitsForUrl, EnableConnected, EnableNotConnected, EnableUndo, EnableWipe
  <2>2. restart' = restart /\ \A w \in Restarts : restart[w].at \in {"idle", "load"}
    BY <1>a, <1>2, <2>1
    DEF Acts, EnableStep, EnableKill, EnableClear, EnableSpawn, EnableCannotSpawn,
        EnableWaitsForUrl, EnableConnected, EnableNotConnected, EnableUndo, EnableWipe
  <2>3. \A t \in Starts : t # s => start[t].at = "idle" /\ start'[t] = start[t]
    BY <1>t, <1>2, <2>1
    DEF OneStart, Busy, EnableStep, EnableKill, EnableClear, EnableSpawn, EnableCannotSpawn,
        EnableWaitsForUrl, EnableConnected, EnableNotConnected, EnableUndo, EnableWipe, StartEnds
  <2>4. SUFFICES (start'[s].at \in {"clear", "spawn", "wipe"} => Down') /\ Alone'
    BY <2>2, <2>3 DEF Apart, Acts, Busy
  <2>5. CASE EnableKill(s) \/ EnableUndo(s)
    BY <2>5, DownKill DEF EnableKill, EnableUndo, Down, Alone
  <2>6. CASE EnableClear(s)
    BY <1>a, <2>6 DEF EnableClear, world, Down, Alone
  <2>7. CASE EnableSpawn(s)
    <3>1. PICK p \in Pids : /\ Spawn(p, 0)
                            /\ start' = [start EXCEPT ![s] = [at |-> "url", pid |-> p]]
      BY <2>7 DEF EnableSpawn
    <3>2. start'[s].at = "url"
      BY <1>t, <3>1
    <3>3. Down
      BY <1>a, <2>7 DEF EnableSpawn
    <3>4. QED
      BY <1>t, <3>1, <3>2, <3>3, SpawnAlone
  <2>8. CASE EnableCannotSpawn(s) \/ EnableConnected(s) \/ EnableWipe(s)
    <3>1. proc' = proc /\ start' = [start EXCEPT ![s] = IdleStart]
      BY <2>8 DEF EnableCannotSpawn, EnableConnected, EnableWipe, StartEnds, world, SpawnFails
    <3>2. start'[s].at = "idle"
      BY <1>t, <3>1, IdleTypes
    <3>3. QED
      BY <1>a, <3>1, <3>2 DEF Alone
  <2>9. CASE EnableWaitsForUrl(s) \/ EnableNotConnected(s)
    <3>1. proc' = proc /\ \E where \in {"connector", "undo"} : start' = [start EXCEPT ![s].at = where]
      BY <2>9 DEF EnableWaitsForUrl, EnableNotConnected, world
    <3>2. start'[s].at \in {"connector", "undo"}
      BY <1>t, <3>1 DEF StartType
    <3>3. QED
      BY <1>a, <3>1, <3>2 DEF Alone
  <2>10. QED
    BY <1>2, <2>5, <2>6, <2>7, <2>8, <2>9 DEF EnableStep
<1>3. ASSUME NEW w \in Restarts, RestartStep(w) PROVE Apart'
  <2>0. UNCHANGED start
    BY <1>3 DEF RestartStep, RestartLoad, RestartKill, RestartSpawn, RestartCannotSpawn,
                RestartPublished, RestartNoUrl, RestartUndo
  <2>1. \A v \in Restarts : v # w => restart'[v] = restart[v]
    BY <1>t, <1>3
    DEF RestartStep, RestartLoad, RestartKill, RestartSpawn, RestartCannotSpawn,
        RestartPublished, RestartNoUrl, RestartUndo
  <2>2. CASE RestartLoad(w)
    <3>0. Down' = Down /\ Alone' = Alone
      BY <2>2 DEF RestartLoad, world, Down, Alone
    <3>1. CASE ~Due
      <4>1. restart'[w].at = "idle"
        BY <1>t, <2>2, <3>1, IdleTypes DEF RestartLoad
      <4>2. QED
        BY <1>a, <2>0, <2>1, <3>0, <4>1 DEF Apart, Acts, Busy
    <3>2. CASE Due
      <4>1. restart'[w].at = "kill"
        BY <1>t, <2>2, <3>2 DEF RestartLoad, RestartType
      <4>2. Starting = {} /\ Acting = {}
        BY <2>2, <3>2 DEF RestartLoad
      <4>3. \A s \in Starts : ~Busy(s)
        BY <4>2 DEF Starting, Busy
      <4>4. \A v \in Restarts : restart[v].at \in {"idle", "load"}
        BY <4>2 DEF Acting
      <4>5. QED
        BY <1>a, <2>0, <2>1, <3>0, <4>1, <4>3, <4>4 DEF Apart, Acts, Busy
    <3>3. QED
      BY <3>1, <3>2
  <2>a. ASSUME ~RestartLoad(w)
        PROVE  Acts(w) /\ \A s \in Starts : ~Busy(s)
    <3>1. Acts(w)
      BY <1>3, <2>a DEF Acts, RestartStep, RestartKill, RestartSpawn, RestartCannotSpawn,
                        RestartPublished, RestartNoUrl, RestartUndo
    <3>2. QED
      BY <1>a, <3>1
  (* Only w acts before the step, and only w may after it.                 *)
  <2>b. ASSUME ~RestartLoad(w), Alone', restart'[w].at = "spawn" => Down' PROVE Apart'
    <3>1. Acts(w) /\ \A s \in Starts : ~Busy(s)
      BY <2>a, <2>b
    <3>2. \A v \in Restarts : v # w => restart'[v].at \in {"idle", "load"}
      BY <1>a, <2>1, <3>1 DEF Acts
    <3>3. QED
      BY <2>0, <2>b, <3>1, <3>2 DEF Apart, Acts, Busy
  <2>3. CASE RestartKill(w) \/ RestartUndo(w)
    <3>1. Down' /\ Alone' /\ ~RestartLoad(w)
      BY <2>3, DownKill DEF RestartKill, RestartUndo, RestartLoad, Down, Alone
    <3>2. QED
      BY <2>b, <3>1
  <2>4. CASE RestartSpawn(w)
    <3>1. PICK p \in Pids : /\ Spawn(p, restart[w].snap.port)
                            /\ restart' = [restart EXCEPT ![w].at = "url", ![w].pid = p]
      BY <2>4 DEF RestartSpawn
    <3>2. restart'[w].at = "url"
      BY <1>t, <3>1 DEF RestartType
    <3>3. Down /\ ~RestartLoad(w)
      BY <1>a, <2>4 DEF RestartSpawn, RestartLoad
    <3>4. Alone'
      BY <1>t, <3>1, <3>3, SpawnAlone
    <3>5. QED
      BY <2>b, <3>2, <3>3, <3>4
  <2>5. CASE RestartCannotSpawn(w) \/ RestartPublished(w)
    <3>1. proc' = proc /\ restart'[w].at = "idle" /\ ~RestartLoad(w)
      BY <1>t, <2>5, IdleTypes
      DEF RestartCannotSpawn, RestartPublished, RestartLoad, SpawnFails, world
    <3>2. QED
      BY <1>a, <2>b, <3>1 DEF Alone
  <2>6. CASE RestartNoUrl(w)
    <3>1. proc' = proc /\ restart'[w].at = "undo" /\ ~RestartLoad(w)
      BY <1>t, <2>6 DEF RestartNoUrl, RestartLoad, world, RestartType
    <3>2. QED
      BY <1>a, <2>b, <3>1 DEF Alone
  <2>7. QED
    BY <1>3, <2>2, <2>3, <2>4, <2>5, <2>6 DEF RestartStep
<1>4. ASSUME NEW c \in Clients, StatusBegin(c) PROVE Apart'
  BY <1>0, <1>4 DEF StatusBegin, world
<1>5. ASSUME NEW c \in Clients, StatusStep(c) PROVE Apart'
  <2>1. UNCHANGED <<proc, start>>
    BY <1>5 DEF StatusStep, StatusPasses, StatusTouch, StatusEnd, world
  <2>2. \A w \in Restarts : restart'[w] = restart[w] \/ restart'[w].at = "load"
    BY <1>t, <1>5 DEF StatusStep, StatusPasses, StatusTouch, StatusEnd, RestartType
  <2>3. Down' = Down /\ Alone' = Alone
    BY <2>1 DEF Down, Alone
  <2>4. QED
    BY <1>a, <2>1, <2>2, <2>3 DEF Apart, Acts, Busy
<1>6. ASSUME DisableKill PROVE Apart'
  <2>1. UNCHANGED <<start, restart>> /\ Down' /\ Alone'
    BY <1>6, DownKill DEF DisableKill, Down, Alone
  <2>2. QED
    BY <1>a, <2>1 DEF Apart, Acts, Busy
<1>7. ASSUME DisableClear \/ StampExpires \/ Cools \/ UNCHANGED vars PROVE Apart'
  BY <1>0, <1>7 DEF DisableClear, StampExpires, Cools, vars, world
<1>8. ASSUME NEW p \in Pids, Publish(p) \/ Connect(p) \/ Die(p) PROVE Apart'
  <2>1. UNCHANGED <<start, restart>>
    BY <1>8 DEF Publish, Connect, Die
  <2>2. (Down => Down') /\ (Alone => Alone')
    BY <1>t, <1>8, OutsideAlone
  <2>3. QED
    BY <1>a, <2>1, <2>2 DEF Apart, Acts, Busy
<1>9. ASSUME Crash PROVE Apart'
  BY <1>a, <1>9, IdleTypes DEF Crash, world, Apart, Acts, Busy, Down, Alone
<1>10. QED
  BY <1>1, <1>2, <1>3, <1>4, <1>5, <1>6, <1>7, <1>8, <1>9 DEF Next, Outside

(* What the two invariants are at the start, and together.                 *)
LEMMA TunnelApart == Spec => [](TypeOK /\ OneStart /\ ApartInv)
<1>1. Init => OneStart /\ ApartInv
  BY IdleTypes DEF Init, OneStart, ApartInv, Apart, Acts, Busy, Down, Alone
<1>2. QED
  BY <1>1, TunnelTyped, OneStartStep, ApartStep, PTL DEF Spec

(* Two processes live together only where a restart has met a start, a     *)
(* disable, another restart or the end of the server                       *)
(* (tunnel.rs:1921-1922).                                                  *)
THEOREM TunnelsOneConnector == Spec => []OneConnector
<1>1. TypeOK /\ ApartInv => OneConnector
  BY TypeIs DEF ApartInv, Apart, OneConnector, Alone, Live
<1>2. QED
  BY <1>1, TunnelApart, PTL

(* A failed start that no restart has met leaves no process                *)
(* (routes.rs:443-446).                                                    *)
THEOREM TunnelsFailedStarts == Spec => FailedStartLeavesNothing
<1>1. ASSUME TypeOK, ApartInv, [Next]_vars, NEW s \in Starts,
             start[s].at # "idle", start'[s].at = "idle", lastError', ~crossed
      PROVE  (Live = {})'
  <2>t. start \in [Starts -> StartType] /\ lastError \in BOOLEAN
    BY <1>1, TypeIs
  <2>1. ~Crash /\ start' # start
    BY <1>1 DEF Crash
  <2>2. PICK t \in Starts : StartAsync(t) \/ EnableStep(t)
    BY <1>1, <2>1
    DEF Next, vars, RestartStep, RestartLoad, RestartKill, RestartSpawn, RestartCannotSpawn,
        RestartPublished, RestartNoUrl, RestartUndo, StatusBegin, StatusStep, StatusPasses,
        StatusTouch, StatusEnd, DisableKill, DisableClear, Outside, Publish, Connect, Die,
        StampExpires, Cools
  <2>3. ~StartAsync(t)
    BY <1>1, <2>t, <2>1 DEF StartAsync, StartType
  <2>4. EnableCannotSpawn(s) \/ EnableWipe(s)
    <3>1. ASSUME NEW where \in {"kill", "clear", "spawn", "connector", "undo", "wipe"},
                 start' = [start EXCEPT ![t].at = where]
          PROVE  FALSE
      BY <1>1, <2>t, <3>1 DEF StartType
    <3>2. ASSUME NEW p, start' = [start EXCEPT ![t] = [at |-> "url", pid |-> p]]
          PROVE  FALSE
      BY <1>1, <2>t, <3>2 DEF StartType
    <3>3. ~ (EnableKill(t) \/ EnableClear(t) \/ EnableWaitsForUrl(t) \/ EnableNotConnected(t)
             \/ EnableUndo(t) \/ EnableSpawn(t))
      BY <3>1, <3>2 DEF EnableKill, EnableClear, EnableWaitsForUrl, EnableNotConnected,
                        EnableUndo, EnableSpawn
    <3>4. ~EnableConnected(t)
      BY <1>1 DEF EnableConnected, StartEnds
    <3>5. start' = [start EXCEPT ![t] = IdleStart]
      BY <2>2, <2>3, <3>3, <3>4 DEF EnableStep, EnableCannotSpawn, EnableWipe, StartEnds
    <3>6. s = t
      BY <1>1, <2>t, <3>5
    <3>7. QED
      BY <2>2, <2>3, <3>3, <3>4, <3>6 DEF EnableStep
  <2>5. Down /\ proc' = proc
    BY <1>1, <2>4 DEF ApartInv, Apart, EnableCannotSpawn, EnableWipe, SpawnFails, world
  <2>6. QED
    BY <2>5 DEF Down, Live
<1>2. TypeOK /\ ApartInv /\ [Next]_vars =>
          [\A s \in Starts : start[s].at # "idle" /\ start'[s].at = "idle" /\ lastError' =>
              crossed \/ (Live = {})']_vars
  BY <1>1
<1>3. QED
  BY <1>2, TunnelApart, PTL DEF Spec, FailedStartLeavesNothing

====
