---- MODULE TunnelPanelProofs ----
(***************************************************************************)
(* What holds of TunnelPanel for any clicks, processes, kills of the        *)
(* server and limit of the poll.  The server behind the page is the one of  *)
(* Tunnel, so what TunnelProofs shows of it is cited and not shown again.   *)
(***************************************************************************)
EXTENDS TunnelPanel, TunnelProofs

-----------------------------------------------------------------------------
(* The page uses the server: what it does to the server is a step of Tunnel. *)

LEMMA PanelStepIsServers == [PanelNext]_allVars => [Next]_vars
<1> SUFFICES ASSUME [PanelNext]_allVars PROVE [Next]_vars
  OBVIOUS
<1>1. CASE \E k \in Clicks :
              \/ ClickEnable(k) \/ PostAnswer(k) \/ PostRefused(k) \/ PollTick(k)
              \/ PollAnswer(k)
  BY <1>1 DEF ClickEnable, PostAnswer, PostRefused, PollTick, PollAnswer
<1>2. ASSUME NEW k \in Clicks, PostHandled(k) PROVE [Next]_vars
  <2>1. k \in Starts /\ StartAsync(k)
    BY <1>2, PanelAssumption DEF PostHandled
  <2>2. QED
    BY <2>1 DEF Next
<1>3. ASSUME NEW k \in Clicks, PollBegin(k) \/ PollPasses(k) \/ PollServed(k) PROVE [Next]_vars
  <2>1. k \in Clients /\ (StatusBegin(k) \/ StatusStep(k))
    BY <1>3, PanelAssumption DEF PollBegin, PollPasses, PollServed, StatusStep
  <2>2. QED
    BY <2>1 DEF Next
<1>4. CASE ClickDisable \/ DisableAnswer
  BY <1>4 DEF ClickDisable, DisableAnswer
<1>5. CASE DisableHandled
  BY <1>5 DEF DisableHandled, Next
<1>6. CASE Server \/ Outside
  BY <1>6 DEF Server, Next
<1>7. CASE UNCHANGED allVars
  BY <1>7 DEF allVars
<1>8. QED
  BY <1>1, <1>2, <1>3, <1>4, <1>5, <1>6, <1>7 DEF PanelNext

(* Behind the page the server runs as Tunnel says: whatever the clicks, the  *)
(* answers and the polls do, every step of the two together is a step of     *)
(* the server of tunnel.rs or leaves it as it is.                            *)
THEOREM PanelImplementsTunnel == PanelSpec => Spec
<1>1. PanelInit => Init
  BY DEF PanelInit
<1>2. QED
  BY <1>1, PanelStepIsServers, PTL DEF PanelSpec, Spec

(* So the page cannot break what the server promises: a tunnel that was      *)
(* switched off stays off until a start is accepted, a second connector      *)
(* takes a restart that has met something, a start that fails leaves         *)
(* nothing, however often the page posts and polls (app.js:2247-2370).       *)
THEOREM PanelKeepsTunnel ==
    PanelSpec =>
        /\ [](TypeOK /\ OneConnector)
        /\ DisabledStaysOff
        /\ FailedStartLeavesNothing
BY PanelImplementsTunnel, TunnelTyped, DisablesLast, TunnelsOneConnector,
   TunnelsFailedStarts, PTL

-----------------------------------------------------------------------------
(* Types.                                                                   *)

AnswerType == [enabled: BOOLEAN, starting: BOOLEAN, error: BOOLEAN]

PollType ==
    [count: 0 .. PollLimit, at: {"wait", "sent", "served"}, answer: AnswerType,
     ended: BOOLEAN]

(* The names of the types above keep the provers out of the records.        *)
LEMMA PanelTypeIs ==
    PanelTypeOK <=>
        /\ busy \in BOOLEAN /\ early \in BOOLEAN
        /\ shown \in {"off", "starting", "on", "error", "stopping"}
        /\ post \in [Clicks -> {"none", "sent", "answered", "refused", "over"}]
        /\ poll \in [Clicks -> PollType]
        /\ off \in {"none", "sent", "served"}
BY DEF PanelTypeOK, PollType, AnswerType

LEMMA PollTypes ==
    /\ NewPoll \in PollType /\ NewPoll.ended = FALSE /\ NewPoll.at = "wait"
    /\ EndedPoll \in PollType /\ EndedPoll.ended = TRUE /\ EndedPoll.at = "wait"
<1>1. NoAnswer \in AnswerType
  BY DEF NoAnswer, AnswerType
<1>2. NewPoll \in PollType /\ NewPoll.ended = FALSE /\ NewPoll.at = "wait"
  BY <1>1, PanelAssumption DEF NewPoll, PollType
<1>3. EndedPoll \in PollType /\ EndedPoll.ended = TRUE /\ EndedPoll.at = "wait"
  BY <1>2 DEF EndedPoll, PollType
<1>4. QED
  BY <1>2, <1>3

(* What the server answers to a poll.                                       *)
LEMMA AnswerTyped ==
    ASSUME TypeOK, NEW r \in StatusType
    PROVE  StatusAnswer(r) \in AnswerType
<1>1. r.alive \in BOOLEAN /\ starting \in BOOLEAN /\ lastError \in BOOLEAN
  BY TypeIs DEF StatusType
<1> DEFINE pid == ReadPid(pidFile, state)
           again == ~r.alive /\ pid # r.pid
           on == IF again THEN pid # 0 /\ PidAlive(pid, state.port) ELSE r.alive
           url == IF again THEN state.url ELSE UrlSeen(r)
           enabled == on /\ url # 0
<1>2. enabled \in BOOLEAN /\ (~enabled /\ ~starting /\ lastError) \in BOOLEAN
  OBVIOUS
<1>3. StatusAnswer(r) = [enabled |-> enabled, starting |-> starting,
                         error |-> ~enabled /\ ~starting /\ lastError]
  BY DEF StatusAnswer
<1> HIDE DEF enabled
<1>4. QED
  BY <1>1, <1>2, <1>3 DEF AnswerType

LEMMA PanelTypeInit == PanelInit => PanelTypeOK
BY PollTypes, PanelTypeIs DEF PanelInit

LEMMA PanelTypeStep == TypeOK /\ PanelTypeOK /\ [PanelNext]_allVars => PanelTypeOK'
<1> SUFFICES ASSUME TypeOK, PanelTypeOK, [PanelNext]_allVars PROVE PanelTypeOK'
  OBVIOUS
<1> DEFINE T == /\ busy \in BOOLEAN /\ early \in BOOLEAN
                /\ shown \in {"off", "starting", "on", "error", "stopping"}
                /\ post \in [Clicks -> {"none", "sent", "answered", "refused", "over"}]
                /\ poll \in [Clicks -> PollType]
                /\ off \in {"none", "sent", "served"}
<1>t. T
  BY PanelTypeIs
<1>u. SUFFICES T'
  BY DEF PanelTypeOK, PollType, AnswerType
<1>1. ASSUME NEW k \in Clicks, ClickEnable(k) PROVE T'
  BY <1>t, <1>1, PollTypes DEF ClickEnable
<1>2. ASSUME NEW k \in Clicks, PostAnswer(k) \/ PostHandled(k) \/ PostRefused(k) PROVE T'
  <2>1. CASE PostAnswer(k)
    <3>1. poll' \in [Clicks -> PollType]
      BY <1>t, <2>1 DEF PostAnswer, PollType
    <3>2. QED
      BY <1>t, <2>1, <3>1 DEF PostAnswer
  <2>2. CASE PostHandled(k) \/ PostRefused(k)
    BY <1>t, <2>2 DEF PostHandled, PostRefused
  <2>3. QED
    BY <1>2, <2>1, <2>2
<1>3. ASSUME NEW k \in Clicks, PollTick(k) PROVE T'
  <2>1. poll[k] \in PollType
    BY <1>t
  <2>2. CASE poll[k].count = PollLimit
    BY <1>t, <1>3, <2>2, PollTypes DEF PollTick
  <2>3. CASE poll[k].count # PollLimit
    <3>1. poll[k].count + 1 \in 0 .. PollLimit
      BY <2>1, <2>3, PanelAssumption DEF PollType
    <3>2. PICK c \in 0 .. PollLimit : poll' = [poll EXCEPT ![k].count = c, ![k].at = "sent"]
      BY <1>3, <2>3, <3>1 DEF PollTick
    <3>3. poll' \in [Clicks -> PollType]
      BY <1>t, <3>2 DEF PollType
    <3>4. QED
      BY <1>t, <1>3, <2>3, <3>3 DEF PollTick, page
  <2>4. QED
    BY <2>2, <2>3
<1>4. ASSUME NEW k \in Clicks, PollAnswer(k) PROVE T'
  <2>1. CASE ~poll[k].ended /\ PollEnds(poll[k].answer)
    BY <1>t, <1>4, <2>1, PollTypes DEF PollAnswer
  <2>2. CASE ~ (~poll[k].ended /\ PollEnds(poll[k].answer))
    <3>1. poll' = [poll EXCEPT ![k].at = "wait"]
      BY <1>4, <2>2 DEF PollAnswer
    <3>2. poll' \in [Clicks -> PollType]
      BY <1>t, <3>1 DEF PollType
    <3>3. QED
      BY <1>t, <1>4, <2>2, <3>2 DEF PollAnswer, page
  <2>3. QED
    BY <2>1, <2>2
<1>5. ASSUME NEW k \in Clicks, PollServed(k) PROVE T'
  <2>1. status[k] \in StatusType
    BY PanelAssumption, TypeIs
  <2>2. PICK a \in AnswerType : poll' = [poll EXCEPT ![k].at = "served", ![k].answer = a]
    BY <1>5, <2>1, AnswerTyped DEF PollServed
  <2>3. poll' \in [Clicks -> PollType]
    BY <1>t, <2>2 DEF PollType
  <2>4. QED
    BY <1>t, <1>5, <2>3 DEF PollServed
<1>6. CASE ClickDisable \/ DisableHandled \/ DisableAnswer
  BY <1>t, <1>6 DEF ClickDisable, DisableHandled, DisableAnswer
<1>7. CASE UNCHANGED panelVars
  BY <1>t, <1>7 DEF panelVars
<1>8. QED
  BY <1>1, <1>2, <1>3, <1>4, <1>5, <1>6, <1>7 DEF PanelNext, PollBegin, PollPasses, allVars

(* The page, its requests and its polls keep their types; a poll never      *)
(* ticks past its limit.                                                    *)
THEOREM PanelTyped == PanelSpec => []PanelTypeOK
<1>1. PanelSpec => []TypeOK
  BY PanelImplementsTunnel, TunnelTyped, PTL
<1>2. QED
  BY <1>1, PanelTypeInit, PanelTypeStep, PTL DEF PanelSpec

-----------------------------------------------------------------------------
(* What the page waits for.                                                 *)

(* A click whose POST is not answered has a poll, unless one ended early.   *)
Owed ==
    \A k \in Clicks : post[k] \in {"sent", "answered"} /\ poll[k].ended => early

StuckInv == PageIsNeverStuck /\ Owed

(* A step that writes neither the page nor how far its requests are.        *)
LEMMA WaitsSame ==
    ASSUME StuckInv, UNCHANGED <<busy, shown, off, early>>, post' = post,
           \A k \in Clicks : poll'[k].ended = poll[k].ended
    PROVE  StuckInv'
BY DEF StuckInv, PageIsNeverStuck, Owed

LEMMA StuckStep == PanelTypeOK /\ StuckInv /\ [PanelNext]_allVars => StuckInv'
<1> SUFFICES ASSUME PanelTypeOK, StuckInv, [PanelNext]_allVars PROVE StuckInv'
  OBVIOUS
<1>t. /\ post \in [Clicks -> {"none", "sent", "answered", "refused", "over"}]
      /\ poll \in [Clicks -> PollType]
  BY PanelTypeIs
<1>1. ASSUME NEW k \in Clicks, ClickEnable(k) PROVE StuckInv'
  BY <1>t, <1>1, PollTypes DEF ClickEnable, StuckInv, PageIsNeverStuck, Owed
<1>2. ASSUME NEW k \in Clicks, PostAnswer(k) PROVE StuckInv'
  <2>1. CASE post[k] = "answered"
    BY <1>t, <1>2, <2>1 DEF PostAnswer, StuckInv, PageIsNeverStuck, Owed
  <2>2. CASE post[k] = "refused"
    <3>1. /\ shown' = "error" /\ busy' = FALSE /\ off' = off /\ early' = early
          /\ post' = [post EXCEPT ![k] = "over"]
          /\ poll' = [poll EXCEPT ![k].ended = TRUE]
      BY <1>2, <2>2 DEF PostAnswer
    <3>2. \A j \in Clicks \ {k} : post'[j] = post[j] /\ poll'[j] = poll[j]
      BY <1>t, <3>1
    <3>3. post'[k] = "over"
      BY <1>t, <3>1
    <3>4. QED
      BY <3>1, <3>2, <3>3 DEF StuckInv, PageIsNeverStuck, Owed
  <2>3. QED
    BY <1>2, <2>1, <2>2 DEF PostAnswer
<1>3. ASSUME NEW k \in Clicks, PostHandled(k) \/ PostRefused(k) PROVE StuckInv'
  BY <1>t, <1>3 DEF PostHandled, PostRefused, StuckInv, PageIsNeverStuck, Owed
<1>4. ASSUME NEW k \in Clicks, PollTick(k) PROVE StuckInv'
  <2>1. CASE poll[k].count = PollLimit
    BY <1>t, <1>4, <2>1, PollTypes DEF PollTick, StuckInv, PageIsNeverStuck, Owed
  <2>2. CASE poll[k].count # PollLimit
    <3>1. \A j \in Clicks : poll'[j].ended = poll[j].ended
      BY <1>t, <1>4, <2>2 DEF PollTick, PollType
    <3>2. QED
      BY <1>4, <2>2, <3>1, WaitsSame DEF PollTick, page
  <2>3. QED
    BY <2>1, <2>2
<1>5. ASSUME NEW k \in Clicks, PollAnswer(k) PROVE StuckInv'
  <2>1. CASE ~poll[k].ended /\ PollEnds(poll[k].answer)
    BY <1>t, <1>5, <2>1, PollTypes DEF PollAnswer, StuckInv, PageIsNeverStuck, Owed
  <2>2. CASE ~ (~poll[k].ended /\ PollEnds(poll[k].answer))
    <3>1. \A j \in Clicks : poll'[j].ended = poll[j].ended
      BY <1>t, <1>5, <2>2 DEF PollAnswer, PollType
    <3>2. QED
      BY <1>5, <2>2, <3>1, WaitsSame DEF PollAnswer, page
  <2>3. QED
    BY <2>1, <2>2
<1>6. ASSUME NEW k \in Clicks, PollServed(k) PROVE StuckInv'
  <2>1. \A j \in Clicks : poll'[j].ended = poll[j].ended
    BY <1>t, <1>6 DEF PollServed, PollType
  <2>2. QED
    BY <1>6, <2>1, WaitsSame DEF PollServed
<1>7. CASE ClickDisable \/ DisableHandled \/ DisableAnswer
  BY <1>7 DEF ClickDisable, DisableHandled, DisableAnswer, StuckInv, PageIsNeverStuck, Owed
<1>8. CASE UNCHANGED panelVars
  BY <1>8, WaitsSame DEF panelVars
<1>9. QED
  BY <1>1, <1>2, <1>3, <1>4, <1>5, <1>6, <1>7, <1>8 DEF PanelNext, PollBegin, PollPasses, allVars

(* Whatever order the answers of POSTs, polls and disables come in, however  *)
(* many clicks there are and whatever the server does, the page waits only   *)
(* for what will come: no "Starting..." without a poll, but for a poll that  *)
(* ended early, and no locked button without a request that unlocks it.      *)
THEOREM PanelNeverStuck == PanelSpec => []PageIsNeverStuck
<1>1. PanelInit => StuckInv
  BY PollTypes DEF PanelInit, StuckInv, PageIsNeverStuck, Owed
<1>2. StuckInv => PageIsNeverStuck
  BY DEF StuckInv
<1>3. QED
  BY <1>1, <1>2, StuckStep, PanelTyped, PTL DEF PanelSpec

====
