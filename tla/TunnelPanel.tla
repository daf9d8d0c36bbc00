----------------------------- MODULE TunnelPanel -----------------------------
(***************************************************************************)
(* public/app.js, the tunnel section of the settings page, in front of the  *)
(* server of Tunnel.  A click on Enable posts once and starts a poll of the *)
(* status every 1.5 s; the click, the POST, the poll and the server each go *)
(* on by themselves, and the page shows what the last of them to write      *)
(* wrote.  A click is named, and so are its POST and its poll.              *)
(*                                                                         *)
(* Requests are not lost: the page talks to the server it was loaded from,  *)
(* and what it does when one fails is left out.  A poll's next tick waits   *)
(* for the answer of the one before.                                        *)
(* The page's watchdog, which asks for the status and shows nothing, is a   *)
(* client of Tunnel.                                                        *)
(***************************************************************************)
EXTENDS Tunnel

CONSTANTS
    Clicks,    \* clicks on Enable
    PollLimit  \* POLL_LIMIT

ASSUME PanelAssumption ==
    /\ PollLimit \in Nat
    /\ Clicks = Clients
    /\ Clicks = Starts

VARIABLES
    busy,  \* _tunnelBusy
    shown, \* what the status line and the switch say
    post,  \* the POST of each click
    poll,  \* the poll of each click: its timer and its open request
    off,   \* the POST of a click on Disable
    early  \* history: a poll ended before the answer of its click's POST came

page == <<busy, shown>>
panelVars == <<busy, shown, post, poll, off, early>>

NoAnswer == [enabled |-> FALSE, starting |-> FALSE, error |-> FALSE]
NewPoll == [count |-> 0, at |-> "wait", answer |-> NoAnswer, ended |-> FALSE]
EndedPoll == [NewPoll EXCEPT !.ended = TRUE]

PanelTypeOK ==
    /\ busy \in BOOLEAN
    /\ shown \in {"off", "starting", "on", "error", "stopping"}
    /\ post \in [Clicks -> {"none", "sent", "answered", "refused", "over"}]
    /\ poll \in [Clicks -> [count: 0 .. PollLimit, at: {"wait", "sent", "served"},
                            answer: [enabled: BOOLEAN, starting: BOOLEAN, error: BOOLEAN],
                            ended: BOOLEAN]]
    /\ off \in {"none", "sent", "served"}
    /\ early \in BOOLEAN

PanelInit ==
    /\ Init
    /\ busy = FALSE
    /\ shown = "off"
    /\ post = [k \in Clicks |-> "none"]
    /\ poll = [k \in Clicks |-> EndedPoll]
    /\ off = "none"
    /\ early = FALSE

-----------------------------------------------------------------------------
(* The page.                                                                *)

(* renderTunnelStatus hides Enable while the tunnel is on and Disable while *)
(* it is off, and disables both while the page is busy.                     *)
CanEnable == ~busy /\ shown # "on"
CanDisable == ~busy /\ shown = "on"

ClickEnable(k) ==
    /\ CanEnable
    /\ post[k] = "none"
    /\ busy' = TRUE
    /\ shown' = "starting"
    /\ post' = [post EXCEPT ![k] = "sent"]
    /\ poll' = [poll EXCEPT ![k] = NewPoll]
    /\ UNCHANGED <<vars, off, early>>

(* Fault: any answer of the POST ends the poll.                             *)
PostAnswerEndsPoll(k) ==
    /\ post[k] = "answered"
    /\ post' = [post EXCEPT ![k] = "over"]
    /\ poll' = [poll EXCEPT ![k] = EndedPoll]
    /\ busy' = FALSE
    /\ shown' = "starting"
    /\ UNCHANGED <<vars, off, early>>

(* The answer of the POST is {starting: true} whatever the server does, or  *)
(* says that the token is none: that ends the poll.                         *)
PostAnswer(k) ==
    /\ post' = [post EXCEPT ![k] = "over"]
    /\ busy' = FALSE
    /\ \/ /\ post[k] = "answered"
          /\ shown' = "starting"
          /\ UNCHANGED poll
       \/ /\ post[k] = "refused"
          /\ shown' = "error"
          /\ poll' = [poll EXCEPT ![k].ended = TRUE]
    /\ UNCHANGED <<vars, off, early>>

(* Fault: the poll has no limit.                                            *)
PollTickForever(k) ==
    /\ ~poll[k].ended
    /\ poll[k].at = "wait"
    /\ poll[k].count < PollLimit + 2
    /\ poll' = [poll EXCEPT ![k].count = @ + 1, ![k].at = "sent"]
    /\ UNCHANGED <<vars, post, off, page, early>>

PollTick(k) ==
    /\ ~poll[k].ended
    /\ poll[k].at = "wait"
    /\ IF poll[k].count = PollLimit
       THEN /\ poll' = [poll EXCEPT ![k] = EndedPoll]
            /\ busy' = FALSE
            /\ shown' = "error"
            /\ early' = (early \/ post[k] # "over")
       ELSE /\ poll' = [poll EXCEPT ![k].count = @ + 1, ![k].at = "sent"]
            /\ UNCHANGED <<page, early>>
    /\ UNCHANGED <<vars, post, off>>

(* The poll ends with a tunnel, or with a server that is not starting one.  *)
PollEnds(a) == a.enabled \/ ~a.starting

PollAnswer(k) ==
    /\ poll[k].at = "served"
    /\ LET a == poll[k].answer
       IN IF ~poll[k].ended /\ PollEnds(a)
          THEN /\ poll' = [poll EXCEPT ![k] = EndedPoll]
               /\ busy' = FALSE
               /\ shown' = IF a.enabled THEN "on" ELSE IF a.error THEN "error" ELSE "off"
               /\ early' = (early \/ post[k] # "over")
          ELSE /\ poll' = [poll EXCEPT ![k].at = "wait"]
               /\ UNCHANGED <<page, early>>
    /\ UNCHANGED <<vars, post, off>>

ClickDisable ==
    /\ CanDisable
    /\ off = "none"
    /\ busy' = TRUE
    /\ shown' = "stopping"
    /\ off' = "sent"
    /\ UNCHANGED <<vars, post, poll, early>>

DisableAnswer ==
    /\ off = "served"
    /\ stop = "idle"
    /\ off' = "none"
    /\ busy' = FALSE
    /\ shown' = "off"
    /\ UNCHANGED <<vars, post, poll, early>>

-----------------------------------------------------------------------------
(* The server's side of the page's requests.                                *)

PostHandled(k) ==
    /\ post[k] = "sent"
    /\ StartAsync(k)
    /\ post' = [post EXCEPT ![k] = "answered"]
    /\ UNCHANGED <<busy, shown, poll, off, early>>

(* The page has sent what does not look like a token.                       *)
PostRefused(k) ==
    /\ post[k] = "sent"
    /\ post' = [post EXCEPT ![k] = "refused"]
    /\ UNCHANGED <<vars, busy, shown, poll, off, early>>

PollBegin(k) ==
    /\ poll[k].at = "sent"
    /\ StatusBegin(k)
    /\ UNCHANGED panelVars

PollPasses(k) ==
    /\ StatusPasses(k)
    /\ UNCHANGED panelVars

PollServed(k) ==
    /\ StatusEnd(k) \/ StatusTouch(k)
    /\ poll' = [poll EXCEPT ![k].at = "served", ![k].answer = StatusAnswer(status[k])]
    /\ UNCHANGED <<busy, shown, post, off, early>>

DisableHandled ==
    /\ off = "sent"
    /\ DisableKill
    /\ off' = "served"
    /\ UNCHANGED <<busy, shown, post, poll, early>>

Server ==
    \/ \E s \in Starts : EnableStep(s)
    \/ \E w \in Restarts : RestartStep(w)
    \/ DisableClear

PanelNext ==
    \/ \E k \in Clicks :
          \/ ClickEnable(k) \/ PostAnswer(k) \/ PostHandled(k) \/ PostRefused(k)
          \/ PollTick(k) \/ PollAnswer(k) \/ PollBegin(k) \/ PollPasses(k)
          \/ PollServed(k)
    \/ ClickDisable \/ DisableHandled \/ DisableAnswer
    \/ (Server \/ Outside) /\ UNCHANGED panelVars

allVars == <<vars, panelVars>>

PanelSpec ==
    /\ PanelInit
    /\ [][PanelNext]_allVars
    /\ \A k \in Clicks :
          /\ WF_allVars(PostHandled(k) \/ PostRefused(k))
          /\ WF_allVars(PostAnswer(k))
          /\ WF_allVars(PollTick(k))
          /\ WF_allVars(PollBegin(k))
          /\ WF_allVars(PollPasses(k) \/ PollServed(k))
          /\ WF_allVars(PollAnswer(k))
    /\ WF_allVars(DisableHandled)
    /\ WF_allVars(DisableAnswer)
    /\ WF_allVars(Server /\ UNCHANGED panelVars)

-----------------------------------------------------------------------------
(* Whatever the page waits for is on its way: "Starting..." is shown only    *)
(* while a poll goes on that will replace it, unless a poll has ended early, *)
(* "Stopping..." only while a disable is out, and the buttons are locked     *)
(* only while a request is out whose answer unlocks them                     *)
(* (app.js:2247-2373, everything that writes _tunnelBusy).                   *)
PageIsNeverStuck ==
    /\ shown = "starting" => early \/ \E k \in Clicks : ~poll[k].ended
    /\ shown = "stopping" => off # "none"
    /\ busy => off # "none" \/ \E k \in Clicks : post[k] \in {"sent", "answered", "refused"}

(* The switch does not stay on "Starting..." for ever (app.js:2287-2291),   *)
(* unless a poll has ended before the answer of its click's POST came.      *)
PanelSettles ==
    shown = "starting" ~> shown # "starting" \/ early

(* The same without exception.  This does not hold: the answer of the POST, *)
(* when it comes last, shows "Starting..." again, and no poll is left.      *)
StartingEnds ==
    shown = "starting" ~> shown # "starting"

=============================================================================
