---- MODULE MCTunnel ----
(***************************************************************************)
(* Two starts, two pages, two restarts, and a process to replace the first. *)
(* Three bounds on what meets what keep the instance small.                 *)
(***************************************************************************)
EXTENDS Tunnel, FiniteSets

CONSTANTS s1, s2, c1, c2, r1, r2

(* A task takes the first free place.  Places are alike: nothing is lost.   *)
FirstFree ==
    /\ start[s2] = IdleStart /\ start'[s2] # IdleStart => start[s1] # IdleStart
    /\ restart[r2] = IdleRestart /\ restart'[r2] # IdleRestart => restart[r1] # IdleRestart
    /\ status[c2] = IdleStatus /\ status'[c2] # IdleStatus => status[c1] # IdleStatus

AtWork ==
    Cardinality(Starting) + Cardinality(Restarting)
    + Cardinality({c \in Clients : status[c] # IdleStatus})
    + Cardinality({stop} \ {"idle"})

MaxAtWork == 3

(* The second page asks when the first is about to have a dead tunnel       *)
(* restarted.                                                               *)
PollStorm ==
    status[c2] = IdleStatus /\ status'[c2] # IdleStatus =>
        Revives(status[c1]) /\ state.enabled /\ Live = {}

FewMeet == FirstFree /\ AtWork' <= MaxAtWork /\ PollStorm

(* Only the first page is known to stay open.                               *)
MCSpec == Spec /\ Serves /\ WF_vars(StatusBegin(c1)) /\ WF_vars(StampExpires)
====
