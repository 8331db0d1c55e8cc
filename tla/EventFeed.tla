----------------------------- MODULE EventFeed -----------------------------
(***************************************************************************)
(* What people see of a run: the pump of its events, the connections that   *)
(* observe it and the terminal UI that polls, with the run started, stopped *)
(* and resumed under them.                                                 *)
(***************************************************************************)
EXTENDS Tui

vars == <<pumpVars, tuiVars, stimuli>>

TypeOK == PumpTypeOK /\ TuiTypeOK

Init == PumpInit /\ TuiInit

Next ==
    \/ PumpStep /\ UNCHANGED tuiVars
    \/ TuiStep /\ UNCHANGED pumpVars

(* The server writes frames without waiting for its peer, so a subscription *)
(* that can go on does; the hooks of an event return; and a stream settles  *)
(* once it is cancelled, for its process is gone by then.                  *)
Fairness ==
    /\ \A c \in Subs : WF_vars(Turn(c) /\ UNCHANGED tuiVars)
    /\ \A g \in 1..MaxGens :
          WF_vars(g \in DOMAIN pump /\ (Hooked(g) \/ CancelledStreamEnds(g)) /\ UNCHANGED tuiVars)

Spec == Init /\ [][Next]_vars /\ Fairness
=============================================================================
