---------------------------- MODULE FileWatcher ----------------------------
(***************************************************************************)
(* File_watcher with the two backends that are written in C: create picks  *)
(* one of them, and the other never runs.                                  *)
(***************************************************************************)
EXTENDS Fsevents, FswatchWin

CONSTANT Backends   \* what select_watcher_backend may choose

ASSUME FileWatcherAssumption == Backends \subseteq {"fsevents", "fswatch_win"}

vars == <<fvars, wvars>>

Init ==
    \E backend \in Backends :
        \/ /\ backend = "fsevents"
           /\ FseventsInit("create", "next") /\ FswatchWinInit("off")
        \/ /\ backend = "fswatch_win"
           /\ FseventsInit("off", "off") /\ FswatchWinInit("idle")

Next ==
    \/ FseventsNext /\ UNCHANGED wvars
    \/ FswatchWinNext /\ UNCHANGED fvars

Spec == Init /\ [][Next]_vars /\ FseventsFairness /\ FswatchWinFairness

(* The variables of both backends are of their types; fsevent_streams      *)
(* counts the streams that wait_until_stopped has to wait for.             *)
TypeOK == FseventsTypeOK /\ FswatchWinTypeOK

(* With either backend, what a thread waits for happens: no wake-up of     *)
(* wait_until_stopped is lost, fswatch_win_add returns, and after a        *)
(* shutdown the thread of the backend ends.                                *)
NobodyWaitsForEver == WatcherEnds /\ AddReturns /\ ThreadEnds
=============================================================================
