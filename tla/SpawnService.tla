---------------------------- MODULE SpawnService ----------------------------
(***************************************************************************)
(* What Spawn.spawn promises its caller                                    *)
(* (src/otherlibs/stdune/src/spawn.mli): it returns the pid of a process   *)
(* that was started, or raises, and then no process of the call is left.   *)
(* Spawn is shown to implement this.                                       *)
(***************************************************************************)
CONSTANT Threads

VARIABLES
    call,   \* per thread: the state of its call of spawn
    proc    \* per thread: the process of that call, seen from outside

vars == <<call, proc>>

Init ==
    /\ call = [t \in Threads |-> "idle"]
    /\ proc = [t \in Threads |-> "none"]

Begin(t) ==
    /\ call[t] = "idle"
    /\ call' = [call EXCEPT ![t] = "busy"]
    /\ UNCHANGED proc

(* The program runs: the only step that makes a process visible.           *)
Start(t) ==
    /\ call[t] = "busy" /\ proc[t] = "none"
    /\ proc' = [proc EXCEPT ![t] = "started"]
    /\ UNCHANGED call

(* The process gives up before the program is executed.                    *)
Abort(t) ==
    /\ call[t] = "busy" /\ proc[t] = "none"
    /\ proc' = [proc EXCEPT ![t] = "doomed"]
    /\ UNCHANGED call

(* The process ends by itself or is killed, possibly before the program is *)
(* executed.                                                               *)
End(t) ==
    /\ \/ proc[t] = "started"
       \/ call[t] = "busy" /\ proc[t] = "none"
    /\ proc' = [proc EXCEPT ![t] = "ended"]
    /\ UNCHANGED call

(* Only a call that is going to raise waits for its process.               *)
Reap(t) ==
    /\ call[t] = "busy" /\ proc[t] \in {"doomed", "ended"}
    /\ proc' = [proc EXCEPT ![t] = "none"]
    /\ call' = [call EXCEPT ![t] = "failing"]

Succeed(t) ==
    /\ call[t] = "busy" /\ proc[t] \in {"started", "ended"}
    /\ call' = [call EXCEPT ![t] = "ok"]
    /\ UNCHANGED proc

Fail(t) ==
    /\ call[t] \in {"busy", "failing"} /\ proc[t] = "none"
    /\ call' = [call EXCEPT ![t] = "error"]
    /\ UNCHANGED proc

Next ==
    \E t \in Threads :
        \/ Begin(t) \/ Start(t) \/ Abort(t) \/ End(t)
        \/ Reap(t) \/ Succeed(t) \/ Fail(t)

Spec == Init /\ [][Next]_vars
=============================================================================
