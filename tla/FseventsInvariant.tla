-------------------------- MODULE FseventsInvariant --------------------------
(***************************************************************************)
(* The inductive invariant of Fsevents.  FseventsProofs proves that every  *)
(* step preserves it.                                                      *)
(***************************************************************************)
EXTENDS Fsevents

Ops == [op : {"start", "stop", "commit", "down", "error"}, stream : Streams]

FsEvents == [id : Nat, flags : EventFlags]

StreamRecords == [state : {"idle", "starting", "started", "stopped"}, dq : BOOLEAN,
                  held : Seq(FsEvents)]

QueueRecords == [streams : Int, exn : BOOLEAN, state : {"idle", "running", "stopped"},
                 alive : BOOLEAN]

Histories == [of : [Streams -> Seq(FsEvents)], events : Nat]

AtRest == {"off", "create", "idle", "down", "failed"}
StartPcs == {"start_lock", "start_stream"}
StopPcs == {"stop_lock", "stop_end"}
MainPcs == AtRest \union {"next"} \union StartPcs \union StopPcs
CreatingPcs == {"next"} \union StartPcs \union StopPcs
EndPcs == {"returned", "report", "ended"}
WaitingPcs == {"check", "waiting"} \union EndPcs
WatcherPcs == {"off"} \union CreatingPcs \union WaitingPcs

FTypes ==
    /\ stream \in [Streams -> StreamRecords]
    /\ dq \in QueueRecords
    /\ plan \in [main : Seq(Ops), watcher : Seq(Ops)]
    /\ pc \in [main : MainPcs, watcher : WatcherPcs]
    /\ cb \in [pc : {"idle", "called", "running"}, stream : Streams, dq : BOOLEAN,
               events : Seq(FsEvents)]
    /\ trie \subseteq Dirs /\ asked \subseteq Dirs
    /\ history \in Histories

Started == {s \in Streams : stream[s].state = "started"}

StopsIn(p) == {p[i].stream : i \in {j \in 1 .. Len(p) : p[j].op = "stop"}}

(* The order in which Stops lists a set.                                   *)
OrderOf(ds) == CHOOSE f \in Bijection(1 .. Cardinality(ds), ds) : TRUE

Distinct(p) == \A i, j \in 1 .. Len(p) : p[i] = p[j] => i = j

(* What is left of an AddPlan, and of the plan of a shutdown.              *)
AddsTo(p, d) ==
    /\ p[Len(p)] = Op("commit", d)
    /\ \A i \in 1 .. Len(p) - 1 :
         \/ i = 1 /\ p[i] = Op("start", d)
         \/ p[i].op = "stop" /\ p[i].stream \in Below(d)

Closes(p) ==
    /\ p[Len(p)].op = "down"
    /\ \A i \in 1 .. Len(p) - 1 : p[i].op = "stop"

ClosePlan == <<Op("stop", Source), Op("stop", Sync)>> \o Stops(trie) \o <<Op("down", Sync)>>

(* The streams that the main thread still has to stop.                     *)
ToStop == IF pc.main \in StopPcs THEN StopsIn(plan.main) \ {Head(plan.main).stream}
          ELSE StopsIn(plan.main)

(* The thread t is where the head of its plan has it.                      *)
AtHead(t) ==
    /\ pc[t] \in StartPcs => plan[t] # <<>> /\ Head(plan[t]).op = "start"
    /\ pc[t] \in StopPcs => plan[t] # <<>> /\ Head(plan[t]).op = "stop"

(* The streams that run are those of the trie, and the two of the          *)
(* workspace; on the way to a new trie, also those that it will not have,  *)
(* and once it is started, the new one.                                    *)
MainPlan ==
    /\ pc.main \in AtRest <=> plan.main = <<>>
    /\ Distinct(plan.main)
    /\ plan.main # <<>> =>
         \/ Closes(plan.main)
         \/ \E d \in Dirs : AddsTo(plan.main, d) /\ ~ \E l \in trie : Contains(l, d)

Adds ==
    \A d \in Dirs :
      plan.main # <<>> /\ AddsTo(plan.main, d) =>
        IF Head(plan.main).op = "start"
        THEN Started = {Source, Sync} \union trie /\ StopsIn(plan.main) = Below(d)
        ELSE Started = {Source, Sync} \union (trie \ Below(d)) \union {d} \union ToStop

MainStarted ==
    /\ pc.main = "idle" => Started = {Source, Sync} \union trie
    /\ pc.main \in {"off", "down", "failed"} => Started = {}
    /\ plan.main # <<>> /\ Closes(plan.main) => Started = ToStop
    /\ Adds

(* What the watcher thread still has to do to create the watcher, or to    *)
(* give up, and the streams that run then.                                 *)
Creation ==
    \/ plan["watcher"] = <<Op("start", Source), Op("start", Sync)>> /\ Started = {}
    \/ plan["watcher"] = <<Op("start", Sync)>> /\ Started = {Source}
    \/ plan["watcher"] = <<>> /\ Started = {Source, Sync}
    \/ /\ plan["watcher"] = <<Op("stop", Source), Op("error", Sync)>>
       /\ Started = IF pc["watcher"] \in StopPcs THEN {} ELSE {Source}
    \/ plan["watcher"] = <<Op("error", Sync)>> /\ Started = {}

(* While the watcher thread creates the watcher, the main thread waits.    *)
WatcherPlan ==
    /\ pc.main = "off" <=> pc.watcher = "off"
    /\ pc.main = "create" <=> pc.watcher \in CreatingPcs
    /\ pc.main = "failed" => pc.watcher = "ended"
    /\ pc.main = "create" =>
         /\ trie = {} /\ asked = {}
         /\ Creation

(* A stream is starting as long as a thread starts it.                     *)
StartedBy(t, s) == pc[t] \in StartPcs /\ Head(plan[t]).stream = s

StartingStreams ==
    \A s \in Streams :
      stream[s].state = "starting" <=> StartedBy("main", s) \/ StartedBy("watcher", s)

(* A stream is counted from the lock of its start to that of its stop.     *)
Counting(t) == IF pc[t] \in {"start_stream", "stop_lock"} THEN 1 ELSE 0

Counted ==
    /\ IsFiniteSet(Started)
    /\ dq.streams = Cardinality(Started) + Counting("main") + Counting("watcher")

Covered == \A d \in asked : \E l \in trie : Contains(l, d)

(* Without an exception, the queue is stopped after the last stream was.   *)
QueueEnds ==
    /\ ~dq.alive => dq.state = "stopped"
    /\ dq.state = "stopped" =>
         pc.watcher \in {"report", "ended"} /\ pc.main \notin {"off", "create", "failed"}
    /\ ~dq.exn /\ pc.watcher \in EndPcs /\ pc.main # "failed" =>
         /\ dq.streams = 0
         /\ pc.main = "down" \/ (plan.main # <<>> /\ Closes(plan.main))

Core ==
    /\ MainPlan /\ AtHead("main") /\ AtHead("watcher") /\ MainStarted /\ WatcherPlan
    /\ StartingStreams /\ Counted /\ Covered /\ QueueEnds

FInv == FTypes /\ Core
=============================================================================
