------------------------------ MODULE Fsevents ------------------------------
(***************************************************************************)
(* Watching files on macOS: src/dune_scheduler/fsevents_stubs.c, the state *)
(* machines of fsevents.ml over it, and the Fsevents part of               *)
(* file_watcher.ml.                                                        *)
(*                                                                         *)
(* The main thread adds watches and shuts down; the thread "watcher"       *)
(* creates the dispatch queue, starts the first two streams and waits      *)
(* until all are stopped; a thread of the system, "dispatch", runs the     *)
(* callbacks of all streams one after the other. A step is what a thread   *)
(* does while it keeps the runtime lock, or while it holds dq_lock.        *)
(*                                                                         *)
(* A callback that raises after its stream was stopped, or a stop after a  *)
(* callback raised and the collector freed the queue, is undefined: it is  *)
(* left out (Raises, StopLock).                                            *)
(***************************************************************************)
EXTENDS Integers, Sequences, FiniteSets, Functions

CONSTANTS
    Dirs,       \* directories outside of the workspace, as sequences of names
    EventFlags, \* the sets of flags that the system may report
    MaxEvents   \* bound on the number of events

Source == <<"source">>
Sync == <<"sync">>
Streams == {Source, Sync} \union Dirs

ASSUME FseventsAssumption ==
    /\ \A d \in Dirs : d \in Seq(STRING) /\ d # <<>>
    /\ Dirs \intersect {Source, Sync} = {}
    /\ MaxEvents \in Nat

VARIABLES
    stream, \* dune_fsevents_t and the state of Fsevents.t: its state, whether
            \* t->dq is set, and the events that the system holds for it
    dq,     \* dune_dispatch_queue and the state of Dispatch_queue.t
    plan,   \* what the main and the watcher thread still have to do, in order
    pc,     \* where they are
    cb,     \* the callback that is running
    trie,   \* external_: the directories in the Watch_trie
    asked,  \* the directories add_watch returned Ok for
    chan,   \* the channel of file-watcher events: per stream, and closed
    history \* the events that the system reported so far: on each stream that
            \* is not stopped, and their number

fvars == <<stream, dq, plan, pc, cb, trie, asked, chan, history>>

Op(op, s) == [op |-> op, stream |-> s]

NoCallback == [pc |-> "idle", stream |-> Sync, events |-> <<>>, dq |-> FALSE]

FseventsInit(main, watcher) ==
    /\ stream = [s \in Streams |-> [state |-> "idle", dq |-> FALSE, held |-> <<>>]]
    /\ dq = [streams |-> 0, exn |-> FALSE, state |-> "idle", alive |-> TRUE]
    /\ plan = [main |-> <<>>,
               watcher |-> <<Op("start", Source), Op("start", Sync)>>]
    /\ pc = [main |-> main, watcher |-> watcher]
    /\ cb = NoCallback
    /\ trie = {}
    /\ asked = {}
    /\ chan = [closed |-> FALSE, sent |-> [s \in Streams |-> <<>>]]
    /\ history = [of |-> [s \in Streams |-> <<>>], events |-> 0]

-----------------------------------------------------------------------------
(* What an event means.                                                    *)

InterestingItems == {"Created", "Removed", "Renamed", "Modified"}

InterestingFlags == InterestingItems \union {"MustScanSubDirs"}

kind_of_flags(flags) ==
    IF "MustScanSubDirs" \in flags THEN "Dir_and_descendants"
    ELSE IF "IsDir" \in flags THEN "Dir" ELSE "File"

Among(actions, flags) == IF "Created" \in flags THEN "Created" ELSE
                         IF Cardinality(actions) = 1 THEN CHOOSE a \in actions : TRUE ELSE "Unknown"

(* flags &= action_mask: an action only when it is the only one.           *)
Only(actions, flags) ==
    IF Cardinality(actions) = 1 THEN CHOOSE a \in actions : TRUE ELSE "Unknown"

action_of_flags(flags) == Only(flags \intersect InterestingItems, flags)

(* fsevents_standard_event_impl: what is told to Fs_memo.                  *)
standard_event(flags) ==
    LET kind == kind_of_flags(flags)
        action == action_of_flags(flags)
    IN  IF \/ kind = "Dir_and_descendants"
           \/ kind = "Dir" /\ action \in {"Removed", "Renamed", "Unknown"}
        THEN "Queue_overflow"
        ELSE CASE action = "Created" -> "Created"
               [] action = "Removed" -> "Deleted"
               [] action = "Modified" /\ kind = "File" -> "File_changed"
               [] OTHER -> "Unknown"

Interesting(events) ==
    SelectSeq(events, LAMBDA e : e.flags \intersect InterestingFlags # {})

(* The function of the sync stream: a file of a sync that is still waited  *)
(* for fills its ivar, unless the file is gone; no sync is a directory.    *)
(* Each event is about a file of its own.                                  *)
sync_event(flags) ==
    CASE kind_of_flags(flags) = "Dir_and_descendants" -> "Queue_overflow"
      [] kind_of_flags(flags) = "Dir" -> "None"
      [] kind_of_flags(flags) = "File" ->
           IF action_of_flags(flags) = "Removed" THEN "None" ELSE "Sync"

on_event(s, flags) == IF s = Sync THEN sync_event(flags) ELSE standard_event(flags)

(* The list that the callback builds from the last event to the first, and *)
(* what fsevents_callback sends of it.                                     *)
Reported(s, events) ==
    LET list == Interesting(events)
        mapped == [i \in 1 .. Len(list) |->
                      [id |-> list[i].id, event |-> on_event(s, list[i].flags)]]
    IN  SelectSeq(mapped, LAMBDA e : e.event # "None")

-----------------------------------------------------------------------------
(* Fsevents.start and dune_fsevents_start, by thread t on the stream at    *)
(* the head of its plan. The mutex of the queue's state is held throughout.*)

Doing(t, op, at) ==
    /\ pc[t] = at
    /\ plan[t] # <<>> /\ Head(plan[t]).op = op

Subject(t) == Head(plan[t]).stream

Starting == \E t \in {"main", "watcher"} :
                pc[t] \in {"start_lock", "start_stream"}

Goto(t, at) == pc' = [pc EXCEPT ![t] = at]

StepDone(t) == /\ Goto(t, "next")
               /\ plan' = [plan EXCEPT ![t] = Tail(@)]

Start(t) ==
    /\ Doing(t, "start", "next")
    /\ dq.state # "stopped"
    /\ stream' = [stream EXCEPT ![Subject(t)].dq = TRUE, ![Subject(t)].state = "starting"]
    /\ Goto(t, "start_lock")
    /\ UNCHANGED <<dq, plan, cb, trie, asked, chan, history>>

StartLock(t) ==
    /\ Doing(t, "start", "start_lock")
    /\ dq' = [dq EXCEPT !.streams = @ + 1]
    /\ Goto(t, "start_stream")
    /\ UNCHANGED <<stream, plan, cb, trie, asked, chan, history>>

StartStream(t) ==
    /\ Doing(t, "start", "start_stream")
    /\ stream' = [stream EXCEPT ![Subject(t)].state = "started"]
    /\ StepDone(t)
    /\ UNCHANGED <<dq, cb, trie, asked, chan, history>>

(* A waiting thread whose condition variable is broadcast looks again.     *)
Broadcast(at) == [at EXCEPT !.watcher = IF @ = "waiting" THEN "check" ELSE @]

WakeIfLast(at) == IF dq.streams = 0 THEN Broadcast(at) ELSE at

Woken(at) == IF dq.streams = 1 THEN Broadcast(at) ELSE at

StillCounted == dq

Uncounted == [dq EXCEPT !.streams = @ - 1]

(* FSEventStreamStart fails: the start is undone and the thread gives up.  *)
(* The watcher thread stops the source stream if it has started it.        *)
StartFails(t) ==
    /\ Doing(t, "start", "start_stream")
    /\ dq' = Uncounted
    /\ stream' = [stream EXCEPT ![Subject(t)].state = "idle", ![Subject(t)].dq = FALSE]
    /\ pc' = Woken([pc EXCEPT ![t] = IF t = "main" THEN "idle" ELSE "next"])
    /\ plan' = [plan EXCEPT ![t] =
                  IF t = "watcher" /\ Subject(t) = Sync
                  THEN <<Op("stop", Source), Op("error", Sync)>>
                  ELSE IF t = "watcher" THEN <<Op("error", Sync)>>
                  ELSE <<>>]
    /\ UNCHANGED <<cb, trie, asked, chan, history>>

(* Fsevents.start on a queue that is stopped is an error.                  *)
StartRefused(t) ==
    /\ Doing(t, "start", "next")
    /\ dq.state = "stopped"
    /\ Goto(t, "idle")
    /\ plan' = [plan EXCEPT ![t] = <<>>]
    /\ UNCHANGED <<stream, dq, cb, trie, asked, chan, history>>

-----------------------------------------------------------------------------
(* Fsevents.stop and dune_fsevents_stop. What was sent for the stream is    *)
(* looked at no more.                                                      *)

Stop(t) ==
    /\ Doing(t, "stop", "next")
    /\ stream' = [stream EXCEPT ![Subject(t)].state = "stopped", ![Subject(t)].held = <<>>]
    /\ chan' = [chan EXCEPT !.sent[Subject(t)] = <<>>]
    /\ history' = [history EXCEPT !.of[Subject(t)] = <<>>]
    /\ Goto(t, "stop_lock")
    /\ UNCHANGED <<dq, plan, cb, trie, asked>>

StopLock(t) ==
    /\ Doing(t, "stop", "stop_lock")
    /\ dq.alive
    /\ dq' = [dq EXCEPT !.streams = @ - 1]
    /\ pc' = Woken([pc EXCEPT ![t] = "stop_end"])
    /\ UNCHANGED <<stream, plan, cb, trie, asked, chan, history>>

StopEnd(t) ==
    /\ Doing(t, "stop", "stop_end")
    /\ stream' = [stream EXCEPT ![Subject(t)].dq = FALSE]
    /\ StepDone(t)
    /\ UNCHANGED <<dq, cb, trie, asked, chan, history>>

-----------------------------------------------------------------------------
(* The main thread: File_watcher.add_watch and shutdown.                   *)

(* Watch_trie.to_list, in some order.                                      *)
Stops(ds) ==
    LET order == CHOOSE f \in Bijection(1 .. Cardinality(ds), ds) : TRUE
    IN  [i \in 1 .. Cardinality(ds) |-> Op("stop", order[i])]

(* The directory d is l, or below it: so say the names of their paths.     *)
Contains(l, d) == Len(l) <= Len(d) /\ \A i \in 1 .. Len(l) : l[i] = d[i]

Below(d) == {l \in trie : Contains(d, l)}

ReplacePlan(d) == Stops(Below(d)) \o <<Op("start", d), Op("commit", d)>>

(* The new stream is started before those it replaces are stopped.         *)
AddPlan(d) == <<Op("start", d)>> \o Stops(Below(d)) \o <<Op("commit", d)>>

AddWatch(d) ==
    /\ pc.main = "idle"
    /\ IF \E l \in trie : Contains(l, d)
       THEN asked' = asked \union {d} /\ UNCHANGED <<plan, pc>>
       ELSE /\ plan' = [plan EXCEPT !.main = AddPlan(d)]
            /\ Goto("main", "next")
            /\ UNCHANGED asked
    /\ UNCHANGED <<stream, dq, cb, trie, chan, history>>

(* f.external_ <- new_t                                                    *)
Commit ==
    /\ Doing("main", "commit", "next")
    /\ trie' = (trie \ Below(Subject("main"))) \union {Subject("main")}
    /\ asked' = asked \union {Subject("main")}
    /\ Goto("main", "idle")
    /\ plan' = [plan EXCEPT !.main = <<>>]
    /\ UNCHANGED <<stream, dq, cb, chan, history>>

Shutdown ==
    /\ pc.main = "idle"
    /\ chan' = [chan EXCEPT !.closed = TRUE]
    /\ plan' = [plan EXCEPT !.main =
                  <<Op("stop", Source), Op("stop", Sync)>> \o Stops(trie)
                  \o <<Op("down", Sync)>>]
    /\ Goto("main", "next")
    /\ UNCHANGED <<stream, dq, cb, trie, asked, history>>

Down ==
    /\ Doing("main", "down", "next")
    /\ Goto("main", "down")
    /\ plan' = [plan EXCEPT !.main = <<>>]
    /\ UNCHANGED <<stream, dq, cb, trie, asked, chan, history>>

-----------------------------------------------------------------------------
(* The watcher thread.                                                     *)

(* Both streams run: create_fsevents returns, and the thread waits.        *)
SignalOk ==
    /\ pc.watcher = "next" /\ plan.watcher = <<>>
    /\ pc' = [main |-> "idle", watcher |-> "check"]
    /\ dq' = [dq EXCEPT !.state = "running"]
    /\ UNCHANGED <<stream, plan, cb, trie, asked, chan, history>>

SignalError ==
    /\ Doing("watcher", "error", "next")
    /\ pc' = [main |-> "failed", watcher |-> "ended"]
    /\ plan' = [plan EXCEPT !.watcher = <<>>]
    /\ UNCHANGED <<stream, dq, cb, trie, asked, chan, history>>

MustWaitForOther == dq.streams > 1 /\ ~dq.exn

(* while (dq->fsevent_streams > 0 && !dq->has_exn)                         *)
MustWait == dq.streams > 0 /\ ~dq.exn

CheckQueue ==
    /\ pc.watcher = "check"
    /\ Goto("watcher", IF MustWait THEN "waiting" ELSE "returned")
    /\ UNCHANGED <<stream, dq, plan, cb, trie, asked, chan, history>>

(* Dispatch_queue.stop: the state no longer refers to the queue.           *)
StopQueue ==
    /\ pc.watcher = "returned"
    /\ ~Starting
    /\ dq' = [dq EXCEPT !.state = "stopped"]
    /\ Goto("watcher", IF dq.exn THEN "report" ELSE "ended")
    /\ UNCHANGED <<stream, plan, cb, trie, asked, chan, history>>

(* Watcher_terminated closes the channel.                                  *)
ReportExn ==
    /\ pc.watcher = "report"
    /\ chan' = [chan EXCEPT !.closed = TRUE]
    /\ Goto("watcher", "ended")
    /\ UNCHANGED <<stream, dq, plan, cb, trie, asked, history>>

(* The collector runs dune_fsevents_dispatch_queue_finalize.               *)
Finalize ==
    /\ dq.state = "stopped" /\ dq.alive
    /\ dq' = [dq EXCEPT !.alive = FALSE]
    /\ UNCHANGED <<stream, plan, pc, cb, trie, asked, chan, history>>

-----------------------------------------------------------------------------
(* The system reports events, and runs dune_fsevents_callback.             *)

Occur(s, flags) ==
    /\ stream[s].state = "started"
    /\ history.events < MaxEvents
    /\ LET e == [id |-> history.events + 1, flags |-> flags]
       IN  /\ stream' = [stream EXCEPT ![s].held = Append(@, e)]
           /\ history' = [of |-> [history.of EXCEPT ![s] = Append(@, e)], events |-> e.id]
    /\ UNCHANGED <<dq, plan, pc, cb, trie, asked, chan>>

(* The queue is serial: one callback at a time, on some events of a stream.*)
Call(s, n) ==
    /\ cb.pc = "idle"
    /\ stream[s].state = "started"
    /\ n <= Len(stream[s].held)
    /\ cb' = [pc |-> "called", stream |-> s, dq |-> FALSE,
              events |-> SubSeq(stream[s].held, 1, n)]
    /\ stream' = [stream EXCEPT ![s].held = SubSeq(@, n + 1, Len(@))]
    /\ UNCHANGED <<dq, plan, pc, trie, asked, chan, history>>

(* The callback gets the runtime lock and reads t->dq.                     *)
Enter ==
    /\ cb.pc = "called"
    /\ cb' = [cb EXCEPT !.pc = "running", !.dq = stream[cb.stream].dq]
    /\ UNCHANGED <<stream, dq, plan, pc, trie, asked, chan, history>>

Deliver ==
    /\ cb.pc = "running"
    /\ chan' = IF chan.closed THEN chan
               ELSE [chan EXCEPT !.sent[cb.stream] = @ \o Reported(cb.stream, cb.events)]
    /\ cb' = NoCallback
    /\ UNCHANGED <<stream, dq, plan, pc, trie, asked, history>>

(* The OCaml callback raises before it sends anything.                     *)
Raises ==
    /\ cb.pc = "running"
    /\ cb.dq /\ dq.alive
    /\ dq' = [dq EXCEPT !.exn = TRUE]
    /\ pc' = Broadcast(pc)
    /\ cb' = NoCallback
    /\ UNCHANGED <<stream, plan, trie, asked, chan, history>>

-----------------------------------------------------------------------------
Threaded(t) ==
    \/ Start(t) \/ StartLock(t) \/ StartStream(t)
    \/ Stop(t) \/ StopLock(t) \/ StopEnd(t)

MainStep == Threaded("main") \/ StartRefused("main") \/ Commit \/ Down

WatcherStep ==
    \/ Threaded("watcher")
    \/ SignalOk \/ SignalError \/ CheckQueue \/ StopQueue \/ ReportExn

DispatchStep == (\E s \in Streams, n \in 1 .. MaxEvents : Call(s, n)) \/ Enter \/ Deliver

FseventsNext ==
    \/ MainStep \/ WatcherStep \/ DispatchStep
    \/ \E t \in {"main", "watcher"} : StartFails(t)
    \/ \E d \in Dirs : AddWatch(d)
    \/ Shutdown
    \/ Finalize
    \/ \E s \in Streams, flags \in EventFlags : Occur(s, flags)
    \/ Raises

(* The threads run; the watcher gets the mutex of the queue's state in the *)
(* end, also if the main thread takes it again and again.                  *)
FseventsFairness ==
    /\ WF_fvars(MainStep) /\ WF_fvars(WatcherStep) /\ WF_fvars(DispatchStep)
    /\ SF_fvars(StopQueue)

-----------------------------------------------------------------------------
(* Properties.                                                             *)

(* The variables are of their types, and fsevent_streams counts the        *)
(* streams between the lock of their start and the lock of their stop.     *)
FseventsTypeOK ==
    /\ \A s \in Streams : stream[s].state \in {"idle", "starting", "started", "stopped"}
    /\ pc.main \in {"off", "create", "idle", "next", "start_lock", "start_stream", "stop_lock",
                    "stop_end", "down", "failed"}
    /\ pc.watcher \in {"off", "next", "start_lock", "start_stream", "stop_lock", "stop_end",
                       "check", "waiting", "returned", "report", "ended"}
    /\ dq.state \in {"idle", "running", "stopped"}
    /\ cb.pc \in {"idle", "called", "running"} /\ cb.stream \in Streams
    /\ trie \subseteq Dirs /\ asked \subseteq Dirs
    /\ dq.streams =
         Cardinality({s \in Streams : stream[s].state = "started"})
         + Cardinality({t \in {"main", "watcher"} : pc[t] \in {"start_stream", "stop_lock"}})

ShuttingDown == pc.main = "down" \/ (plan.main # <<>> /\ plan.main[Len(plan.main)].op = "down")

(* A directory that add_watch accepted, and the workspace once the watcher *)
(* was created, is watched at every moment until shutdown: also while a    *)
(* wider watch replaces those below it, and when that one fails to start.  *)
StaysWatched ==
    pc.main \notin {"off", "create", "failed"} /\ ~ShuttingDown =>
        /\ \A s \in {Source, Sync} : stream[s].state = "started"
        /\ \A d \in asked : \E l \in Dirs : Contains(l, d) /\ stream[l].state = "started"

(* An event is worth a report, unless it is about the directory of the     *)
(* sync files or only says that one of them went.                          *)
Worth(s, events) ==
    SelectSeq(Interesting(events),
              LAMBDA e : s = Sync => \/ "MustScanSubDirs" \in e.flags
                                     \/ /\ "IsDir" \notin e.flags
                                        /\ e.flags \intersect InterestingItems # {"Removed"})

(* Whether a report tells dune of all that the event may have changed: a   *)
(* directory that went or came under another name changes all that is in   *)
(* it, whatever else the system coalesced into the event.                  *)
TellsAll(flags, event) ==
    \/ "MustScanSubDirs" \in flags
    \/ "IsDir" \in flags /\ flags \intersect {"Removed", "Renamed"} # {}
    => event = "Queue_overflow"

(* Every event that is worth a report is reported once, in the order in    *)
(* which the stream reported it, as a change of all that it may concern:   *)
(* what was sent, what the running callback has and what the system holds  *)
(* are together what happened, until the channel is closed or a callback   *)
(* raises.                                                                 *)
ReportedInOrder ==
    ~chan.closed /\ ~dq.exn =>
        \A s \in Streams :
            stream[s].state = "started" =>
                LET sent == chan.sent[s]
                    inflight == IF cb.pc # "idle" /\ cb.stream = s THEN cb.events ELSE <<>>
                    worth == Worth(s, history.of[s])
                    rest == Worth(s, inflight \o stream[s].held)
                IN  /\ Len(sent) + Len(rest) = Len(worth)
                    /\ \A i \in 1 .. Len(sent) : /\ sent[i].id = worth[i].id
                                                 /\ TellsAll(worth[i].flags, sent[i].event)

(* wait_until_stopped returns without an exception only when every stream  *)
(* is stopped, so that the collector never frees the queue of a stream     *)
(* that is starting, running or about to be counted out.                   *)
QueueOutlivesStreams ==
    ~dq.alive /\ ~dq.exn =>
        /\ \A s \in Streams : stream[s].state \in {"idle", "stopped"}
        /\ \A t \in {"main", "watcher"} : pc[t] # "stop_lock"

(* The thread that waits for the queue ends after a shutdown and after a   *)
(* callback raised: no wake-up is lost. After an exception the channel is  *)
(* closed, so that dune knows that its watcher is gone (or the creation of *)
(* the watcher has failed anyway).                                         *)
WatcherEnds ==
    (pc.main = "down" \/ dq.exn) ~>
        (pc.watcher = "ended" /\ (dq.exn => chan.closed \/ pc.main = "failed"))
=============================================================================
