----------------------------- MODULE BuildLoop -----------------------------
(***************************************************************************)
(* The build loop of watch mode (src/dune_engine/build_loop.ml) with what  *)
(* it drives: the requests of Build_system, the debouncer, the file system *)
(* cache of Fs_memo and the channel of file events.                        *)
(*                                                                         *)
(* The source tree is one source file whose contents are a version number. *)
(* The loop builds the sticky goal of the command line and the goals of    *)
(* RPC requests, restarts a build whose sources changed, and answers a     *)
(* request when its goal is built.  Actors: the loop, the fibers of the    *)
(* goals of a build, the fiber that handles file events, the RPC requests, *)
(* an RPC flush, and the outside world that edits the source.              *)
(***************************************************************************)
EXTENDS Integers, Sequences, FiniteSets

CONSTANTS
    Requests,       \* RPC build requests, each submitted at most once
    StickyGoals,    \* {"sticky"} if the command line has a goal, {} if not
    RpcFlushes,     \* {"rpc"} if an RPC flushes the file watcher, {} if not
    MaxVersion,     \* bound on the edits of the source
    MaxNoise,       \* bound on the file events about other paths
    MaxOverflows    \* bound on the overflows of the event queue

ASSUME BuildLoopAssumption ==
    /\ StickyGoals \subseteq {"sticky"}
    /\ Requests \intersect {"sticky", "build", "rpc", "edit", "noise", "overflow"} = {}
    /\ RpcFlushes \subseteq {"rpc"}
    /\ {MaxVersion, MaxNoise, MaxOverflows} \subseteq Nat

Never == -1
Goals == Requests \union {"sticky"}
Versions == 0 .. MaxVersion
Flushers == Goals \union {"build", "rpc"}

VARIABLES
    world,          \* the version of the source on disk
    queue,          \* the channel of file events, from the kernel to its reader
    noise, overflows,    \* how many such events there were
    fsCache,        \* Fs_cache: the version it holds, or Never
    node,           \* the version in the Memo node of the source, or Never
    broken,         \* whether a Memo value is the error of a cancelled build
    status, pendingReset, wakeupGeneration, inputGeneration,   \* fields of t
    triggered,      \* whether t.wakeup was triggered
    debouncer,      \* t.file_event_debouncer
    requests,       \* t.rpc_requests
    outcome,        \* the ivars of the RPC goals
    client,         \* the fibers of submit_rpc_request
    dropped,        \* history: the requests whose session cancelled them
    loop,           \* where the loop fiber is suspended, and what it remembers
    build,          \* the build that is running
    goal,           \* the fibers of its goals
    flushed,        \* the flushes whose ivar is filled
    flush,          \* the fiber of an RPC flush
    built           \* history: the version of the last finished sticky build

diskVars == <<world, noise, overflows>>
memoVars == <<fsCache, node, broken>>
wakeVars == <<wakeupGeneration, triggered>>
rpcVars == <<requests, outcome, client, dropped>>
vars == <<diskVars, queue, memoVars, status, pendingReset, wakeVars, inputGeneration, debouncer,
          rpcVars, loop, build, goal, flushed, flush, built>>

NoGoal == [at |-> "off", version |-> Never, asOf |-> Never]
NoBuild == [goals |-> {}, inputGeneration |-> 0, wakeupGeneration |-> 0,
            completion |-> "complete", cancelled |-> "no"]

Init ==
    /\ world = 0 /\ noise = 0 /\ overflows = 0
    /\ queue = <<>>
    /\ fsCache = Never /\ node = Never /\ broken = "no"
    /\ status = "Standing_by" /\ pendingReset = "none"
    /\ wakeupGeneration = 0 /\ triggered = "no" /\ inputGeneration = 0
    /\ debouncer = [pending |-> "no", generation |-> 0]
    /\ requests = {}
    /\ outcome = [r \in Requests |-> "none"]
    /\ client = [r \in Requests |-> "new"]
    /\ dropped = {}
    /\ loop = [at |-> "poll", token |-> 0, generation |-> 0, stickyBuiltAt |-> Never]
    /\ build = NoBuild
    /\ goal = [g \in Goals |-> NoGoal]
    /\ flushed = {}
    /\ flush = [at |-> "new", token |-> 0, asOf |-> Never]
    /\ built = Never

-----------------------------------------------------------------------------
(* The outside world.  An edit is followed by an event, unless the kernel     *)
(* drops it and reports an overflow.                                          *)
Edit ==
    /\ world < MaxVersion
    /\ world' = world + 1
    /\ queue' = Append(queue, "edit")
    /\ UNCHANGED <<noise, overflows, memoVars, status, pendingReset, wakeVars, inputGeneration,
                   debouncer, rpcVars, loop, build, goal, flushed, flush, built>>

EditLost ==
    /\ world < MaxVersion
    /\ overflows < MaxOverflows
    /\ world' = world + 1
    /\ overflows' = overflows + 1
    /\ queue' = Append(queue, "overflow")
    /\ UNCHANGED <<noise, memoVars, status, pendingReset, wakeVars, inputGeneration,
                   debouncer, rpcVars, loop, build, goal, flushed, flush, built>>

Noise ==
    /\ noise < MaxNoise
    /\ noise' = noise + 1
    /\ queue' = Append(queue, "noise")
    /\ UNCHANGED <<world, overflows, memoVars, status, pendingReset, wakeVars, inputGeneration,
                   debouncer, rpcVars, loop, build, goal, flushed, flush, built>>

-----------------------------------------------------------------------------
(* trigger_wakeup.                                                            *)
OnlyTriggered == wakeupGeneration
NextWakeup == wakeupGeneration + 1

TriggerWakeup ==
    /\ wakeupGeneration' = NextWakeup
    /\ triggered' = "yes"

(* The running build is cancelled: Fiber.Cancel.fire.                         *)
Cancelled(b) == IF status = "Building" THEN [b EXCEPT !.cancelled = "yes"] ELSE b

ResetKept == pendingReset
ResetForCancellation ==
    IF status = "Building" /\ pendingReset = "none" THEN "empty" ELSE pendingReset

(* request_rebuild_due_to_rpc_request.                                        *)
RequestRebuild ==
    /\ status' = IF status = "Building" THEN "Restarting_build" ELSE status
    /\ pendingReset' = ResetForCancellation
    /\ build' = Cancelled(build)
    /\ TriggerWakeup

(* Request.cancel_completion, on a build that runs or is being cancelled.     *)
SuppressedIfBuilding(b) ==
    IF status = "Building" THEN [b EXCEPT !.completion = "suppressed"] ELSE b
Suppressed(b) ==
    IF status # "Standing_by" THEN [b EXCEPT !.completion = "suppressed"] ELSE b

(* add_pending_reset, of a nonempty invalidation.                             *)
FirstReset == IF pendingReset = "none" THEN "changed" ELSE pendingReset
CombinedReset == "changed"

InputIfIdle == IF status = "Standing_by" THEN inputGeneration ELSE inputGeneration + 1
NextInput == inputGeneration + 1

(* request_restart, on a nonempty invalidation.                               *)
RequestRestart ==
    /\ pendingReset' = CombinedReset
    /\ inputGeneration' = NextInput
    /\ status' = IF status = "Building" THEN "Restarting_build" ELSE status
    /\ build' = Cancelled(Suppressed(build))
    /\ TriggerWakeup

(* Debouncer.push.                                                            *)
Pushed == [pending |-> "yes", generation |-> debouncer.generation + 1]

(* Fs_memo.handle_fs_event: Fs_cache.update compares the cached version with  *)
(* the one on disk; a version that was never read is skipped.  An overflow    *)
(* invalidates every Memo table and leaves Fs_cache as it is.                 *)
Updated(event) == IF event = "edit" /\ fsCache # Never THEN world ELSE fsCache
Invalidates(event) == event = "overflow" \/ Updated(event) # fsCache

(* handle_file_events takes one item of the channel.                          *)
HandleEvent ==
    /\ queue # <<>>
    /\ Head(queue) \in {"edit", "noise", "overflow"}
    /\ queue' = Tail(queue)
    /\ fsCache' = Updated(Head(queue))
    /\ debouncer' = IF Invalidates(Head(queue)) \/ debouncer.pending = "yes"
                    THEN Pushed ELSE debouncer
    /\ IF Invalidates(Head(queue))
       THEN RequestRestart
       ELSE UNCHANGED <<pendingReset, inputGeneration, status, build, wakeVars>>
    /\ UNCHANGED <<diskVars, node, broken, rpcVars, loop, goal, flushed, flush, built>>

(* A flush is a fill in the channel: Thread_safe_channel.read fills it when   *)
(* the items before it were taken.                                            *)
IsItem(item) == TRUE
IsFill(item) == item \in Flushers

FillFlush ==
    /\ queue # <<>>
    /\ IsFill(Head(queue))
    /\ queue' = Tail(queue)
    /\ flushed' = flushed \union {Head(queue)}
    /\ UNCHANGED <<diskVars, memoVars, status, pendingReset, wakeVars, inputGeneration, debouncer,
                   rpcVars, loop, build, goal, flush, built>>

(* simulate_file_watcher_queue_overflow.                                      *)
SimulateOverflow ==
    /\ overflows < MaxOverflows
    /\ overflows' = overflows + 1
    /\ debouncer' = Pushed
    /\ RequestRestart
    /\ UNCHANGED <<world, noise, queue, memoVars, rpcVars, loop, goal, flushed, flush, built>>

-----------------------------------------------------------------------------
(* RPC requests: submit_rpc_request up to the await, and after it.            *)
Submit(r) ==
    /\ client[r] = "new"
    /\ client' = [client EXCEPT ![r] = "waiting"]
    /\ requests' = requests \union {r}
    /\ RequestRebuild
    /\ UNCHANGED <<diskVars, queue, memoVars, inputGeneration, debouncer, outcome, dropped, loop,
                   goal, flushed, flush, built>>

Answered(r) ==
    /\ client[r] = "waiting"
    /\ outcome[r] # "none"
    /\ client' = [client EXCEPT ![r] = "answered"]
    /\ requests' = requests \ {r}
    /\ UNCHANGED <<diskVars, queue, memoVars, status, pendingReset, wakeVars, inputGeneration,
                   debouncer, outcome, dropped, loop, build, goal, flushed, flush, built>>

(* cancel_rpc_requests, when the session of r ends.                           *)
CancelRequest(r) ==
    /\ r \in requests
    /\ requests' = requests \ {r}
    /\ dropped' = dropped \union {r}
    /\ IF outcome[r] = "none"
       THEN outcome' = [outcome EXCEPT ![r] = "Failure"] /\ RequestRebuild
       ELSE UNCHANGED <<outcome, status, pendingReset, build, wakeVars>>
    /\ UNCHANGED <<diskVars, queue, memoVars, inputGeneration, debouncer, client, loop, goal,
                   flushed, flush, built>>

-----------------------------------------------------------------------------
(* The goals of a build: run_request.  The source is read through Memo and    *)
(* Fs_memo; jobs are refused once the build is cancelled; a goal that is      *)
(* built flushes the file watcher before its request is completed.            *)
Read(g) ==
    /\ goal[g].at = "read"
    /\ fsCache' = IF node = Never /\ fsCache = Never THEN world ELSE fsCache
    /\ node' = IF node = Never THEN fsCache' ELSE node
    /\ goal' = [goal EXCEPT ![g] = [@ EXCEPT !.at = "run", !.version = node']]
    /\ UNCHANGED <<diskVars, queue, broken, status, pendingReset, wakeVars, inputGeneration,
                   debouncer, rpcVars, loop, build, flushed, flush, built>>

(* The error of a cancelled build is kept by Memo until it is reset, and any  *)
(* goal may depend on a node that has it.                                     *)
Refused(g) ==
    /\ \/ goal[g].at \in {"read", "run"} /\ build.cancelled = "yes"
       \/ goal[g].at = "read" /\ broken = "yes"
    /\ broken' = "yes"
    /\ goal' = [goal EXCEPT ![g].at = "done"]
    /\ UNCHANGED <<diskVars, queue, fsCache, node, status, pendingReset, wakeVars,
                   inputGeneration, debouncer, rpcVars, loop, build, flushed, flush, built>>

StartFlush(g) ==
    /\ goal[g].at = "run"
    /\ goal' = [goal EXCEPT ![g] = [@ EXCEPT !.at = "flush", !.asOf = world]]
    /\ queue' = Append(queue, g)
    /\ UNCHANGED <<diskVars, memoVars, status, pendingReset, wakeVars, inputGeneration, debouncer,
                   rpcVars, loop, build, flushed, flush, built>>

(* finish_request, after the flush.                                           *)
FinishRequest(g) ==
    /\ goal[g].at = "flush"
    /\ g \in flushed
    /\ flushed' = flushed \ {g}
    /\ goal' = [goal EXCEPT ![g].at = "done"]
    /\ outcome' = [r \in Requests |-> IF r = g /\ build.completion = "complete" /\ outcome[r] = "none"
                                      THEN "Success" ELSE outcome[r]]
    /\ UNCHANGED <<diskVars, queue, memoVars, status, pendingReset, wakeVars, inputGeneration,
                   debouncer, requests, client, dropped, loop, build, flush, built>>

-----------------------------------------------------------------------------
(* The loop.  rpc_poll_iter, when the debouncer is pending, sleeps until the  *)
(* token it took is the latest one.                                           *)
StartSleep ==
    /\ loop.at = "poll"
    /\ debouncer.pending = "yes"
    /\ loop' = [loop EXCEPT !.at = "sleep", !.token = debouncer.generation]
    /\ UNCHANGED <<diskVars, queue, memoVars, status, pendingReset, wakeVars, inputGeneration,
                   debouncer, rpcVars, build, goal, flushed, flush, built>>

(* Debouncer.take_if_latest.                                                  *)
TakenIfOlder(token) == IF token # debouncer.generation
                       THEN [debouncer EXCEPT !.pending = "no"] ELSE debouncer
Taken(token) == IF token = debouncer.generation
                THEN [debouncer EXCEPT !.pending = "no"] ELSE debouncer

EndSleep ==
    /\ loop.at = "sleep"
    /\ debouncer' = Taken(loop.token)
    /\ loop' = IF debouncer'.pending = "yes" THEN [loop EXCEPT !.token = debouncer.generation]
               ELSE [loop EXCEPT !.at = "poll"]
    /\ UNCHANGED <<diskVars, queue, memoVars, status, pendingReset, wakeVars, inputGeneration,
                   rpcVars, build, goal, flushed, flush, built>>

Unfinished == {r \in requests : outcome[r] = "none"}

StickyToBuild ==
    IF Unfinished = {} /\ loop.stickyBuiltAt = inputGeneration THEN {} ELSE StickyGoals

(* reset_wakeup installs a trigger that was not triggered.                    *)
SameTrigger == triggered
NewTrigger == "no"

(* The branch of rpc_poll_iter with nothing to build.                         *)
Idle ==
    /\ loop.at = "poll"
    /\ debouncer.pending = "no"
    /\ Unfinished \union StickyToBuild = {}
    /\ requests' = Unfinished
    /\ status' = IF status = "Restarting_build" THEN "Standing_by" ELSE status
    /\ triggered' = NewTrigger
    /\ loop' = [loop EXCEPT !.at = "wait", !.generation = wakeupGeneration]
    /\ UNCHANGED <<diskVars, queue, memoVars, pendingReset, wakeupGeneration, inputGeneration,
                   debouncer, outcome, client, dropped, build, goal, flushed, flush, built>>

(* Memo.reset with the pending invalidation, and run_current_build up to the  *)
(* start of its goals.                                                        *)
StartBuild ==
    /\ loop.at = "poll"
    /\ debouncer.pending = "no"
    /\ Unfinished \union StickyToBuild # {}
    /\ requests' = Unfinished
    /\ pendingReset' = "none"
    /\ node' = IF pendingReset = "changed" THEN Never ELSE node
    /\ broken' = IF pendingReset = "none" THEN broken ELSE "no"
    /\ triggered' = NewTrigger
    /\ status' = "Building"
    /\ build' = [goals |-> Unfinished \union StickyToBuild,
                 inputGeneration |-> inputGeneration, wakeupGeneration |-> wakeupGeneration,
                 completion |-> "complete", cancelled |-> "no"]
    /\ goal' = [g \in Goals |-> IF g \in Unfinished \union StickyToBuild
                                THEN [NoGoal EXCEPT !.at = "read"] ELSE NoGoal]
    /\ loop' = [loop EXCEPT !.at = "goals"]
    /\ UNCHANGED <<diskVars, queue, fsCache, wakeupGeneration, inputGeneration, debouncer,
                   outcome, client, dropped, flushed, flush, built>>

(* run_with_error_collection flushes the file watcher after the goals.        *)
EndGoals ==
    /\ loop.at = "goals"
    /\ \A g \in build.goals : goal[g].at = "done"
    /\ loop' = [loop EXCEPT !.at = "flush"]
    /\ queue' = Append(queue, "build")
    /\ UNCHANGED <<diskVars, memoVars, status, pendingReset, wakeVars, inputGeneration, debouncer,
                   rpcVars, build, goal, flushed, flush, built>>

(* The end of run_current_build: `Done, or `Restart.                          *)
IsDone == \/ status # "Restarting_build"
          \/ "sticky" \notin build.goals /\ Unfinished = {}

BuiltOutcome == IF \A g \in build.goals : goal[g].asOf # Never THEN "Success" ELSE "Failure"

EndBuild ==
    /\ loop.at = "flush"
    /\ "build" \in flushed
    /\ flushed' = flushed \ {"build"}
    /\ status' = "Standing_by"
    /\ IF IsDone
       THEN /\ requests' = requests \ build.goals
            /\ outcome' = [r \in Requests |-> IF r \in build.goals /\ outcome[r] = "none"
                                              THEN BuiltOutcome ELSE outcome[r]]
            /\ loop' = [loop EXCEPT !.at = "wait", !.generation = build.wakeupGeneration,
                                    !.stickyBuiltAt = IF "sticky" \in build.goals
                                                      THEN build.inputGeneration ELSE @]
            /\ built' = IF "sticky" \in build.goals THEN goal["sticky"].version ELSE built
       ELSE /\ loop' = [loop EXCEPT !.at = "poll"]
            /\ UNCHANGED <<requests, outcome, built>>
    /\ UNCHANGED <<diskVars, queue, memoVars, pendingReset, wakeVars, inputGeneration, debouncer,
                   client, dropped, build, goal, flush>>

(* wait_for_wakeup_after returns; a trigger without a new generation makes it *)
(* wait again.                                                                *)
Wake ==
    /\ loop.at = "wait"
    /\ wakeupGeneration # loop.generation
    /\ loop' = [loop EXCEPT !.at = "poll"]
    /\ UNCHANGED <<diskVars, queue, memoVars, status, pendingReset, wakeVars, inputGeneration,
                   debouncer, rpcVars, build, goal, flushed, flush, built>>

-----------------------------------------------------------------------------
(* flush_file_watcher, called once by an RPC.                                 *)
StartRpcFlush ==
    /\ "rpc" \in RpcFlushes
    /\ flush.at = "new"
    /\ flush' = [flush EXCEPT !.at = "flush", !.asOf = world]
    /\ queue' = Append(queue, "rpc")
    /\ UNCHANGED <<diskVars, memoVars, status, pendingReset, wakeVars, inputGeneration, debouncer,
                   rpcVars, loop, build, goal, flushed, built>>

AfterFlushAtOnce ==
    [flush EXCEPT !.at = "returned"]
AfterFlush ==
    IF debouncer.pending = "yes" THEN [flush EXCEPT !.at = "sleep", !.token = debouncer.generation]
    ELSE [flush EXCEPT !.at = "returned"]

RpcFlushed ==
    /\ flush.at = "flush"
    /\ "rpc" \in flushed
    /\ flushed' = flushed \ {"rpc"}
    /\ flush' = AfterFlush
    /\ UNCHANGED <<diskVars, queue, memoVars, status, pendingReset, wakeVars, inputGeneration,
                   debouncer, rpcVars, loop, build, goal, built>>

RpcEndSleep ==
    /\ flush.at = "sleep"
    /\ debouncer' = Taken(flush.token)
    /\ flush' = IF debouncer'.pending = "yes" THEN [flush EXCEPT !.token = debouncer.generation]
                ELSE [flush EXCEPT !.at = "returned"]
    /\ UNCHANGED <<diskVars, queue, memoVars, status, pendingReset, wakeVars, inputGeneration,
                   rpcVars, loop, build, goal, flushed, built>>

-----------------------------------------------------------------------------
Outside ==
    \/ Edit
    \/ EditLost
    \/ Noise
    \/ SimulateOverflow
    \/ StartRpcFlush
    \/ \E r \in Requests : Submit(r)
    \/ \E r \in Requests : CancelRequest(r)

Progress ==
    \/ HandleEvent
    \/ FillFlush
    \/ \E r \in Requests : Answered(r)
    \/ \E g \in Goals : Read(g)
    \/ \E g \in Goals : Refused(g)
    \/ \E g \in Goals : StartFlush(g)
    \/ \E g \in Goals : FinishRequest(g)
    \/ StartSleep
    \/ EndSleep
    \/ Idle
    \/ StartBuild
    \/ EndGoals
    \/ EndBuild
    \/ Wake
    \/ RpcFlushed
    \/ RpcEndSleep

Next == Outside \/ Progress

Spec == Init /\ [][Next]_vars

(* The scheduler runs every fiber that is ready, and events and timers arrive;*)
(* nothing outside is forced to happen.                                       *)
FairSpec == Spec /\ WF_vars(Progress)

-----------------------------------------------------------------------------
(* Type invariant: the fields of t, the ivars and the suspended fibers.       *)
TypeOK ==
    /\ world \in Versions /\ noise \in 0 .. MaxNoise /\ overflows \in 0 .. MaxOverflows
    /\ queue \in Seq({"edit", "noise", "overflow"} \union Flushers)
    /\ fsCache \in Versions \union {Never}
    /\ node \in Versions \union {Never}
    /\ broken \in {"no", "yes"}
    /\ status \in {"Standing_by", "Building", "Restarting_build"}
    /\ pendingReset \in {"none", "empty", "changed"}
    /\ wakeupGeneration \in Nat /\ inputGeneration \in Nat
    /\ triggered \in {"no", "yes"}
    /\ debouncer \in [pending : {"no", "yes"}, generation : Nat]
    /\ requests \subseteq Requests
    /\ outcome \in [Requests -> {"none", "Success", "Failure"}]
    /\ client \in [Requests -> {"new", "waiting", "answered"}]
    /\ dropped \subseteq Requests
    /\ loop \in [at : {"poll", "sleep", "goals", "flush", "wait"}, token : Nat,
                 generation : Nat, stickyBuiltAt : Nat \union {Never}]
    /\ build \in [goals : SUBSET (Requests \union StickyGoals), inputGeneration : Nat,
                  wakeupGeneration : Nat, completion : {"complete", "suppressed"},
                  cancelled : {"no", "yes"}]
    /\ goal \in [Goals -> [at : {"off", "read", "run", "flush", "done"},
                           version : Versions \union {Never}, asOf : Versions \union {Never}]]
    /\ flushed \subseteq Flushers
    /\ flush \in [at : {"new", "flush", "sleep", "returned"}, token : Nat,
                  asOf : Versions \union {Never}]
    /\ built \in Versions \union {Never}

(* When the loop waits for changes and no file event is on its way, the       *)
(* sticky goal was built from the source as it is on disk, and no request of  *)
(* the RPC is left without an answer: a change or a request that arrives at   *)
(* any moment of a build, of its cancellation or of its final flush starts    *)
(* another one (run_current_build, wait_for_wakeup_after).                    *)
UpToDateWhenIdle ==
    loop.at = "wait" /\ wakeupGeneration = loop.generation /\ queue = <<>> =>
        /\ "sticky" \in StickyGoals => built = world
        /\ Unfinished = {}

(* A request that is answered Success was built from a version of the source  *)
(* that was still on disk when the goal was finished: finish_request flushes  *)
(* the file watcher so that a change made before that moment suppresses the   *)
(* answer (Request.cancel_completion), whichever request or event had already *)
(* restarted the build.                                                       *)
FreshAnswers ==
    [][\A r \in Requests : outcome[r] = "none" /\ outcome'[r] = "Success" =>
          goal[r].version = goal[r].asOf]_vars

(* A request fails only when its own session cancelled it: the error of a     *)
(* build that was cancelled to serve another request, or that Memo still      *)
(* holds from one, never reaches a client as the outcome of its own request   *)
(* (run_request, and the empty invalidation that                              *)
(* request_rebuild_due_to_rpc_request leaves behind).                         *)
OnlyDroppedFail ==
    \A r \in Requests : outcome[r] = "Failure" => r \in dropped

(* No change of a cached file is forgotten by Memo: a node that holds another *)
(* version than Fs_cache has an invalidation waiting in pending_reset, across *)
(* restarts, RPC rebuilds and resets.                                         *)
NoLostInvalidation ==
    node # Never /\ node # fsCache => pendingReset = "changed"

(* The loop never spins: whenever it waits for a wakeup generation to change, *)
(* the trigger it waits on has not been triggered yet (reset_wakeup and       *)
(* trigger_wakeup keep the trigger and the generation in step).               *)
NoSpin ==
    loop.at = "wait" /\ wakeupGeneration = loop.generation => triggered = "no"

(* flush_file_watcher returns when the changes that precede it have been      *)
(* applied (unless their notification was lost) and no quiet period is        *)
(* running, even if the build loop or a later event took the debouncer        *)
(* meanwhile.                                                                 *)
FlushApplied ==
    [][flush.at # "returned" /\ flush'.at = "returned" =>
          /\ fsCache' = Never \/ fsCache' >= flush.asOf \/ overflows > 0
          /\ debouncer'.pending = "no"]_vars

(* Every submitted request is answered, although each new request and each    *)
(* edit restarts the build it is part of.                                     *)
RequestAnswered ==
    \A r \in Requests : client[r] = "waiting" ~> client[r] = "answered"

(* Once edits and requests stop, the loop settles with the sticky goal built  *)
(* from the source on disk.                                                   *)
Settles ==
    <>[](loop.at = "wait" /\ ("sticky" \in StickyGoals => built = world))
=============================================================================
