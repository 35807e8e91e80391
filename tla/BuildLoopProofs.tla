-------------------------- MODULE BuildLoopProofs --------------------------
(***************************************************************************)
(* Safety of the build loop, for any number of requests, edits and events: *)
(* its invariant, a lemma on each conjunct for each kind of step, and the  *)
(* theorems that follow.                                                   *)
(***************************************************************************)
EXTENDS BuildLoop, TLAPS

USE DEF diskVars, memoVars, wakeVars, rpcVars

(* The type invariant, with a name for each set: a step that leaves a record  *)
(* alone is then shown to without a look at its fields.                       *)
Items == {"edit", "noise", "overflow"} \union Flushers
Statuses == {"Standing_by", "Building", "Restarting_build"}
Resets == {"none", "empty", "changed"}
MaybeVersions == Versions \union {Never}
Debouncers == [pending : {"no", "yes"}, generation : Nat]
Loops == [at : {"poll", "sleep", "goals", "flush", "wait"}, token : Nat,
          generation : Nat, stickyBuiltAt : Nat \union {Never}]
Builds == [goals : SUBSET (Requests \union StickyGoals), inputGeneration : Nat,
           wakeupGeneration : Nat, completion : {"complete", "suppressed"},
           cancelled : {"no", "yes"}]
GoalStates == [at : {"off", "read", "run", "flush", "done"},
               version : MaybeVersions, asOf : MaybeVersions]
Flushes == [at : {"new", "flush", "sleep", "returned"}, token : Nat, asOf : MaybeVersions]

Types ==
    /\ world \in Versions /\ noise \in 0 .. MaxNoise /\ overflows \in 0 .. MaxOverflows
    /\ queue \in Seq(Items)
    /\ fsCache \in MaybeVersions /\ node \in MaybeVersions /\ broken \in {"no", "yes"}
    /\ status \in Statuses /\ pendingReset \in Resets
    /\ wakeupGeneration \in Nat /\ inputGeneration \in Nat /\ triggered \in {"no", "yes"}
    /\ debouncer \in Debouncers
    /\ requests \subseteq Requests
    /\ outcome \in [Requests -> {"none", "Success", "Failure"}]
    /\ client \in [Requests -> {"new", "waiting", "answered"}]
    /\ dropped \subseteq Requests
    /\ loop \in Loops /\ build \in Builds
    /\ goal \in [Goals -> GoalStates]
    /\ flushed \subseteq Flushers
    /\ flush \in Flushes
    /\ built \in MaybeVersions

(* Types is the type invariant of BuildLoop.                                  *)
LEMMA TypesEquiv == TypeOK <=> Types
BY Zenon DEF TypeOK, Types, Items, Statuses, Resets, MaybeVersions, Debouncers, Loops, Builds,
       GoalStates, Flushes

(* request_restart keeps the types.                                           *)
LEMMA RestartTypes ==
    ASSUME Types, RequestRestart
    PROVE  /\ pendingReset' = "changed" /\ inputGeneration' \in Nat
           /\ wakeupGeneration' \in Nat /\ triggered' = "yes"
           /\ status' \in Statuses /\ build' \in Builds
<1>1. build' \in Builds
    <2>1. build \in Builds BY Zenon DEF Types
    <2>2. Suppressed(build) \in Builds BY <2>1, Zenon DEF Suppressed, Builds
    <2>3. Cancelled(Suppressed(build)) \in Builds BY <2>2, Zenon DEF Cancelled, Builds
    <2>4. QED BY <2>3, Zenon DEF RequestRestart
<1>2. QED
BY <1>1 DEF Types, RequestRestart, CombinedReset, NextInput, TriggerWakeup, NextWakeup, Statuses

(* request_rebuild_due_to_rpc_request keeps the types.                        *)
LEMMA RebuildTypes ==
    ASSUME Types, RequestRebuild
    PROVE  /\ pendingReset' \in Resets
           /\ wakeupGeneration' \in Nat /\ triggered' = "yes"
           /\ status' \in Statuses /\ build' \in Builds
<1>1. build' \in Builds
    <2>1. build \in Builds BY Zenon DEF Types
    <2>3. Cancelled(build) \in Builds BY <2>1, Zenon DEF Cancelled, Builds
    <2>4. QED BY <2>3, Zenon DEF RequestRebuild
<1>2. QED
BY <1>1 DEF Types, RequestRebuild, ResetForCancellation, TriggerWakeup, NextWakeup, Statuses, Resets

(* Every step keeps the types.                                                *)
LEMMA TypeStep == Types /\ [Next]_vars => Types'
<1> SUFFICES ASSUME Types, [Next]_vars PROVE Types'
    BY Zenon
<1> USE BuildLoopAssumption DEF Types, Versions, MaybeVersions
<1>1. CASE Edit BY <1>1 DEF Edit, Items
<1>2. CASE EditLost BY <1>2 DEF EditLost, Items
<1>3. CASE Noise BY <1>3 DEF Noise, Items
<1>4. CASE SimulateOverflow
    BY <1>4, RestartTypes, SMTT(60) DEF SimulateOverflow, Pushed, Debouncers, Resets
<1>5. CASE StartRpcFlush
    <2>1. flush' \in Flushes BY <1>5, Zenon DEF StartRpcFlush, Flushes
    <2>2. queue' \in Seq(Items) BY <1>5 DEF StartRpcFlush, Items, Flushers
    <2>3. QED BY <1>5, <2>1, <2>2, Zenon DEF StartRpcFlush
<1>6. ASSUME NEW r \in Requests, Submit(r) PROVE Types'
    BY <1>6, RebuildTypes, Zenon DEF Submit
<1>7. ASSUME NEW r \in Requests, CancelRequest(r) PROVE Types'
    BY <1>7, RebuildTypes, Zenon DEF CancelRequest
<1>8. CASE HandleEvent
    <2>1. queue' \in Seq(Items) BY <1>8 DEF HandleEvent
    <2>2. fsCache' \in MaybeVersions /\ debouncer' \in Debouncers
        BY <1>8 DEF HandleEvent, Updated, Pushed, Debouncers
    <2>3. /\ pendingReset' \in Resets /\ inputGeneration' \in Nat
          /\ wakeupGeneration' \in Nat /\ triggered' \in {"no", "yes"}
          /\ status' \in Statuses /\ build' \in Builds
        BY <1>8, RestartTypes, Zenon DEF HandleEvent, Resets
    <2>4. QED BY <1>8, <2>1, <2>2, <2>3, Zenon DEF HandleEvent
<1>9. CASE FillFlush BY <1>9 DEF FillFlush, IsFill
<1>10. ASSUME NEW r \in Requests, Answered(r) PROVE Types'
    BY <1>10, Zenon DEF Answered
<1>11. ASSUME NEW g \in Goals, Read(g) PROVE Types'
    <2>1. fsCache' \in MaybeVersions /\ node' \in MaybeVersions BY <1>11, Zenon DEF Read
    <2>2. goal' \in [Goals -> GoalStates]
        <3>1. goal[g] \in GoalStates BY Zenon
        <3>2. [goal[g] EXCEPT !.at = "run", !.version = node'] \in GoalStates
            BY <2>1, <3>1, Zenon DEF GoalStates
        <3>3. QED BY <1>11, <3>2, Zenon DEF Read
    <2>3. QED BY <1>11, <2>1, <2>2, Zenon DEF Read
<1>12. ASSUME NEW g \in Goals, Refused(g) PROVE Types'
    BY <1>12 DEF Refused, GoalStates
<1>13. ASSUME NEW g \in Goals, StartFlush(g) PROVE Types'
    <2>1. goal' \in [Goals -> GoalStates]
        <3>1. goal[g] \in GoalStates BY Zenon
        <3>2. [goal[g] EXCEPT !.at = "flush", !.asOf = world] \in GoalStates
            BY <3>1, Zenon DEF GoalStates
        <3>3. QED BY <1>13, <3>2, Zenon DEF StartFlush
    <2>2. queue' \in Seq(Items) BY <1>13 DEF StartFlush, Items, Flushers
    <2>3. QED BY <1>13, <2>1, <2>2, Zenon DEF StartFlush
<1>14. ASSUME NEW g \in Goals, FinishRequest(g) PROVE Types'
    BY <1>14, SMTT(60) DEF FinishRequest, GoalStates
<1>15. CASE StartSleep BY <1>15, Zenon DEF StartSleep, Loops, Debouncers
<1>16. CASE EndSleep BY <1>16, Zenon DEF EndSleep, Taken, Loops, Debouncers
<1>17. CASE Idle BY <1>17, Zenon DEF Idle, Unfinished, NewTrigger, Loops, Statuses
<1>18. CASE StartBuild
    <2>1. build' \in Builds
        BY <1>18, Zenon DEF StartBuild, Unfinished, StickyToBuild, Builds
    <2>2. goal' \in [Goals -> GoalStates]
        BY <1>18, Zenon DEF StartBuild, NoGoal, GoalStates
    <2>3. loop' \in Loops /\ node' \in MaybeVersions /\ requests' \subseteq Requests
        BY <1>18, Zenon DEF StartBuild, Loops, Unfinished
    <2>4. QED
        BY <1>18, <2>1, <2>2, <2>3, Zenon DEF StartBuild, NewTrigger, Statuses, Resets
<1>19. CASE EndGoals
    <2>1. loop' \in Loops BY <1>19, Zenon DEF EndGoals, Loops
    <2>2. queue' \in Seq(Items) BY <1>19 DEF EndGoals, Items, Flushers
    <2>3. QED BY <1>19, <2>1, <2>2, Zenon DEF EndGoals
<1>20. CASE EndBuild
    <2>1. outcome' \in [Requests -> {"none", "Success", "Failure"}] /\ requests' \subseteq Requests
        BY <1>20, Zenon DEF EndBuild, BuiltOutcome
    <2>2. loop' \in Loops
        <3>1. loop \in Loops /\ build.inputGeneration \in Nat /\ build.wakeupGeneration \in Nat
            BY Zenon DEF Builds
        <3>2. CASE IsDone
            BY <1>20, <3>1, <3>2, ZenonT(60) DEF EndBuild, Loops
        <3>3. CASE ~IsDone
            BY <1>20, <3>1, <3>3, ZenonT(60) DEF EndBuild, Loops
        <3>4. QED BY <3>2, <3>3, Zenon
    <2>3. built' \in MaybeVersions
        BY <1>20 DEF EndBuild, GoalStates, Goals
    <2>4. QED BY <1>20, <2>1, <2>2, <2>3, Zenon DEF EndBuild, Statuses
<1>21. CASE Wake BY <1>21, Zenon DEF Wake, Loops
<1>22. CASE RpcFlushed BY <1>22, Zenon DEF RpcFlushed, AfterFlush, Flushes, Debouncers
<1>23. CASE RpcEndSleep BY <1>23, Zenon DEF RpcEndSleep, Taken, Flushes, Debouncers
<1>24. CASE UNCHANGED vars BY <1>24, Zenon DEF vars
<1>25. QED
    BY <1>1, <1>2, <1>3, <1>4, <1>5, <1>6, <1>7, <1>8, <1>9, <1>10, <1>11, <1>12, <1>13, <1>14,
       <1>15, <1>16, <1>17, <1>18, <1>19, <1>20, <1>21, <1>22, <1>23, <1>24, Zenon
       DEF Next, Outside, Progress

-----------------------------------------------------------------------------
(* What a step does to the fields of the records.  request_restart counts a   *)
(* new input and suppresses the answers of the build that it cancels.         *)
LEMMA RestartFields ==
    ASSUME Types, RequestRestart
    PROVE  /\ pendingReset' = "changed" /\ inputGeneration' = inputGeneration + 1
           /\ wakeupGeneration' = wakeupGeneration + 1 /\ triggered' = "yes"
           /\ status' = IF status = "Building" THEN "Restarting_build" ELSE status
           /\ build'.goals = build.goals
           /\ build'.inputGeneration = build.inputGeneration
           /\ build'.wakeupGeneration = build.wakeupGeneration
           /\ build'.completion = IF status = "Standing_by" THEN build.completion ELSE "suppressed"
           /\ build'.cancelled = IF status = "Building" THEN "yes" ELSE build.cancelled
<1>1. build \in Builds
    BY Zenon DEF Types
<1>2. QED
    BY <1>1, Zenon DEF Builds, RequestRestart, CombinedReset, NextInput, TriggerWakeup, NextWakeup,
                Cancelled, Suppressed

(* request_rebuild_due_to_rpc_request cancels the build, not its answers.     *)
LEMMA RebuildFields ==
    ASSUME Types, RequestRebuild
    PROVE  /\ pendingReset' = IF status = "Building" /\ pendingReset = "none" THEN "empty"
                              ELSE pendingReset
           /\ wakeupGeneration' = wakeupGeneration + 1 /\ triggered' = "yes"
           /\ status' = IF status = "Building" THEN "Restarting_build" ELSE status
           /\ build'.goals = build.goals
           /\ build'.inputGeneration = build.inputGeneration
           /\ build'.wakeupGeneration = build.wakeupGeneration
           /\ build'.completion = build.completion
           /\ build'.cancelled = IF status = "Building" THEN "yes" ELSE build.cancelled
<1>1. build \in Builds
    BY Zenon DEF Types
<1>2. QED
    BY <1>1, Zenon DEF Builds, RequestRebuild, ResetForCancellation, TriggerWakeup, NextWakeup, Cancelled

(* run_request and finish_request move one goal.                              *)
LEMMA GoalFields ==
    ASSUME Types, NEW g \in Goals
    PROVE  /\ Read(g) => /\ goal'[g].at = "run" /\ goal'[g].version = node'
                         /\ goal'[g].asOf = goal[g].asOf
           /\ Refused(g) => /\ goal'[g].at = "done" /\ goal'[g].version = goal[g].version
                            /\ goal'[g].asOf = goal[g].asOf
           /\ StartFlush(g) => /\ goal'[g].at = "flush" /\ goal'[g].version = goal[g].version
                               /\ goal'[g].asOf = world
           /\ FinishRequest(g) => /\ goal'[g].at = "done" /\ goal'[g].version = goal[g].version
                                  /\ goal'[g].asOf = goal[g].asOf
           /\ Read(g) \/ Refused(g) \/ StartFlush(g) \/ FinishRequest(g) =>
                \A h \in Goals : h # g => goal'[h] = goal[h]
<1>1. goal \in [Goals -> GoalStates] /\ goal[g] \in GoalStates
    BY Zenon DEF Types
<1>2. Read(g) => goal' = [goal EXCEPT ![g] = [goal[g] EXCEPT !.at = "run", !.version = node']]
    BY <1>1, Zenon DEF Read
<1>3. Refused(g) \/ FinishRequest(g) => goal' = [goal EXCEPT ![g] = [goal[g] EXCEPT !.at = "done"]]
    BY <1>1, Zenon DEF Refused, FinishRequest
<1>4. StartFlush(g) => goal' = [goal EXCEPT ![g] = [goal[g] EXCEPT !.at = "flush", !.asOf = world]]
    BY <1>1, Zenon DEF StartFlush
<1>5. \A new : goal' = [goal EXCEPT ![g] = new] =>
            goal'[g] = new /\ \A h \in Goals : h # g => goal'[h] = goal[h]
    BY <1>1, Zenon
<1>6. LET new == [goal[g] EXCEPT !.at = "run", !.version = node'] IN
            new.at = "run" /\ new.version = node' /\ new.asOf = goal[g].asOf
    BY <1>1, Zenon DEF GoalStates
<1>7. LET new == [goal[g] EXCEPT !.at = "done"] IN
            new.at = "done" /\ new.version = goal[g].version /\ new.asOf = goal[g].asOf
    BY <1>1, Zenon DEF GoalStates
<1>8. LET new == [goal[g] EXCEPT !.at = "flush", !.asOf = world] IN
            new.at = "flush" /\ new.version = goal[g].version /\ new.asOf = world
    BY <1>1, Zenon DEF GoalStates
<1>9. Read(g) => /\ goal'[g].at = "run" /\ goal'[g].version = node'
                  /\ goal'[g].asOf = goal[g].asOf
                  /\ \A h \in Goals : h # g => goal'[h] = goal[h]
    BY <1>2, <1>5, <1>6, Zenon
<1>10. Refused(g) \/ FinishRequest(g) =>
                  /\ goal'[g].at = "done" /\ goal'[g].version = goal[g].version
                  /\ goal'[g].asOf = goal[g].asOf
                  /\ \A h \in Goals : h # g => goal'[h] = goal[h]
    BY <1>3, <1>5, <1>7, Zenon
<1>11. StartFlush(g) => /\ goal'[g].at = "flush" /\ goal'[g].version = goal[g].version
                        /\ goal'[g].asOf = world
                        /\ \A h \in Goals : h # g => goal'[h] = goal[h]
    BY <1>4, <1>5, <1>8, Zenon
<1>12. QED
    BY <1>9, <1>10, <1>11, Zenon

(* run_current_build starts with goals that have read nothing.                *)
LEMMA NewBuild ==
    ASSUME Types, StartBuild
    PROVE  /\ build'.goals = Unfinished \union StickyToBuild
           /\ build'.inputGeneration = inputGeneration
           /\ build'.wakeupGeneration = wakeupGeneration
           /\ build'.completion = "complete" /\ build'.cancelled = "no"
           /\ \A g \in Goals : /\ goal'[g].at = IF g \in build'.goals THEN "read" ELSE "off"
                               /\ goal'[g].version = Never /\ goal'[g].asOf = Never
BY Zenon DEF StartBuild, NoGoal

(* Where the steps of the loop leave it, and what it remembers.               *)
LEMMA LoopFields ==
    ASSUME Types
    PROVE  /\ StartSleep => loop'.at = "sleep"
           /\ EndSleep => loop'.at \in {"sleep", "poll"}
           /\ Idle => loop'.at = "wait" /\ loop'.generation = wakeupGeneration
           /\ StartBuild => loop'.at = "goals"
           /\ EndGoals => loop'.at = "flush"
           /\ Wake => loop'.at = "poll"
           /\ EndBuild /\ ~IsDone => loop'.at = "poll"
           /\ EndBuild /\ IsDone => /\ loop'.at = "wait"
                                    /\ loop'.generation = build.wakeupGeneration
                                    /\ loop'.stickyBuiltAt = IF "sticky" \in build.goals
                                                             THEN build.inputGeneration
                                                             ELSE loop.stickyBuiltAt
           /\ StartSleep \/ EndSleep \/ Idle \/ StartBuild \/ EndGoals \/ Wake =>
                loop'.stickyBuiltAt = loop.stickyBuiltAt
           /\ StartSleep \/ EndSleep \/ StartBuild \/ EndGoals \/ Wake
              \/ (EndBuild /\ ~IsDone) =>
                loop'.generation = loop.generation /\ loop'.stickyBuiltAt = loop.stickyBuiltAt
<1>1. loop \in Loops
    BY Zenon DEF Types
<1>2. EndBuild /\ IsDone =>
        loop' = [loop EXCEPT !.at = "wait", !.generation = build.wakeupGeneration,
                             !.stickyBuiltAt = IF "sticky" \in build.goals
                                               THEN build.inputGeneration
                                               ELSE loop.stickyBuiltAt]
    BY <1>1, Zenon DEF EndBuild, Loops
<1>3. EndBuild /\ ~IsDone => loop' = [loop EXCEPT !.at = "poll"]
    BY <1>1, Zenon DEF EndBuild
<1>4. QED
    BY <1>1, <1>2, <1>3, ZenonT(60) DEF Loops, StartSleep, EndSleep, Idle, StartBuild, EndGoals, Wake

-----------------------------------------------------------------------------
(* Memo hears of every change of the file system cache.                       *)
LEMMA NoLostStep == NoLostInvalidation /\ [Next]_vars => NoLostInvalidation'
<1> SUFFICES ASSUME NoLostInvalidation, [Next]_vars PROVE NoLostInvalidation'
    BY Zenon
<1> USE DEF NoLostInvalidation
<1>1. CASE SimulateOverflow
    BY <1>1, Zenon DEF SimulateOverflow, RequestRestart, CombinedReset
<1>2. ASSUME NEW r \in Requests, Submit(r) \/ CancelRequest(r) PROVE NoLostInvalidation'
    BY <1>2, Zenon DEF Submit, CancelRequest, RequestRebuild, ResetForCancellation
<1>3. CASE HandleEvent
    BY <1>3, Zenon DEF HandleEvent, Invalidates, RequestRestart, CombinedReset
<1>4. ASSUME NEW g \in Goals, Read(g) PROVE NoLostInvalidation'
    BY <1>4, Zenon DEF Read
<1>5. CASE StartBuild
    BY <1>5, Zenon DEF StartBuild
<1>6. CASE Edit \/ EditLost \/ Noise \/ StartRpcFlush \/ FillFlush \/ StartSleep \/ EndSleep
           \/ Idle \/ EndGoals \/ EndBuild \/ Wake \/ RpcFlushed \/ RpcEndSleep \/ UNCHANGED vars
    BY <1>6, Zenon DEF Edit, EditLost, Noise, StartRpcFlush, FillFlush, StartSleep, EndSleep, Idle,
                EndGoals, EndBuild, Wake, RpcFlushed, RpcEndSleep, vars
<1>7. ASSUME NEW r \in Requests, Answered(r) PROVE NoLostInvalidation'
    BY <1>7, Zenon DEF Answered
<1>8. ASSUME NEW g \in Goals, Refused(g) \/ StartFlush(g) \/ FinishRequest(g)
      PROVE  NoLostInvalidation'
    BY <1>8, Zenon DEF Refused, StartFlush, FinishRequest
<1>9. QED
    BY <1>1, <1>2, <1>3, <1>4, <1>5, <1>6, <1>7, <1>8, Zenon DEF Next, Outside, Progress

-----------------------------------------------------------------------------
(* The invariant.  A build runs from the start of its goals to the end of its *)
(* final flush.                                                               *)
InBuild == loop.at \in {"goals", "flush"}

(* Nothing remembers a version that was not on disk yet.                      *)
NotNewer ==
    /\ fsCache <= world /\ node <= world /\ flush.asOf <= world
    /\ \A g \in Goals : goal[g].version <= world /\ goal[g].asOf <= world

(* How far the goals of a build are, and what they have read by then.         *)
GoalsProceed ==
    \A g \in Goals :
        /\ goal[g].at \notin {"off", "done"} => loop.at = "goals"
        /\ InBuild => (g \in build.goals <=> goal[g].at # "off")
        /\ goal[g].at \in {"off", "read"} => goal[g].version = Never /\ goal[g].asOf = Never
        /\ goal[g].at = "run" => goal[g].version # Never /\ goal[g].asOf = Never
        /\ goal[g].at = "flush" => goal[g].asOf # Never
        /\ goal[g].asOf # Never => goal[g].version # Never /\ goal[g].version <= goal[g].asOf

(* status follows the loop; a build that was cancelled, and what it left in   *)
(* Memo, has an invalidation pending.                                         *)
Phase ==
    /\ InBuild <=> status # "Standing_by"
    /\ InBuild => StickyGoals \subseteq build.goals
    /\ status = "Building" => pendingReset = "none"
    /\ status = "Restarting_build" => pendingReset # "none"
    /\ InBuild /\ build.cancelled = "yes" => status = "Restarting_build"
    /\ broken = "yes" => pendingReset # "none"

(* A build that is not cancelled has lost none of its goals.                  *)
Unrefused ==
    status = "Building" => \A g \in Goals : goal[g].at = "done" => goal[g].asOf # Never

(* Only an edit changes the version on disk, and it is a later one.           *)
LEMMA NotNewerStep ==
    ASSUME Types, NotNewer, [Next]_vars
    PROVE  NotNewer'
<1> USE DEF NotNewer
<1>t. /\ world \in Int /\ fsCache \in Int /\ node \in Int /\ flush \in Flushes
      /\ \A g \in Goals : goal[g].version \in Int /\ goal[g].asOf \in Int
    BY BuildLoopAssumption DEF Types, Versions, MaybeVersions, GoalStates, Never
<1>1. CASE Edit
    BY <1>1, <1>t DEF Edit, Flushes, MaybeVersions, Versions, Never
<1>2. CASE EditLost
    BY <1>2, <1>t DEF EditLost, Flushes, MaybeVersions, Versions, Never
<1>3. CASE HandleEvent
    BY <1>3, <1>t DEF HandleEvent, Updated
<1>4. ASSUME NEW g \in Goals, Read(g) PROVE NotNewer'
    <2>1. fsCache' <= world /\ node' <= world
        BY <1>4, <1>t DEF Read
    <2>2. QED
        BY <1>4, <2>1, GoalFields, <1>t, ZenonT(60) DEF Read
<1>5. ASSUME NEW g \in Goals, Refused(g) PROVE NotNewer'
    BY <1>5, GoalFields, <1>t, ZenonT(60) DEF Refused
<1>6. ASSUME NEW g \in Goals, StartFlush(g) PROVE NotNewer'
    <2>1. UNCHANGED <<world, fsCache, node, flush>>
        BY <1>6, Zenon DEF StartFlush
    <2>2. QED
        BY <1>6, <2>1, GoalFields, <1>t
<1>7. ASSUME NEW g \in Goals, FinishRequest(g) PROVE NotNewer'
    BY <1>7, GoalFields, <1>t DEF FinishRequest
<1>8. CASE StartBuild
    <2>1. UNCHANGED <<world, fsCache, flush>> /\ (node' = Never \/ node' = node)
        BY <1>8, Zenon DEF StartBuild
    <2>2. Never <= world
        BY BuildLoopAssumption DEF Types, Versions, Never
    <2>3. QED
        BY <1>8, <2>1, <2>2, NewBuild, Zenon
<1>9. CASE StartRpcFlush
    BY <1>9, <1>t DEF StartRpcFlush, Flushes
<1>10. CASE RpcFlushed \/ RpcEndSleep
    BY <1>10, <1>t, Zenon DEF RpcFlushed, RpcEndSleep, AfterFlush, Flushes
<1>11. CASE Noise \/ SimulateOverflow \/ FillFlush \/ StartSleep \/ EndSleep \/ Idle \/ EndGoals
            \/ EndBuild \/ Wake \/ UNCHANGED vars
    <2>1. UNCHANGED <<world, fsCache, node, flush, goal>>
        BY <1>11, Zenon DEF Noise, SimulateOverflow, FillFlush, StartSleep, EndSleep, Idle,
                            EndGoals, EndBuild, Wake, vars
    <2>2. QED
        BY <2>1, Zenon
<1>12. ASSUME NEW r \in Requests, Submit(r) \/ CancelRequest(r) \/ Answered(r) PROVE NotNewer'
    <2>1. UNCHANGED <<world, fsCache, node, flush, goal>>
        BY <1>12, Zenon DEF Submit, CancelRequest, Answered
    <2>2. QED
        BY <2>1, Zenon
<1>13. QED
    BY <1>1, <1>2, <1>3, <1>4, <1>5, <1>6, <1>7, <1>8, <1>9, <1>10, <1>11, <1>12, Zenon
       DEF Next, Outside, Progress

(* A goal reads, runs, flushes and finishes in that order, within its build.  *)
LEMMA GoalsProceedStep ==
    ASSUME Types, Types', NotNewer, GoalsProceed, Phase, [Next]_vars
    PROVE  GoalsProceed'
<1> USE DEF GoalsProceed, InBuild
<1>t. /\ world \in Versions /\ fsCache \in Versions \union {Never} /\ node \in Versions \union {Never}
      /\ node' \in Versions \union {Never}
      /\ \A v \in Versions : v # Never
    BY BuildLoopAssumption DEF Types, Versions, MaybeVersions, Never
<1>1. ASSUME NEW g \in Goals, Read(g) PROVE GoalsProceed'
    <2>1. node' # Never /\ UNCHANGED <<loop, build>> /\ goal[g].at = "read"
        BY <1>1, <1>t, Zenon DEF Read
    <2>2. QED
        BY <1>1, <2>1, GoalFields, <1>t, ZenonT(60)
<1>2. ASSUME NEW g \in Goals, Refused(g) PROVE GoalsProceed'
    <2>1. UNCHANGED <<loop, build>> /\ goal[g].at \in {"read", "run"}
        BY <1>2, Zenon DEF Refused
    <2>2. QED
        BY <1>2, <2>1, GoalFields, ZenonT(60)
<1>3. ASSUME NEW g \in Goals, StartFlush(g) PROVE GoalsProceed'
    <2>1. UNCHANGED <<loop, build>> /\ goal[g].at = "run" /\ goal[g].version <= world
        BY <1>3, Zenon DEF StartFlush, NotNewer
    <2>2. QED
        BY <1>3, <2>1, GoalFields, <1>t, ZenonT(60)
<1>4. ASSUME NEW g \in Goals, FinishRequest(g) PROVE GoalsProceed'
    <2>1. UNCHANGED <<loop, build>> /\ goal[g].at = "flush"
        BY <1>4, Zenon DEF FinishRequest
    <2>2. QED
        BY <1>4, <2>1, GoalFields, ZenonT(60)
<1>5. CASE StartBuild
    BY <1>5, NewBuild, LoopFields, Zenon
<1>6. CASE EndGoals
    <2>1. UNCHANGED <<goal, build>> /\ loop.at = "goals" /\ \A g \in build.goals : goal[g].at = "done"
        BY <1>6, Zenon DEF EndGoals
    <2>2. QED
        BY <1>6, <2>1, LoopFields, Zenon
<1>7. CASE EndBuild
    <2>1. UNCHANGED <<goal, build>> /\ loop.at = "flush" /\ loop'.at \notin {"goals", "flush"}
        BY <1>7, LoopFields, Zenon DEF EndBuild
    <2>2. QED
        BY <2>1, Zenon
<1>8. CASE StartSleep \/ EndSleep \/ Idle \/ Wake
    <2>1. UNCHANGED <<goal, build>> /\ loop.at \notin {"goals", "flush"}
                                    /\ loop'.at \notin {"goals", "flush"}
        BY <1>8, LoopFields, Zenon DEF StartSleep, EndSleep, Idle, Wake
    <2>2. QED
        BY <2>1, Zenon
<1>9. CASE SimulateOverflow \/ HandleEvent
    <2>1. UNCHANGED <<goal, loop>> /\ build'.goals = build.goals
        BY <1>9, RestartFields, Zenon DEF SimulateOverflow, HandleEvent
    <2>2. QED
        BY <2>1, Zenon
<1>10. ASSUME NEW r \in Requests, Submit(r) \/ CancelRequest(r) PROVE GoalsProceed'
    <2>1. UNCHANGED <<goal, loop>> /\ build'.goals = build.goals
        BY <1>10, RebuildFields, Zenon DEF Submit, CancelRequest
    <2>2. QED
        BY <2>1, Zenon
<1>11. CASE Edit \/ EditLost \/ Noise \/ StartRpcFlush \/ FillFlush \/ RpcFlushed \/ RpcEndSleep
            \/ UNCHANGED vars
    BY <1>11, Zenon DEF Edit, EditLost, Noise, StartRpcFlush, FillFlush, RpcFlushed, RpcEndSleep, vars
<1>12. ASSUME NEW r \in Requests, Answered(r) PROVE GoalsProceed'
    BY <1>12, Zenon DEF Answered
<1>13. QED
    BY <1>1, <1>2, <1>3, <1>4, <1>5, <1>6, <1>7, <1>8, <1>9, <1>10, <1>11, <1>12, Zenon
       DEF Next, Outside, Progress

(* A goal is refused only in a build that was cancelled: the error that Memo  *)
(* keeps is reset before the next build starts.                               *)
LEMMA PhaseStep ==
    ASSUME Types, GoalsProceed, Phase, Unrefused, [Next]_vars
    PROVE  Phase' /\ Unrefused'
<1> USE DEF Phase, Unrefused, InBuild
<1>t. /\ status \in {"Standing_by", "Building", "Restarting_build"}
      /\ pendingReset \in {"none", "empty", "changed"}
      /\ broken \in {"no", "yes"}
    BY Zenon DEF Types, Statuses, Resets
<1>1. ASSUME NEW g \in Goals, Read(g) PROVE Phase' /\ Unrefused'
    <2>1. UNCHANGED <<loop, build, status, pendingReset, broken>>
        BY <1>1, Zenon DEF Read
    <2>2. QED
        BY <1>1, <2>1, GoalFields, Zenon
<1>2. ASSUME NEW g \in Goals, Refused(g) PROVE Phase' /\ Unrefused'
    <2>1. UNCHANGED <<loop, build, status, pendingReset>> /\ broken' = "yes"
        BY <1>2, Zenon DEF Refused
    <2>2. loop.at = "goals"
        BY <1>2, Zenon DEF Refused, GoalsProceed
    <2>3. status = "Restarting_build" \/ pendingReset # "none"
        BY <1>2, <2>2, Zenon DEF Refused
    <2>4. QED
        BY <2>1, <2>2, <2>3, Zenon
<1>3. ASSUME NEW g \in Goals, StartFlush(g) PROVE Phase' /\ Unrefused'
    <2>1. UNCHANGED <<loop, build, status, pendingReset, broken>>
        BY <1>3, Zenon DEF StartFlush
    <2>2. QED
        BY <1>3, <2>1, GoalFields, Zenon
<1>4. ASSUME NEW g \in Goals, FinishRequest(g) PROVE Phase' /\ Unrefused'
    <2>1. UNCHANGED <<loop, build, status, pendingReset, broken>> /\ goal[g].asOf # Never
        BY <1>4, Zenon DEF FinishRequest, GoalsProceed
    <2>2. QED
        BY <1>4, <2>1, GoalFields, Zenon
<1>5. CASE StartBuild
    <2>1. /\ status' = "Building" /\ pendingReset' = "none"
          /\ broken' = IF pendingReset = "none" THEN broken ELSE "no"
        BY <1>5, Zenon DEF StartBuild
    <2>2. Unfinished \union StickyToBuild # {}
        BY <1>5, Zenon DEF StartBuild
    <2>3. StickyGoals \subseteq build'.goals
        BY <1>5, <2>2, NewBuild, Zenon DEF StickyToBuild
    <2>4. QED
        BY <1>5, <1>t, <2>1, <2>3, NewBuild, LoopFields, Zenon
<1>6. CASE EndGoals
    BY <1>6, LoopFields, Zenon DEF EndGoals
<1>7. CASE EndBuild
    BY <1>7, LoopFields, Zenon DEF EndBuild
<1>8. CASE Idle
    BY <1>8, LoopFields, Zenon DEF Idle
<1>9. CASE StartSleep \/ EndSleep \/ Wake
    BY <1>9, LoopFields, Zenon DEF StartSleep, EndSleep, Wake
<1>10. CASE SimulateOverflow \/ HandleEvent
    <2>1. /\ UNCHANGED <<goal, loop, broken>>
          /\ RequestRestart \/ UNCHANGED <<build, status, pendingReset>>
        BY <1>10, Zenon DEF SimulateOverflow, HandleEvent
    <2>2. QED
        BY <2>1, <1>t, RestartFields, Zenon
<1>11. ASSUME NEW r \in Requests, Submit(r) \/ CancelRequest(r) PROVE Phase' /\ Unrefused'
    <2>1. /\ UNCHANGED <<goal, loop, broken>>
          /\ RequestRebuild \/ UNCHANGED <<build, status, pendingReset>>
        BY <1>11, Zenon DEF Submit, CancelRequest
    <2>2. QED
        BY <2>1, <1>t, RebuildFields, Zenon
<1>12. CASE Edit \/ EditLost \/ Noise \/ StartRpcFlush \/ FillFlush \/ RpcFlushed \/ RpcEndSleep
            \/ UNCHANGED vars
    BY <1>12, Zenon DEF Edit, EditLost, Noise, StartRpcFlush, FillFlush, RpcFlushed, RpcEndSleep, vars
<1>13. ASSUME NEW r \in Requests, Answered(r) PROVE Phase' /\ Unrefused'
    BY <1>13, Zenon DEF Answered
<1>14. QED
    BY <1>1, <1>2, <1>3, <1>4, <1>5, <1>6, <1>7, <1>8, <1>9, <1>10, <1>11, <1>12, <1>13, Zenon
       DEF Next, Outside, Progress

(* The generations that the loop and the build remember are not ahead of t,   *)
(* and one that is still t's tells what did not happen since.                 *)
Generations ==
    /\ loop.generation <= wakeupGeneration /\ build.wakeupGeneration <= wakeupGeneration
    /\ loop.stickyBuiltAt <= inputGeneration /\ build.inputGeneration <= inputGeneration
    /\ InBuild /\ wakeupGeneration = build.wakeupGeneration =>
          status = "Building" /\ triggered = "no" /\ Unfinished \subseteq build.goals
    /\ status = "Building" => build.completion = "complete"
    /\ InBuild /\ build.completion = "complete" => inputGeneration = build.inputGeneration
    /\ loop.at = "wait" /\ wakeupGeneration = loop.generation =>
          /\ triggered = "no" /\ Unfinished = {}
          /\ "sticky" \in StickyGoals => loop.stickyBuiltAt = inputGeneration

(* Whatever the loop must not miss counts a new generation.                   *)
LEMMA GenerationsStep ==
    ASSUME Types, Phase, Generations, [Next]_vars
    PROVE  Generations'
<1> USE DEF Generations, InBuild
<1>t. /\ wakeupGeneration \in Nat /\ inputGeneration \in Nat
      /\ build.wakeupGeneration \in Nat /\ build.inputGeneration \in Nat
      /\ loop.generation \in Nat /\ loop.stickyBuiltAt \in Nat \union {-1}
      /\ status \in {"Standing_by", "Building", "Restarting_build"}
    BY Zenon DEF Types, Builds, Loops, Statuses, Never
<1>1. CASE SimulateOverflow \/ HandleEvent
    <2>1. /\ UNCHANGED <<loop, requests, outcome>>
          /\ RequestRestart \/ UNCHANGED <<build, status, triggered, wakeupGeneration, inputGeneration>>
        BY <1>1, Zenon DEF SimulateOverflow, HandleEvent
    <2>2. CASE RequestRestart
        BY <2>1, <2>2, <1>t, RestartFields DEF Phase
    <2>3. CASE UNCHANGED <<build, status, triggered, wakeupGeneration, inputGeneration>>
        BY <2>1, <2>3, Zenon DEF Unfinished
    <2>4. QED
        BY <2>1, <2>2, <2>3, Zenon
<1>2. ASSUME NEW r \in Requests, Submit(r) \/ CancelRequest(r) PROVE Generations'
    <2>1. CASE RequestRebuild
        <3>1. UNCHANGED <<loop, inputGeneration>>
            BY <1>2, Zenon DEF Submit, CancelRequest
        <3>2. QED
            BY <2>1, <3>1, <1>t, RebuildFields
    <2>2. CASE ~RequestRebuild
        <3>1. /\ UNCHANGED <<loop, inputGeneration, outcome, build, status, triggered, wakeupGeneration>>
              /\ requests' \subseteq requests
            BY <1>2, <2>2, Zenon DEF Submit, CancelRequest
        <3>2. Unfinished' \subseteq Unfinished
            BY <3>1, Zenon DEF Unfinished
        <3>3. QED
            BY <3>1, <3>2, Zenon
    <2>3. QED
        BY <2>1, <2>2, Zenon
<1>3. CASE StartBuild
    <2>1. /\ UNCHANGED <<wakeupGeneration, inputGeneration, outcome>> /\ triggered' = "no"
          /\ requests' = Unfinished /\ status' = "Building"
        BY <1>3, Zenon DEF StartBuild, NewTrigger
    <2>2. Unfinished' \subseteq build'.goals
        BY <1>3, <2>1, NewBuild, Zenon DEF Unfinished
    <2>3. QED
        BY <1>3, <2>1, <2>2, <1>t, NewBuild, LoopFields
<1>4. CASE Idle
    <2>1. /\ UNCHANGED <<wakeupGeneration, inputGeneration, outcome, build>> /\ triggered' = "no"
          /\ requests' = Unfinished /\ Unfinished \union StickyToBuild = {}
          /\ loop.at = "poll"
        BY <1>4, Zenon DEF Idle, NewTrigger
    <2>2. Unfinished' = {}
        BY <2>1, Zenon DEF Unfinished
    <2>3. "sticky" \in StickyGoals => loop.stickyBuiltAt = inputGeneration
        BY <2>1, Zenon DEF StickyToBuild
    <2>4. status' # "Building"
        BY <1>4, <2>1, Zenon DEF Idle, Phase
    <2>5. QED
        BY <1>4, <2>1, <2>2, <2>3, <2>4, <1>t, LoopFields
<1>5. CASE EndBuild
    <2>1. /\ UNCHANGED <<wakeupGeneration, inputGeneration, build, triggered>>
          /\ loop.at = "flush" /\ status' = "Standing_by"
        BY <1>5, Zenon DEF EndBuild
    <2>2. CASE ~IsDone
        BY <1>5, <2>1, <2>2, <1>t, LoopFields, Zenon
    <2>3. CASE IsDone
        <3>1. Unfinished' \subseteq Unfinished \ build.goals
            <4>1. /\ requests' = requests \ build.goals
                  /\ outcome' = [r \in Requests |-> IF r \in build.goals /\ outcome[r] = "none"
                                                    THEN BuiltOutcome ELSE outcome[r]]
                BY <1>5, <2>3, Zenon DEF EndBuild
            <4>2. requests \subseteq Requests
                BY Zenon DEF Types
            <4>3. QED
                BY <4>1, <4>2, Zenon DEF Unfinished
        <3>2. wakeupGeneration = build.wakeupGeneration => Unfinished' = {}
            BY <2>1, <3>1, Zenon
        <3>3. wakeupGeneration = build.wakeupGeneration => inputGeneration = build.inputGeneration
            BY <2>1, Zenon
        <3>4. "sticky" \in StickyGoals => "sticky" \in build.goals
            BY <2>1, Zenon DEF Phase
        <3>5. QED
            BY <1>5, <2>1, <2>3, <3>2, <3>3, <3>4, <1>t, LoopFields, Zenon
    <2>4. QED
        BY <2>2, <2>3, Zenon
<1>6. CASE EndGoals
    <2>1. /\ UNCHANGED <<wakeupGeneration, inputGeneration, build, triggered, status>>
          /\ UNCHANGED <<requests, outcome>> /\ loop.at = "goals"
        BY <1>6, Zenon DEF EndGoals
    <2>2. QED
        BY <1>6, <2>1, LoopFields, Zenon DEF Unfinished
<1>7. CASE StartSleep \/ EndSleep \/ Wake
    <2>1. /\ UNCHANGED <<wakeupGeneration, inputGeneration, build, triggered, status>>
          /\ loop.at \notin {"goals", "flush"}
        BY <1>7, Zenon DEF StartSleep, EndSleep, Wake
    <2>2. QED
        BY <1>7, <2>1, LoopFields, Zenon
<1>8. ASSUME NEW r \in Requests, Answered(r) PROVE Generations'
    <2>1. /\ UNCHANGED <<wakeupGeneration, inputGeneration, build, triggered, status, loop, outcome>>
          /\ requests' \subseteq requests
        BY <1>8, Zenon DEF Answered
    <2>2. Unfinished' \subseteq Unfinished
        BY <2>1, Zenon DEF Unfinished
    <2>3. QED
        BY <2>1, <2>2, Zenon
<1>9. ASSUME NEW g \in Goals, FinishRequest(g) PROVE Generations'
    <2>1. /\ UNCHANGED <<wakeupGeneration, inputGeneration, build, triggered, status, loop, requests>>
          /\ \A r \in Requests : outcome'[r] = "none" => outcome[r] = "none"
        BY <1>9, Zenon DEF FinishRequest
    <2>2. Unfinished' \subseteq Unfinished
        BY <2>1, Zenon DEF Unfinished, Types
    <2>3. QED
        BY <2>1, <2>2, Zenon
<1>10. ASSUME NEW g \in Goals, Read(g) \/ Refused(g) \/ StartFlush(g) PROVE Generations'
    <2>1. UNCHANGED <<wakeupGeneration, inputGeneration, build, triggered, status, loop,
                      requests, outcome>>
        BY <1>10, Zenon DEF Read, Refused, StartFlush
    <2>2. QED
        BY <2>1, Zenon DEF Unfinished
<1>11. CASE Edit \/ EditLost \/ Noise \/ StartRpcFlush \/ FillFlush \/ RpcFlushed \/ RpcEndSleep
            \/ UNCHANGED vars
    <2>1. UNCHANGED <<wakeupGeneration, inputGeneration, build, triggered, status, loop,
                      requests, outcome>>
        BY <1>11, Zenon DEF Edit, EditLost, Noise, StartRpcFlush, FillFlush, RpcFlushed,
                            RpcEndSleep, vars
    <2>2. QED
        BY <2>1, Zenon DEF Unfinished
<1>12. QED
    BY <1>1, <1>2, <1>3, <1>4, <1>5, <1>6, <1>7, <1>8, <1>9, <1>10, <1>11, Zenon
       DEF Next, Outside, Progress

(* A goal that waits for its outcome is still among the requests, and one     *)
(* that was built from inputs that did not change has its outcome.            *)
Answers ==
    InBuild => \A r \in Requests : r \in build.goals =>
        /\ outcome[r] = "none" => r \in requests
        /\ build.completion = "complete" /\ goal[r].at = "done" /\ goal[r].asOf # Never
             => outcome[r] # "none"

(* A goal is answered where it is finished, and a request leaves the requests *)
(* only with an outcome.                                                      *)
LEMMA AnswersStep ==
    ASSUME Types, GoalsProceed, Phase, Answers, [Next]_vars
    PROVE  Answers'
<1> USE DEF Answers, InBuild
<1>t. /\ Requests \subseteq Goals /\ status \in {"Standing_by", "Building", "Restarting_build"}
      /\ outcome \in [Requests -> {"none", "Success", "Failure"}]
    BY Zenon DEF Goals, Types, Statuses
<1>1. CASE SimulateOverflow \/ HandleEvent
    <2>1. /\ UNCHANGED <<loop, requests, outcome, goal>>
          /\ RequestRestart \/ UNCHANGED build
        BY <1>1, Zenon DEF SimulateOverflow, HandleEvent
    <2>2. InBuild => status # "Standing_by"
        BY Zenon DEF Phase
    <2>3. QED
        BY <2>1, <2>2, RestartFields, Zenon
<1>2. ASSUME NEW r \in Requests, Submit(r) PROVE Answers'
    BY <1>2, RebuildFields, Zenon DEF Submit
<1>3. ASSUME NEW r \in Requests, CancelRequest(r) PROVE Answers'
    <2>1. /\ UNCHANGED <<loop, goal>> /\ requests' = requests \ {r}
          /\ \A s \in Requests :
                outcome'[s] = IF s = r /\ outcome[r] = "none" THEN "Failure" ELSE outcome[s]
          /\ RequestRebuild \/ UNCHANGED build
        BY <1>3, <1>t, Zenon DEF CancelRequest
    <2>2. build'.goals = build.goals /\ build'.completion = build.completion
        BY <2>1, RebuildFields, Zenon
    <2>3. QED
        BY <2>1, <2>2, Zenon
<1>4. ASSUME NEW r \in Requests, Answered(r) PROVE Answers'
    BY <1>4, Zenon DEF Answered
<1>5. ASSUME NEW g \in Goals, Read(g) PROVE Answers'
    <2>1. UNCHANGED <<loop, build, requests, outcome>>
        BY <1>5, Zenon DEF Read
    <2>2. QED
        BY <1>5, <1>t, <2>1, GoalFields, Zenon
<1>6. ASSUME NEW g \in Goals, Refused(g) PROVE Answers'
    <2>1. UNCHANGED <<loop, build, requests, outcome>> /\ goal[g].asOf = Never
        BY <1>6, Zenon DEF Refused, GoalsProceed
    <2>2. QED
        BY <1>6, <1>t, <2>1, GoalFields, ZenonT(60)
<1>7. ASSUME NEW g \in Goals, StartFlush(g) PROVE Answers'
    <2>1. UNCHANGED <<loop, build, requests, outcome>>
        BY <1>7, Zenon DEF StartFlush
    <2>2. QED
        BY <1>7, <1>t, <2>1, GoalFields, ZenonT(60)
<1>8. ASSUME NEW g \in Goals, FinishRequest(g) PROVE Answers'
    <2>1. /\ UNCHANGED <<loop, build, requests>>
          /\ \A r \in Requests :
                outcome'[r] = IF r = g /\ build.completion = "complete" /\ outcome[r] = "none"
                              THEN "Success" ELSE outcome[r]
        BY <1>8, Zenon DEF FinishRequest
    <2>2. QED
        BY <1>8, <1>t, <2>1, GoalFields, ZenonT(60)
<1>9. CASE StartBuild
    <2>1. UNCHANGED outcome /\ requests' = Unfinished
        BY <1>9, Zenon DEF StartBuild
    <2>2. Requests \intersect build'.goals \subseteq Unfinished
        BY <1>9, NewBuild, BuildLoopAssumption, ZenonT(60) DEF StickyToBuild
    <2>3. QED
        BY <1>9, <1>t, <2>1, <2>2, NewBuild, Zenon
<1>10. CASE EndGoals
    BY <1>10, LoopFields, Zenon DEF EndGoals
<1>11. CASE EndBuild
    BY <1>11, LoopFields, Zenon
<1>12. CASE StartSleep \/ EndSleep \/ Idle \/ Wake
    BY <1>12, LoopFields, Zenon
<1>13. CASE Edit \/ EditLost \/ Noise \/ StartRpcFlush \/ FillFlush \/ RpcFlushed \/ RpcEndSleep
            \/ UNCHANGED vars
    BY <1>13, Zenon DEF Edit, EditLost, Noise, StartRpcFlush, FillFlush, RpcFlushed, RpcEndSleep, vars
<1>14. QED
    BY <1>1, <1>2, <1>3, <1>4, <1>5, <1>6, <1>7, <1>8, <1>9, <1>10, <1>11, <1>12, <1>13, Zenon
       DEF Next, Outside, Progress

(* What the goals have read is what Fs_cache holds, while no input changed    *)
(* since the build started; the same of the last build of the sticky goal.    *)
Inputs ==
    /\ InBuild /\ inputGeneration = build.inputGeneration =>
          /\ pendingReset # "changed"
          /\ \A g \in Goals : goal[g].version # Never => goal[g].version = fsCache
    /\ loop.stickyBuiltAt = inputGeneration => built # Never /\ built = fsCache

(* A change of Fs_cache counts a new input; goals read what Fs_cache holds.   *)
LEMMA InputsStep ==
    ASSUME Types, NoLostInvalidation, GoalsProceed, Phase, Unrefused, Generations, Inputs, [Next]_vars
    PROVE  Inputs'
<1> USE DEF Inputs, InBuild
<1>t. /\ inputGeneration \in Nat /\ build.inputGeneration \in Nat
      /\ build.inputGeneration <= inputGeneration
      /\ loop.stickyBuiltAt \in Nat \union {-1} /\ loop.stickyBuiltAt <= inputGeneration
      /\ status \in {"Standing_by", "Building", "Restarting_build"}
    BY Zenon DEF Types, Builds, Loops, Statuses, Never, Generations
<1>1. CASE SimulateOverflow \/ HandleEvent
    <2>1. CASE RequestRestart
        <3>1. UNCHANGED loop
            BY <1>1, Zenon DEF SimulateOverflow, HandleEvent
        <3>2. QED
            BY <2>1, <3>1, <1>t, RestartFields
    <2>2. CASE ~RequestRestart
        <3>1. UNCHANGED <<loop, build, goal, pendingReset, inputGeneration, fsCache, built>>
            BY <1>1, <2>2, Zenon DEF SimulateOverflow, HandleEvent, Invalidates
        <3>2. QED
            BY <3>1, Zenon
    <2>3. QED
        BY <2>1, <2>2, Zenon
<1>2. ASSUME NEW r \in Requests, Submit(r) \/ CancelRequest(r) PROVE Inputs'
    <2>1. /\ UNCHANGED <<loop, goal, inputGeneration, fsCache, built>>
          /\ RequestRebuild \/ UNCHANGED <<build, pendingReset>>
        BY <1>2, Zenon DEF Submit, CancelRequest
    <2>2. QED
        BY <2>1, RebuildFields, Zenon
<1>3. ASSUME NEW g \in Goals, Read(g) PROVE Inputs'
    <2>1. /\ UNCHANGED <<loop, build, pendingReset, inputGeneration, built>>
          /\ fsCache # Never => fsCache' = fsCache
          /\ node' = IF node = Never THEN fsCache' ELSE node
          /\ node # Never => fsCache' = fsCache
        BY <1>3, Zenon DEF Read
    <2>2. pendingReset # "changed" => node' = fsCache'
        BY <2>1, Zenon DEF NoLostInvalidation
    <2>3. QED
        BY <1>3, <2>1, <2>2, GoalFields, Zenon
<1>4. ASSUME NEW g \in Goals, Refused(g) \/ StartFlush(g) \/ FinishRequest(g) PROVE Inputs'
    <2>1. UNCHANGED <<loop, build, pendingReset, inputGeneration, fsCache, built>>
        BY <1>4, Zenon DEF Refused, StartFlush, FinishRequest
    <2>2. \A h \in Goals : goal'[h].version = goal[h].version
        BY <1>4, GoalFields, Zenon
    <2>3. QED
        BY <2>1, <2>2, Zenon
<1>5. CASE StartBuild
    <2>1. pendingReset' = "none" /\ UNCHANGED <<inputGeneration, fsCache, built>>
        BY <1>5, Zenon DEF StartBuild
    <2>2. QED
        BY <1>5, <2>1, NewBuild, LoopFields, Zenon
<1>6. CASE EndGoals
    BY <1>6, LoopFields, Zenon DEF EndGoals
<1>7. CASE EndBuild
    <2>1. UNCHANGED <<inputGeneration, fsCache>> /\ loop.at = "flush"
        BY <1>7, Zenon DEF EndBuild
    <2>2. CASE IsDone /\ "sticky" \in build.goals
        <3>1. status = "Building" /\ built' = goal["sticky"].version
            BY <1>7, <2>1, <2>2, <1>t, Zenon DEF EndBuild, IsDone, Phase
        <3>2. "sticky" \in Goals /\ goal["sticky"].at = "done"
            BY <2>1, <2>2, Zenon DEF Goals, GoalsProceed
        <3>3. goal["sticky"].version # Never
            BY <3>1, <3>2, Zenon DEF Unrefused, GoalsProceed
        <3>4. inputGeneration = build.inputGeneration
            BY <2>1, <3>1, Zenon DEF Generations
        <3>5. QED
            BY <1>7, <2>1, <2>2, <3>1, <3>2, <3>3, <3>4, LoopFields, Zenon
    <2>3. CASE ~(IsDone /\ "sticky" \in build.goals)
        <3>1. built' = built
            BY <1>7, <2>3, Zenon DEF EndBuild
        <3>2. QED
            BY <1>7, <2>1, <2>3, <3>1, LoopFields, Zenon
    <2>4. QED
        BY <2>2, <2>3, Zenon
<1>8. CASE StartSleep \/ EndSleep \/ Idle \/ Wake
    <2>1. UNCHANGED <<inputGeneration, fsCache, built>>
        BY <1>8, Zenon DEF StartSleep, EndSleep, Idle, Wake
    <2>2. QED
        BY <1>8, <2>1, LoopFields, Zenon
<1>9. CASE Edit \/ EditLost \/ Noise \/ StartRpcFlush \/ FillFlush \/ RpcFlushed \/ RpcEndSleep
           \/ UNCHANGED vars
    <2>1. UNCHANGED <<loop, build, goal, pendingReset, inputGeneration, fsCache, built>>
        BY <1>9, Zenon DEF Edit, EditLost, Noise, StartRpcFlush, FillFlush, RpcFlushed,
                           RpcEndSleep, vars
    <2>2. QED
        BY <2>1, Zenon
<1>10. ASSUME NEW r \in Requests, Answered(r) PROVE Inputs'
    <2>1. UNCHANGED <<loop, build, goal, pendingReset, inputGeneration, fsCache, built>>
        BY <1>10, Zenon DEF Answered
    <2>2. QED
        BY <2>1, Zenon
<1>11. QED
    BY <1>1, <1>2, <1>3, <1>4, <1>5, <1>6, <1>7, <1>8, <1>9, <1>10, Zenon
       DEF Next, Outside, Progress

(* The fills in the channel: each is awaited, and there is one for each fiber *)
(* that waits.                                                                *)
Awaited(f) ==
    \/ f \in Goals /\ goal[f].at = "flush"
    \/ f = "build" /\ loop.at = "flush"
    \/ f = "rpc" /\ flush.at = "flush"

Channel ==
    /\ \A f \in flushed : Awaited(f)
    /\ \A i \in 1 .. Len(queue) :
          queue[i] \in Flushers => Awaited(queue[i]) /\ queue[i] \notin flushed
    /\ \A i, j \in 1 .. Len(queue) : queue[i] \in Flushers /\ queue[i] = queue[j] => i = j

(* A new item at the end of the channel.                                      *)
LEMMA Appended ==
    ASSUME Types, NEW item, queue' = Append(queue, item)
    PROVE  /\ Len(queue') = Len(queue) + 1 /\ Len(queue) \in Nat
           /\ \A i \in 1 .. Len(queue) : queue'[i] = queue[i]
           /\ queue'[Len(queue) + 1] = item
BY DEF Types

(* The first item is taken from the channel.                                  *)
LEMMA Dequeued ==
    ASSUME Types, queue # <<>>, queue' = Tail(queue)
    PROVE  /\ Len(queue) \in Nat /\ Len(queue) > 0 /\ Len(queue') = Len(queue) - 1
           /\ \A i \in 1 .. Len(queue') : queue'[i] = queue[i + 1]
           /\ Head(queue) = queue[1]
BY DEF Types

(* A fiber sends its fill when it starts to wait and stops waiting when the   *)
(* fill was taken.                                                            *)
LEMMA ChannelStep ==
    ASSUME Types, Types', GoalsProceed, Channel, [Next]_vars
    PROVE  Channel'
<1> USE DEF Channel
<1>t. /\ "build" \notin Goals /\ "rpc" \notin Goals
      /\ \A f \in Goals \union {"build", "rpc"} : f \in Flushers
      /\ \A item \in {"edit", "noise", "overflow"} : item \notin Flushers
    BY BuildLoopAssumption, Zenon DEF Goals, Flushers
<1>1. ASSUME NEW item \in {"edit", "noise", "overflow"}, queue' = Append(queue, item),
             UNCHANGED <<goal, loop, flush, flushed>>
      PROVE  Channel'
    <2>1. \A f : Awaited(f)' <=> Awaited(f)
        BY <1>1, Zenon DEF Awaited
    <2>2. QED
        BY <1>1, <1>t, <2>1, Appended
<1>2. CASE Edit \/ EditLost \/ Noise
    BY <1>1, <1>2, Zenon DEF Edit, EditLost, Noise
<1>3. ASSUME NEW f \in Flushers, ~Awaited(f), Awaited(f)', queue' = Append(queue, f),
             UNCHANGED flushed, \A h \in Flushers : h # f => (Awaited(h)' <=> Awaited(h))
      PROVE  Channel'
    <2>1. f \notin flushed /\ \A i \in 1 .. Len(queue) : queue[i] # f
        BY <1>3, Zenon
    <2>2. flushed \subseteq Flushers
        BY Zenon DEF Types
    <2>3. QED
        BY <1>3, <2>1, <2>2, Appended
<1>4. CASE StartRpcFlush
    <2>1. flush.at = "new" /\ flush'.at = "flush" /\ UNCHANGED <<goal, loop, flushed>>
          /\ queue' = Append(queue, "rpc")
        BY <1>4, Zenon DEF StartRpcFlush, Types, Flushes
    <2>2. ~Awaited("rpc") /\ Awaited("rpc")'
          /\ \A h \in Flushers : h # "rpc" => (Awaited(h)' <=> Awaited(h))
        BY <2>1, <1>t, Zenon DEF Awaited
    <2>3. QED
        BY <1>3, <1>t, <2>1, <2>2, Zenon
<1>5. CASE EndGoals
    <2>1. loop.at = "goals" /\ loop'.at = "flush" /\ UNCHANGED <<goal, flush, flushed>>
          /\ queue' = Append(queue, "build")
        BY <1>5, LoopFields, Zenon DEF EndGoals
    <2>2. ~Awaited("build") /\ Awaited("build")'
          /\ \A h \in Flushers : h # "build" => (Awaited(h)' <=> Awaited(h))
        BY <2>1, <1>t, Zenon DEF Awaited
    <2>3. QED
        BY <1>3, <1>t, <2>1, <2>2, Zenon
<1>6. ASSUME NEW g \in Goals, StartFlush(g) PROVE Channel'
    <2>1. goal[g].at = "run" /\ UNCHANGED <<loop, flush, flushed>> /\ queue' = Append(queue, g)
        BY <1>6, Zenon DEF StartFlush
    <2>2. goal'[g].at = "flush" /\ \A h \in Goals : h # g => goal'[h] = goal[h]
        BY <1>6, GoalFields, Zenon
    <2>3. ~Awaited(g) /\ Awaited(g)' /\ \A h \in Flushers : h # g => (Awaited(h)' <=> Awaited(h))
        BY <2>1, <2>2, <1>t, Zenon DEF Awaited
    <2>4. QED
        BY <1>3, <1>t, <2>1, <2>3, Zenon
<1>7. CASE HandleEvent
    <2>1. UNCHANGED <<goal, loop, flush, flushed>> /\ queue # <<>> /\ queue' = Tail(queue)
        BY <1>7, Zenon DEF HandleEvent
    <2>2. \A f : Awaited(f)' <=> Awaited(f)
        BY <2>1, Zenon DEF Awaited
    <2>3. QED
        BY <2>1, <2>2, Dequeued
<1>8. CASE FillFlush
    <2>1. /\ UNCHANGED <<goal, loop, flush>> /\ queue # <<>> /\ queue' = Tail(queue)
          /\ flushed' = flushed \union {Head(queue)} /\ Head(queue) \in Flushers
        BY <1>8, Zenon DEF FillFlush, IsFill
    <2>2. \A f : Awaited(f)' <=> Awaited(f)
        BY <2>1, Zenon DEF Awaited
    <2>3. \A i \in 1 .. Len(queue') : queue'[i] = queue[i + 1] /\ i + 1 \in 1 .. Len(queue) /\ i + 1 # 1
        BY <2>1, Dequeued
    <2>4. 1 \in 1 .. Len(queue) /\ Head(queue) = queue[1]
        BY <2>1, Dequeued
    <2>5. \A i \in 1 .. Len(queue') : queue'[i] # Head(queue)
        BY <2>1, <2>3, <2>4, Zenon
    <2>6. QED
        BY <2>1, <2>2, <2>3, <2>4, <2>5
<1>9. ASSUME NEW f \in flushed, flushed' = flushed \ {f}, UNCHANGED queue,
             \A h \in Flushers : h # f => (Awaited(h)' <=> Awaited(h))
      PROVE  Channel'
    BY <1>9, Zenon DEF Types
<1>10. ASSUME NEW g \in Goals, FinishRequest(g) PROVE Channel'
    <2>1. g \in flushed /\ flushed' = flushed \ {g} /\ UNCHANGED <<loop, flush, queue>>
        BY <1>10, Zenon DEF FinishRequest
    <2>2. \A h \in Flushers : h # g => (Awaited(h)' <=> Awaited(h))
        BY <1>10, <2>1, GoalFields, ZenonT(60) DEF Awaited
    <2>3. QED
        BY <1>9, <2>1, <2>2, Zenon
<1>11. CASE EndBuild
    <2>1. /\ "build" \in flushed /\ flushed' = flushed \ {"build"} /\ UNCHANGED <<goal, flush, queue>>
        BY <1>11, Zenon DEF EndBuild
    <2>2. \A h \in Flushers : h # "build" => (Awaited(h)' <=> Awaited(h))
        BY <2>1, Zenon DEF Awaited
    <2>3. QED
        BY <1>9, <2>1, <2>2, Zenon
<1>12. CASE RpcFlushed
    <2>1. /\ "rpc" \in flushed /\ flushed' = flushed \ {"rpc"} /\ UNCHANGED <<goal, loop, queue>>
        BY <1>12, Zenon DEF RpcFlushed
    <2>2. \A h \in Flushers : h # "rpc" => (Awaited(h)' <=> Awaited(h))
        BY <2>1, Zenon DEF Awaited
    <2>3. QED
        BY <1>9, <2>1, <2>2, Zenon
<1>13. ASSUME UNCHANGED <<queue, flushed>>, \A h \in Flushers : Awaited(h)' <=> Awaited(h)
       PROVE  Channel'
    BY <1>13, Zenon DEF Types
<1>14. ASSUME NEW g \in Goals, Read(g) \/ Refused(g) PROVE Channel'
    <2>1. /\ UNCHANGED <<loop, flush, queue, flushed>>
          /\ goal[g].at # "flush" /\ goal'[g].at # "flush"
          /\ \A h \in Goals : h # g => goal'[h] = goal[h]
        BY <1>14, GoalFields, Zenon DEF Read, Refused
    <2>2. \A h \in Flushers : Awaited(h)' <=> Awaited(h)
        BY <2>1, Zenon DEF Awaited
    <2>3. QED
        BY <1>13, <2>1, <2>2, Zenon
<1>15. CASE StartBuild
    <2>1. UNCHANGED <<flush, queue, flushed>> /\ loop.at = "poll"
        BY <1>15, Zenon DEF StartBuild
    <2>2. loop'.at = "goals" /\ \A g \in Goals : goal[g].at # "flush" /\ goal'[g].at # "flush"
        BY <1>15, <2>1, LoopFields, NewBuild, Zenon DEF GoalsProceed
    <2>3. \A h \in Flushers : Awaited(h)' <=> Awaited(h)
        BY <2>1, <2>2, Zenon DEF Awaited
    <2>4. QED
        BY <1>13, <2>1, <2>3, Zenon
<1>16. CASE StartSleep \/ EndSleep \/ Idle \/ Wake
    <2>1. /\ UNCHANGED <<goal, flush, queue, flushed>>
          /\ loop.at # "flush" /\ loop'.at # "flush"
        BY <1>16, LoopFields, Zenon DEF StartSleep, EndSleep, Idle, Wake
    <2>2. \A h \in Flushers : Awaited(h)' <=> Awaited(h)
        BY <2>1, Zenon DEF Awaited
    <2>3. QED
        BY <1>13, <2>1, <2>2, Zenon
<1>17. CASE RpcEndSleep
    <2>1. /\ UNCHANGED <<goal, loop, queue, flushed>>
          /\ flush.at # "flush" /\ flush'.at # "flush"
        BY <1>17, Zenon DEF RpcEndSleep, Types, Flushes
    <2>2. \A h \in Flushers : Awaited(h)' <=> Awaited(h)
        BY <2>1, Zenon DEF Awaited
    <2>3. QED
        BY <1>13, <2>1, <2>2, Zenon
<1>18. CASE SimulateOverflow \/ UNCHANGED vars
    BY <1>18, Zenon DEF SimulateOverflow, vars, Awaited
<1>19. ASSUME NEW r \in Requests, Submit(r) \/ CancelRequest(r) \/ Answered(r) PROVE Channel'
    BY <1>19, Zenon DEF Submit, CancelRequest, Answered, Awaited
<1>20. QED
    BY <1>2, <1>4, <1>5, <1>6, <1>7, <1>8, <1>10, <1>11, <1>12, <1>14, <1>15, <1>16, <1>17, <1>18,
       <1>19, Zenon DEF Next, Outside, Progress

(* A version that was on disk when asOf was taken is missing from Fs_cache,   *)
(* although no event was lost; an edit is still in the channel; one is ahead  *)
(* of the fill of f.                                                          *)
Stale(asOf) == overflows = 0 /\ fsCache # Never /\ fsCache < asOf

EditQueued == \E i \in 1 .. Len(queue) : queue[i] = "edit"

Ahead(f) ==
    /\ f \notin flushed
    /\ \E i \in 1 .. Len(queue) : queue[i] = "edit" /\ \A j \in 1 .. i : queue[j] # f

(* Every edit that Fs_cache missed is in the channel, ahead of the fills of   *)
(* the fibers that must not miss it.                                          *)
Noticed ==
    /\ Stale(world) => EditQueued
    /\ \A g \in Goals : goal[g].at = "flush" /\ Stale(goal[g].asOf) => Ahead(g)
    /\ flush.at = "flush" /\ Stale(flush.asOf) => Ahead("rpc")
    /\ flush.at = "sleep" => ~Stale(flush.asOf)

(* Fs_cache only goes forward.                                                *)
LEMMA StaleStep ==
    ASSUME Types, NotNewer, [Next]_vars, NEW v \in Int, v <= world, Stale(v)'
    PROVE  Stale(v)
<1> USE DEF Stale
<1>t. world \in Int /\ fsCache \in Int /\ overflows \in Nat /\ fsCache <= world
    BY BuildLoopAssumption DEF Types, Versions, MaybeVersions, Never, NotNewer
<1>1. CASE HandleEvent
    BY <1>1, <1>t DEF HandleEvent, Updated
<1>2. ASSUME NEW g \in Goals, Read(g) PROVE Stale(v)
    BY <1>2, <1>t DEF Read
<1>3. CASE EditLost \/ SimulateOverflow
    BY <1>3, <1>t DEF EditLost, SimulateOverflow
<1>4. CASE Edit \/ Noise \/ StartRpcFlush \/ FillFlush \/ StartSleep \/ EndSleep \/ Idle
           \/ StartBuild \/ EndGoals \/ EndBuild \/ Wake \/ RpcFlushed \/ RpcEndSleep
           \/ UNCHANGED vars
    <2>1. UNCHANGED <<overflows, fsCache>>
        BY <1>4, Zenon DEF Edit, Noise, StartRpcFlush, FillFlush, StartSleep, EndSleep, Idle,
                           StartBuild, EndGoals, EndBuild, Wake, RpcFlushed, RpcEndSleep, vars
    <2>2. QED
        BY <2>1, Zenon
<1>5. ASSUME NEW r \in Requests, Submit(r) \/ CancelRequest(r) \/ Answered(r) PROVE Stale(v)
    BY <1>5, Zenon DEF Submit, CancelRequest, Answered
<1>6. ASSUME NEW g \in Goals, Refused(g) \/ StartFlush(g) \/ FinishRequest(g) PROVE Stale(v)
    BY <1>6, Zenon DEF Refused, StartFlush, FinishRequest
<1>7. QED
    BY <1>1, <1>2, <1>3, <1>4, <1>5, <1>6, Zenon DEF Next, Outside, Progress

(* A new item of the channel is behind the edits.                             *)
LEMMA AppendedAhead ==
    ASSUME Types, NEW item, queue' = Append(queue, item), flushed' = flushed
    PROVE  (EditQueued => EditQueued') /\ \A f : Ahead(f) => Ahead(f)'
<1>1. /\ Len(queue) \in Nat /\ Len(queue') = Len(queue) + 1
      /\ \A i \in 1 .. Len(queue) : queue'[i] = queue[i] /\ i \in 1 .. Len(queue')
    BY Appended
<1>2. EditQueued => EditQueued'
    BY <1>1, Zenon DEF EditQueued
<1>3. ASSUME NEW f, Ahead(f) PROVE Ahead(f)'
    <2>1. PICK i \in 1 .. Len(queue) : queue[i] = "edit" /\ \A j \in 1 .. i : queue[j] # f
        BY <1>3, Zenon DEF Ahead
    <2>2. \A j \in 1 .. i : queue'[j] # f
        BY <1>1, <2>1
    <2>3. QED
        BY <1>1, <1>3, <2>1, <2>2, Zenon DEF Ahead
<1>4. QED
    BY <1>2, <1>3, Zenon

(* An item that is taken and is no edit leaves the edits where they are.      *)
LEMMA DequeuedAhead ==
    ASSUME Types, queue # <<>>, queue' = Tail(queue), Head(queue) # "edit",
           flushed' \subseteq flushed \union {Head(queue)}
    PROVE  (EditQueued => EditQueued') /\ \A f : Ahead(f) => Ahead(f)'
<1>1. /\ Len(queue) \in Nat /\ Len(queue') = Len(queue) - 1 /\ Len(queue) > 0
      /\ \A i \in 1 .. Len(queue') : queue'[i] = queue[i + 1]
      /\ Head(queue) = queue[1]
    BY Dequeued, Zenon
<1>2. EditQueued => EditQueued'
    <2>1. SUFFICES ASSUME NEW i \in 1 .. Len(queue), queue[i] = "edit" PROVE EditQueued'
        BY Zenon DEF EditQueued
    <2>2. i - 1 \in 1 .. Len(queue') /\ queue'[i - 1] = queue[i]
        BY <1>1, <2>1
    <2>3. QED
        BY <2>1, <2>2, Zenon DEF EditQueued
<1>3. ASSUME NEW f, Ahead(f) PROVE Ahead(f)'
    <2>1. PICK i \in 1 .. Len(queue) : queue[i] = "edit" /\ \A j \in 1 .. i : queue[j] # f
        BY <1>3, Zenon DEF Ahead
    <2>2. i - 1 \in 1 .. Len(queue') /\ queue'[i - 1] = "edit"
        BY <1>1, <2>1
    <2>3. \A j \in 1 .. (i - 1) : queue'[j] # f
        BY <1>1, <2>1
    <2>4. f \notin flushed'
        BY <1>1, <1>3, <2>1 DEF Ahead
    <2>5. QED
        BY <2>2, <2>3, <2>4, Zenon DEF Ahead
<1>4. QED
    BY <1>2, <1>3, Zenon

(* A fill is behind the edits that were made before its fiber waited, and     *)
(* handle_file_events takes an edit only to bring Fs_cache up to date.        *)
LEMMA NoticedStep ==
    ASSUME Types, NotNewer, GoalsProceed, Channel, Noticed, [Next]_vars
    PROVE  Noticed'
<1>t. /\ world \in Int /\ overflows \in Nat /\ fsCache \in Int
      /\ flush \in Flushes /\ flush.asOf \in Int /\ flush.asOf <= world
      /\ flush.at \in {"new", "flush", "sleep", "returned"}
      /\ \A g \in Goals : goal[g].asOf \in Int /\ goal[g].asOf <= world
    BY BuildLoopAssumption, SMTT(60) DEF Types, Versions, MaybeVersions, GoalStates, Flushes, Never, NotNewer
<1>s. \A v \in Int : v <= world /\ Stale(v)' => Stale(v)
    BY StaleStep, Zenon
<1>k. ASSUME world' = world, EditQueued => EditQueued',
             \A g \in Goals :
                goal'[g].at = "flush" => goal[g].at = "flush" /\ goal'[g].asOf = goal[g].asOf,
             \A g \in Goals : goal'[g].at = "flush" => (Ahead(g) => Ahead(g)'),
             flush'.at = "flush" => /\ flush.at = "flush" /\ flush'.asOf = flush.asOf
                                    /\ Ahead("rpc") => Ahead("rpc")',
             flush'.at = "sleep" => flush'.asOf = flush.asOf /\ ~Stale(flush.asOf)
      PROVE  Noticed'
    <2>1. Stale(world)' => Stale(world)
        BY <1>k, <1>s, <1>t DEF Stale
    <2>2. ASSUME NEW g \in Goals, goal'[g].at = "flush", Stale(goal[g].asOf)' PROVE Ahead(g)'
        <3>1. goal[g].at = "flush" /\ goal'[g].asOf = goal[g].asOf
            BY <1>k, <2>2, Zenon
        <3>2. Stale(goal[g].asOf)
            BY <1>s, <1>t, <2>2, <3>1, Zenon DEF Stale
        <3>3. QED
            BY <1>k, <2>2, <3>1, <3>2, Zenon DEF Noticed
    <2>3. ASSUME flush'.at \in {"flush", "sleep"}, Stale(flush.asOf)' PROVE Stale(flush.asOf)
        BY <1>k, <1>s, <1>t, <2>3, Zenon DEF Stale
    <2>4. QED
        BY <1>k, <2>1, <2>2, <2>3, Zenon DEF Noticed
<1>1. CASE EditLost \/ SimulateOverflow
    <2>1. overflows' # 0
        BY <1>1, <1>t DEF EditLost, SimulateOverflow
    <2>2. QED
        BY <2>1, Zenon DEF Noticed, Stale
<1>2. CASE Edit
    <2>1. UNCHANGED <<goal, flush, flushed, fsCache, overflows>> /\ queue' = Append(queue, "edit")
        BY <1>2, Zenon DEF Edit
    <2>2. EditQueued'
        BY <2>1, Appended DEF EditQueued
    <2>3. QED
        BY <2>1, <2>2, AppendedAhead, Zenon DEF Noticed, Stale
<1>3. CASE Noise \/ EndGoals
    <2>1. UNCHANGED <<world, goal, flush, flushed>> /\ \E item : queue' = Append(queue, item)
        BY <1>3, Zenon DEF Noise, EndGoals
    <2>2. QED
        BY <1>k, <2>1, AppendedAhead, Zenon DEF Noticed
<1>4. ASSUME NEW g \in Goals, StartFlush(g) PROVE Noticed'
    <2>1. /\ UNCHANGED <<world, flush, flushed, fsCache, overflows>>
          /\ queue' = Append(queue, g) /\ goal[g].at = "run"
        BY <1>4, Zenon DEF StartFlush
    <2>2. ~Awaited(g) /\ g \in Flushers
        BY <2>1, BuildLoopAssumption, Zenon DEF Awaited, Flushers, Goals
    <2>3. g \notin flushed /\ \A i \in 1 .. Len(queue) : queue[i] # g
        BY <2>2, Zenon DEF Channel
    <2>4. EditQueued => Ahead(g)
        BY <2>3, Appended, <2>1 DEF EditQueued, Ahead
    <2>5. \A v : Stale(v)' <=> Stale(v)
        BY <2>1, Zenon DEF Stale
    <2>6. QED
        BY <1>4, <2>1, <2>4, <2>5, GoalFields, AppendedAhead, Zenon DEF Noticed
<1>5. CASE StartRpcFlush
    <2>1. /\ UNCHANGED <<world, goal, flushed, fsCache, overflows>>
          /\ queue' = Append(queue, "rpc") /\ flush.at = "new"
        BY <1>5, Zenon DEF StartRpcFlush
    <2>2. ~Awaited("rpc") /\ "rpc" \in Flushers
        BY <2>1, BuildLoopAssumption, Zenon DEF Awaited, Flushers, Goals
    <2>3. "rpc" \notin flushed /\ \A i \in 1 .. Len(queue) : queue[i] # "rpc"
        BY <2>2, Zenon DEF Channel
    <2>4. EditQueued => Ahead("rpc")
        BY <2>3, Appended, <2>1 DEF EditQueued, Ahead
    <2>5. \A v : Stale(v)' <=> Stale(v)
        BY <2>1, Zenon DEF Stale
    <2>6. flush'.at = "flush" /\ flush'.asOf = world
        BY <1>5, <1>t, Zenon DEF StartRpcFlush, Flushes
    <2>7. QED
        BY <2>1, <2>4, <2>5, <2>6, AppendedAhead, Zenon DEF Noticed
<1>6. CASE HandleEvent
    <2>1. /\ UNCHANGED <<world, overflows, goal, flush, flushed>>
          /\ queue # <<>> /\ queue' = Tail(queue) /\ fsCache' = Updated(Head(queue))
        BY <1>6, Zenon DEF HandleEvent
    <2>2. CASE Head(queue) = "edit"
        <3>1. fsCache' = Never \/ fsCache' = world
            BY <2>1, <2>2, Zenon DEF Updated
        <3>2. QED
            BY <1>t, <2>1, <3>1 DEF Noticed, Stale
    <2>3. CASE Head(queue) # "edit"
        BY <1>k, <2>1, <2>3, DequeuedAhead, Zenon DEF Noticed
    <2>4. QED
        BY <2>2, <2>3, Zenon
<1>7. CASE FillFlush
    <2>1. /\ UNCHANGED <<world, goal, flush>> /\ queue # <<>> /\ queue' = Tail(queue)
          /\ flushed' = flushed \union {Head(queue)} /\ Head(queue) \in Flushers
        BY <1>7, Zenon DEF FillFlush, IsFill
    <2>2. Head(queue) # "edit"
        BY <2>1, BuildLoopAssumption, Zenon DEF Flushers, Goals
    <2>3. QED
        BY <1>k, <2>1, <2>2, DequeuedAhead, Zenon DEF Noticed
<1>8. ASSUME NEW g \in Goals, Read(g) \/ Refused(g) PROVE Noticed'
    <2>1. UNCHANGED <<world, flush, queue, flushed>>
        BY <1>8, Zenon DEF Read, Refused
    <2>2. EditQueued' = EditQueued /\ \A f : Ahead(f)' = Ahead(f)
        BY <2>1, Zenon DEF EditQueued, Ahead
    <2>3. \A h \in Goals : goal'[h].at = "flush" => goal[h].at = "flush" /\ goal'[h].asOf = goal[h].asOf
        BY <1>8, GoalFields, Zenon
    <2>4. QED
        BY <1>k, <2>1, <2>2, <2>3, Zenon DEF Noticed
<1>9. ASSUME NEW g \in Goals, FinishRequest(g) PROVE Noticed'
    <2>1. UNCHANGED <<world, flush, queue>> /\ flushed' \subseteq flushed
        BY <1>9, Zenon DEF FinishRequest
    <2>2. EditQueued' = EditQueued /\ \A f : Ahead(f) => Ahead(f)'
        BY <2>1, Zenon DEF EditQueued, Ahead
    <2>3. \A h \in Goals : goal'[h].at = "flush" => goal[h].at = "flush" /\ goal'[h].asOf = goal[h].asOf
        BY <1>9, GoalFields, Zenon
    <2>4. QED
        BY <1>k, <2>1, <2>2, <2>3, Zenon DEF Noticed
<1>10. CASE EndBuild
    <2>1. UNCHANGED <<world, goal, flush, queue>> /\ flushed' \subseteq flushed
        BY <1>10, Zenon DEF EndBuild
    <2>2. EditQueued' = EditQueued /\ \A f : Ahead(f) => Ahead(f)'
        BY <2>1, Zenon DEF EditQueued, Ahead
    <2>3. QED
        BY <1>k, <2>1, <2>2, Zenon DEF Noticed
<1>11. CASE RpcFlushed
    <2>1. /\ UNCHANGED <<world, goal, queue>> /\ flushed' \subseteq flushed /\ flush.at = "flush"
          /\ "rpc" \in flushed
        BY <1>11, Zenon DEF RpcFlushed
    <2>2. EditQueued' = EditQueued /\ \A f : Ahead(f) => Ahead(f)'
        BY <2>1, Zenon DEF EditQueued, Ahead
    <2>3. ~Stale(flush.asOf)
        BY <2>1, Zenon DEF Noticed, Ahead
    <2>4. flush'.at # "flush" /\ flush'.asOf = flush.asOf
        BY <1>11, <1>t, Zenon DEF RpcFlushed, AfterFlush, Flushes
    <2>5. QED
        BY <1>k, <2>1, <2>2, <2>3, <2>4, Zenon
<1>12. CASE RpcEndSleep
    <2>1. UNCHANGED <<world, goal, queue, flushed>> /\ flush.at = "sleep"
        BY <1>12, Zenon DEF RpcEndSleep
    <2>2. EditQueued' = EditQueued /\ \A f : Ahead(f)' = Ahead(f)
        BY <2>1, Zenon DEF EditQueued, Ahead
    <2>3. flush'.at # "flush" /\ flush'.asOf = flush.asOf
        BY <1>12, <1>t, Zenon DEF RpcEndSleep, Flushes
    <2>4. QED
        BY <1>k, <2>1, <2>2, <2>3, Zenon DEF Noticed
<1>13. CASE StartBuild
    <2>1. UNCHANGED <<world, flush, queue, flushed>>
        BY <1>13, Zenon DEF StartBuild
    <2>2. EditQueued' = EditQueued /\ \A f : Ahead(f)' = Ahead(f)
        BY <2>1, Zenon DEF EditQueued, Ahead
    <2>3. \A g \in Goals : goal'[g].at # "flush"
        BY <1>13, NewBuild, Zenon
    <2>4. QED
        BY <1>k, <2>1, <2>2, <2>3, Zenon DEF Noticed
<1>14. ASSUME UNCHANGED <<world, goal, flush, queue, flushed>> PROVE Noticed'
    <2>1. EditQueued' = EditQueued /\ \A f : Ahead(f)' = Ahead(f)
        BY <1>14, Zenon DEF EditQueued, Ahead
    <2>2. QED
        BY <1>k, <1>14, <2>1, Zenon DEF Noticed
<1>15. CASE StartSleep \/ EndSleep \/ Idle \/ Wake \/ UNCHANGED vars
    BY <1>14, <1>15, Zenon DEF StartSleep, EndSleep, Idle, Wake, vars
<1>16. ASSUME NEW r \in Requests, Submit(r) \/ CancelRequest(r) \/ Answered(r) PROVE Noticed'
    BY <1>14, <1>16, Zenon DEF Submit, CancelRequest, Answered
<1>17. QED
    BY <1>1, <1>2, <1>3, <1>4, <1>5, <1>6, <1>7, <1>8, <1>9, <1>10, <1>11, <1>12, <1>13, <1>15,
       <1>16, Zenon DEF Next, Outside, Progress

-----------------------------------------------------------------------------
(* The conjuncts together are inductive.                                      *)
Inv ==
    /\ Types /\ NoLostInvalidation /\ NotNewer /\ GoalsProceed /\ Phase /\ Unrefused
    /\ Generations /\ Answers /\ Inputs /\ Channel /\ Noticed

(* A loop that was just created satisfies the invariant.                      *)
LEMMA InitInv == Init => Inv
<1> SUFFICES ASSUME Init PROVE Inv
    BY Zenon
<1> USE DEF Init
<1>1. Types
    BY BuildLoopAssumption
       DEF Types, Items, Statuses, Resets, MaybeVersions, Debouncers, Loops, Builds, GoalStates,
           Flushes, Versions, NoBuild, NoGoal
<1>2. NotNewer /\ GoalsProceed /\ Phase /\ Unrefused /\ NoLostInvalidation
    BY DEF NotNewer, GoalsProceed, Phase, Unrefused, NoLostInvalidation, InBuild, NoGoal, Never
<1>3. Generations /\ Answers /\ Inputs
    BY DEF Generations, Answers, Inputs, InBuild, Unfinished, NoBuild, Never
<1>4. Channel /\ Noticed
    BY DEF Channel, Noticed, Stale, NoGoal
<1>5. QED
    BY <1>1, <1>2, <1>3, <1>4, Zenon DEF Inv

(* Every step preserves the invariant.                                        *)
LEMMA InvStep == Inv /\ [Next]_vars => Inv'
<1> SUFFICES ASSUME Inv, [Next]_vars PROVE Inv'
    BY Zenon
<1> USE DEF Inv
<1>1. Types' /\ NoLostInvalidation'
    BY TypeStep, NoLostStep, Zenon
<1>2. NotNewer' /\ GoalsProceed' /\ Phase' /\ Unrefused'
    BY <1>1, NotNewerStep, GoalsProceedStep, PhaseStep, Zenon
<1>3. Generations' /\ Answers' /\ Inputs'
    BY GenerationsStep, AnswersStep, InputsStep, Zenon
<1>4. Channel' /\ Noticed'
    BY <1>1, ChannelStep, NoticedStep, Zenon
<1>5. QED
    BY <1>1, <1>2, <1>3, <1>4, Zenon

(* The invariant holds in every reachable state of the build loop.            *)
THEOREM BuildLoopInv == Spec => []Inv
BY InitInv, InvStep, PTL DEF Spec

(* The fields of t, the ivars and the suspended fibers have their types.      *)
THEOREM BuildLoopTypeCorrect == Spec => []TypeOK
<1>1. Inv => TypeOK
    BY TypesEquiv, Zenon DEF Inv
<1>2. QED
    BY <1>1, BuildLoopInv, PTL

(* No change of a cached file is forgotten by Memo, however restarts, RPC     *)
(* rebuilds and resets interleave (add_pending_reset, Memo.reset).            *)
THEOREM BuildLoopNoLostInvalidation == Spec => []NoLostInvalidation
<1>1. Inv => NoLostInvalidation
    BY Zenon DEF Inv
<1>2. QED
    BY <1>1, BuildLoopInv, PTL

(* The loop never waits on a trigger that was already triggered               *)
(* (reset_wakeup, trigger_wakeup, wait_for_wakeup_after).                     *)
THEOREM BuildLoopNoSpin == Spec => []NoSpin
<1>1. Inv => NoSpin
    BY Zenon DEF Inv, Generations, NoSpin
<1>2. QED
    BY <1>1, BuildLoopInv, PTL

(* As long as no event was lost, the loop waits only with the sticky goal     *)
(* built from the source on disk and with every request answered              *)
(* (run_current_build, wait_for_wakeup_after).                                *)
THEOREM BuildLoopUpToDate == Spec => [](overflows = 0 => UpToDateWhenIdle)
<1>1. ASSUME Inv, overflows = 0 PROVE UpToDateWhenIdle
    <2> SUFFICES ASSUME loop.at = "wait", wakeupGeneration = loop.generation, queue = <<>>
                 PROVE  ("sticky" \in StickyGoals => built = world) /\ Unfinished = {}
        BY Zenon DEF UpToDateWhenIdle
    <2>1. Unfinished = {} /\ ("sticky" \in StickyGoals => loop.stickyBuiltAt = inputGeneration)
        BY <1>1, Zenon DEF Inv, Generations
    <2>2. "sticky" \in StickyGoals => built # Never /\ built = fsCache
        BY <1>1, <2>1, Zenon DEF Inv, Inputs
    <2>3. ~Stale(world)
        BY <1>1 DEF Inv, Noticed, EditQueued
    <2>4. fsCache <= world /\ world \in Int /\ fsCache \in Int
        BY <1>1, BuildLoopAssumption DEF Inv, Types, NotNewer, Versions, MaybeVersions, Never
    <2>5. QED
        BY <1>1, <2>1, <2>2, <2>3, <2>4 DEF Stale
<1>2. QED
    BY <1>1, BuildLoopInv, PTL

(* The end of a build leaves the requests whose outcome is not known as they  *)
(* are: a build that is done has answered all of its requests before.         *)
LEMMA EndBuildAnswersNone ==
    ASSUME Inv, EndBuild, NEW r \in Requests
    PROVE  outcome'[r] = outcome[r]
<1>1. outcome \in [Requests -> {"none", "Success", "Failure"}] /\ requests \subseteq Requests
      /\ status \in {"Standing_by", "Building", "Restarting_build"} /\ r \in Goals
    BY Zenon DEF Inv, Types, Statuses, Goals
<1>2. /\ loop.at = "flush"
      /\ IsDone => outcome' = [s \in Requests |-> IF s \in build.goals /\ outcome[s] = "none"
                                                  THEN BuiltOutcome ELSE outcome[s]]
      /\ ~IsDone => outcome' = outcome
    BY Zenon DEF EndBuild
<1>3. ASSUME IsDone, r \in build.goals, outcome[r] = "none" PROVE FALSE
    <2>1. r \in requests
        BY <1>2, <1>3, Zenon DEF Inv, Answers, InBuild
    <2>2. status = "Building"
        BY <1>1, <1>2, <1>3, <2>1, Zenon DEF IsDone, Unfinished, Inv, Phase, InBuild
    <2>3. goal[r].at = "done"
        BY <1>1, <1>2, <1>3, Zenon DEF Inv, GoalsProceed, InBuild, Types, GoalStates
    <2>4. goal[r].asOf # Never /\ build.completion = "complete"
        BY <1>1, <2>2, <2>3, Zenon DEF Inv, Unrefused, Generations
    <2>5. QED
        BY <1>2, <1>3, <2>3, <2>4, Zenon DEF Inv, Answers, InBuild
<1>4. QED
    BY <1>1, <1>2, <1>3, Zenon

(* A request fails only when its session cancelled it: neither a build that   *)
(* was cancelled for another request nor an error that Memo still holds is    *)
(* the outcome of a request (run_request, run_current_build).                 *)
THEOREM BuildLoopOnlyDroppedFail == Spec => []OnlyDroppedFail
<1>1. Init => OnlyDroppedFail
    BY Zenon DEF Init, OnlyDroppedFail
<1>2. Inv /\ OnlyDroppedFail /\ [Next]_vars => OnlyDroppedFail'
    <2> SUFFICES ASSUME Inv, OnlyDroppedFail, [Next]_vars PROVE OnlyDroppedFail'
        BY Zenon
    <2> USE DEF OnlyDroppedFail
    <2>1. ASSUME NEW r \in Requests, CancelRequest(r) PROVE OnlyDroppedFail'
        BY <2>1, Zenon DEF CancelRequest, Inv, Types
    <2>2. ASSUME NEW g \in Goals, FinishRequest(g) PROVE OnlyDroppedFail'
        BY <2>2, Zenon DEF FinishRequest
    <2>3. CASE EndBuild
        BY <2>3, EndBuildAnswersNone, Zenon DEF EndBuild
    <2>4. ASSUME UNCHANGED <<outcome, dropped>> PROVE OnlyDroppedFail'
        BY <2>4, Zenon
    <2>5. CASE Edit \/ EditLost \/ Noise \/ SimulateOverflow \/ StartRpcFlush \/ HandleEvent
               \/ FillFlush \/ StartSleep \/ EndSleep \/ Idle \/ StartBuild \/ EndGoals \/ Wake
               \/ RpcFlushed \/ RpcEndSleep \/ UNCHANGED vars
        BY <2>4, <2>5, Zenon
           DEF Edit, EditLost, Noise, SimulateOverflow, StartRpcFlush, HandleEvent, FillFlush,
               StartSleep, EndSleep, Idle, StartBuild, EndGoals, Wake, RpcFlushed, RpcEndSleep, vars
    <2>6. ASSUME NEW r \in Requests, Submit(r) \/ Answered(r) PROVE OnlyDroppedFail'
        BY <2>4, <2>6, Zenon DEF Submit, Answered
    <2>7. ASSUME NEW g \in Goals, Read(g) \/ Refused(g) \/ StartFlush(g) PROVE OnlyDroppedFail'
        BY <2>4, <2>7, Zenon DEF Read, Refused, StartFlush
    <2>8. QED
        BY <2>1, <2>2, <2>3, <2>5, <2>6, <2>7, Zenon DEF Next, Outside, Progress
<1>3. QED
    BY <1>1, <1>2, BuildLoopInv, PTL DEF Spec

(* When no event was lost, a request that is answered Success was built from  *)
(* the version of the source that was on disk when its goal was finished      *)
(* (finish_request, Request.cancel_completion).                               *)
THEOREM BuildLoopFreshAnswers == ASSUME MaxOverflows = 0 PROVE Spec => FreshAnswers
<1> DEFINE Fresh == \A r \in Requests : outcome[r] = "none" /\ outcome'[r] = "Success" =>
                        goal[r].version = goal[r].asOf
<1>1. Inv /\ [Next]_vars => [Fresh]_vars
    <2> SUFFICES ASSUME Inv, [Next]_vars, NEW r \in Requests,
                        outcome[r] = "none", outcome'[r] = "Success"
                 PROVE  goal[r].version = goal[r].asOf
        BY Zenon
    <2>1. ASSUME NEW g \in Goals, FinishRequest(g) PROVE goal[r].version = goal[r].asOf
        <3>1. r = g /\ build.completion = "complete" /\ goal[r].at = "flush" /\ r \in flushed
            BY <2>1, Zenon DEF FinishRequest
        <3>2. r \in Goals
            BY Zenon DEF Goals
        <3>3. ~Stale(goal[r].asOf)
            BY <3>1, <3>2, Zenon DEF Inv, Noticed, Ahead
        <3>4. /\ InBuild /\ goal[r].asOf # Never
              /\ goal[r].version # Never /\ goal[r].version <= goal[r].asOf
            BY <3>1, <3>2, Zenon DEF Inv, GoalsProceed, InBuild
        <3>5. goal[r].version = fsCache
            BY <3>1, <3>2, <3>4, Zenon DEF Inv, Generations, Inputs
        <3>6. overflows = 0 /\ goal[r].version \in Int /\ goal[r].asOf \in Int
            BY <3>2, BuildLoopAssumption
               DEF Inv, Types, GoalStates, MaybeVersions, Versions, Never
        <3>7. QED
            BY <3>3, <3>4, <3>5, <3>6 DEF Stale
    <2>2. CASE EndBuild
        BY <2>2, EndBuildAnswersNone, Zenon
    <2>3. ASSUME NEW s \in Requests, CancelRequest(s) PROVE FALSE
        BY <2>3, Zenon DEF CancelRequest, Inv, Types
    <2>4. CASE Edit \/ EditLost \/ Noise \/ SimulateOverflow \/ StartRpcFlush \/ HandleEvent
               \/ FillFlush \/ StartSleep \/ EndSleep \/ Idle \/ StartBuild \/ EndGoals \/ Wake
               \/ RpcFlushed \/ RpcEndSleep \/ UNCHANGED vars
        <3>1. outcome' = outcome
            BY <2>4, Zenon
               DEF Edit, EditLost, Noise, SimulateOverflow, StartRpcFlush, HandleEvent, FillFlush,
                   StartSleep, EndSleep, Idle, StartBuild, EndGoals, Wake, RpcFlushed, RpcEndSleep,
                   vars
        <3>2. QED
            BY <3>1, Zenon
    <2>5. ASSUME NEW s \in Requests, Submit(s) \/ Answered(s) PROVE FALSE
        BY <2>5, Zenon DEF Submit, Answered
    <2>6. ASSUME NEW g \in Goals, Read(g) \/ Refused(g) \/ StartFlush(g) PROVE FALSE
        BY <2>6, Zenon DEF Read, Refused, StartFlush
    <2>7. QED
        BY <2>1, <2>2, <2>3, <2>4, <2>5, <2>6, Zenon DEF Next, Outside, Progress
<1>2. QED
    BY <1>1, BuildLoopInv, PTL DEF Spec, FreshAnswers

(* flush_file_watcher returns only when the changes before it were applied,   *)
(* unless their notification was lost, and outside of a quiet period.         *)
THEOREM BuildLoopFlushApplied == Spec => FlushApplied
<1> DEFINE Applied ==
        flush.at # "returned" /\ flush'.at = "returned" =>
            /\ fsCache' = Never \/ fsCache' >= flush.asOf \/ overflows > 0
            /\ debouncer'.pending = "no"
<1>1. Inv /\ [Next]_vars => [Applied]_vars
    <2> SUFFICES ASSUME Inv, [Next]_vars, flush.at # "returned", flush'.at = "returned"
                 PROVE  /\ fsCache' = Never \/ fsCache' >= flush.asOf \/ overflows > 0
                        /\ debouncer'.pending = "no"
        BY Zenon
    <2>t. /\ flush \in Flushes /\ flush.asOf \in Int /\ fsCache \in Int /\ overflows \in Nat
          /\ debouncer \in Debouncers
        BY BuildLoopAssumption DEF Inv, Types, Flushes, MaybeVersions, Versions, Never
    <2>1. CASE RpcFlushed
        <3>1. flush.at = "flush" /\ "rpc" \in flushed /\ UNCHANGED <<fsCache, debouncer>>
            BY <2>1, Zenon DEF RpcFlushed
        <3>2. ~Stale(flush.asOf)
            BY <3>1, Zenon DEF Inv, Noticed, Ahead
        <3>3. debouncer.pending = "no"
            BY <2>1, <2>t, Zenon DEF RpcFlushed, AfterFlush, Flushes, Debouncers
        <3>4. QED
            BY <2>t, <3>1, <3>2, <3>3 DEF Stale
    <2>2. CASE RpcEndSleep
        <3>1. flush.at = "sleep" /\ UNCHANGED fsCache
            BY <2>2, Zenon DEF RpcEndSleep
        <3>2. ~Stale(flush.asOf)
            BY <3>1, Zenon DEF Inv, Noticed
        <3>3. debouncer'.pending = "no"
            BY <2>2, <2>t, <3>1, Zenon DEF RpcEndSleep, Taken, Flushes, Debouncers
        <3>4. QED
            BY <2>t, <3>1, <3>2, <3>3 DEF Stale
    <2>3. CASE StartRpcFlush
        BY <2>3, <2>t, Zenon DEF StartRpcFlush, Flushes
    <2>4. ASSUME flush' = flush PROVE FALSE
        BY <2>4, Zenon
    <2>5. CASE Edit \/ EditLost \/ Noise \/ SimulateOverflow \/ HandleEvent \/ FillFlush
               \/ StartSleep \/ EndSleep \/ Idle \/ StartBuild \/ EndGoals \/ EndBuild \/ Wake
               \/ UNCHANGED vars
        BY <2>4, <2>5, Zenon
           DEF Edit, EditLost, Noise, SimulateOverflow, HandleEvent, FillFlush, StartSleep, EndSleep,
               Idle, StartBuild, EndGoals, EndBuild, Wake, vars
    <2>6. ASSUME NEW r \in Requests, Submit(r) \/ CancelRequest(r) \/ Answered(r) PROVE FALSE
        BY <2>4, <2>6, Zenon DEF Submit, CancelRequest, Answered
    <2>7. ASSUME NEW g \in Goals, Read(g) \/ Refused(g) \/ StartFlush(g) \/ FinishRequest(g)
          PROVE FALSE
        BY <2>4, <2>7, Zenon DEF Read, Refused, StartFlush, FinishRequest
    <2>8. QED
        BY <2>1, <2>2, <2>3, <2>5, <2>6, <2>7, Zenon DEF Next, Outside, Progress
<1>2. QED
    BY <1>1, BuildLoopInv, PTL DEF Spec, FlushApplied
=============================================================================
