-------------------------------- MODULE Memo --------------------------------
(***************************************************************************)
(* Memo (src/memo): dune's incremental computation engine.                 *)
(*                                                                         *)
(* A node runs a deterministic function of the nodes it reads.  Its value  *)
(* is kept across runs with the nodes it read (deps) and two run stamps.   *)
(* In a new run a cached node is first restored: its deps are brought up   *)
(* to date in the order in which they were read, and only if one of them   *)
(* changed after the node was last validated is the node computed again.   *)
(*                                                                         *)
(* A frame is a restoration or a computation of a node, or the top-level   *)
(* caller of a node; rd[f][d] is the fiber in which frame f reads node d.  *)
(* Fibers are cooperative, but a computation may be suspended anywhere     *)
(* (it runs processes and waits for files), so fibers interleave here      *)
(* between any two steps.  The reads of a parallel section have a fiber    *)
(* each; a branch of a parallel section reads one node.                    *)
(***************************************************************************)
EXTENDS Integers, Sequences, FiniteSets

CONSTANTS
    Nodes,
    Leaves,         \* nodes that read no node but the outside world
    RunNodes,       \* leaves that read the current run (of_non_reproducible_fiber)
    Cutoff,         \* nodes with a cutoff predicate
    Jobs,           \* nodes that run a job, which a cancelled build refuses
    Values,         \* what functions return
    Reads(_, _),    \* Reads(n, seen): the section n reads after it saw seen
    Result(_, _),   \* Result(n, seen): the value of n after it saw seen
    Goals,          \* the sets of nodes that a top-level run asks for
    TopLevels,      \* how it starts: Memo.run or run_with_error_handler
    MaxRun          \* bound on the run counter

VARIABLES
    run,            \* Run.current
    input,          \* the outside world: the value each leaf would return
    pending,        \* nodes invalidated by the next reset
    top,            \* whether a top-level Memo.run is in progress
    cancel,         \* whether the cancellation of its build was fired
    state, value, deps, changedAt, validatedAt,    \* the fields of Dep_node
    saw,            \* history: the values the last computation of n saw
    rd,             \* the fibers that read nodes
    res,            \* the ivars of the computations of this run
    stack,          \* the call stack of each running frame, itself on top (last)
    stage,          \* restoration: the section of deps being checked
    section, seen, sofar,    \* computation: the section being read, the
                    \* values read before it and the deps collected before it
    dag,            \* the cycle detection graph over frames
    cycle,          \* cycle_error_in_the_current_run
    nonReproAt      \* last_saw_non_reproducible_exn_at

nodeVars == <<state, value, deps, changedAt, validatedAt, saw>>
frameVars == <<stage, section, seen, sofar>>
cycleVars == <<dag, cycle>>
worldVars == <<run, input, pending, top, cancel>>
vars == <<worldVars, nodeVars, rd, res, stack, frameVars, cycleVars, nonReproAt>>

-----------------------------------------------------------------------------
Invalid == -1

(* Value.t.  A stored error remembers whether it is reproducible; a reader    *)
(* gets the exception without that mark (Value.get_exn_error).                *)
Exns == {"cycle", "cancelled"}
Uninitialized == <<"uninitialized", "none">>
NonReproducible(e) == <<"nonrepro", e>>
Observable == {"ok", "error"} \X (Values \union Exns)
Value == {Uninitialized} \union Observable \union ({"nonrepro"} \X Exns)
Observed(v) == IF v[1] = "nonrepro" THEN <<"error", v[2]>> ELSE v
IsNonReproducible(v) == v[1] = "nonrepro"

Views == UNION {[S -> Observable] : S \in SUBSET Nodes}

ASSUME MemoAssumption ==
    /\ RunNodes \subseteq Leaves /\ Leaves \subseteq Nodes
    /\ Cutoff \subseteq Nodes /\ Jobs \subseteq Nodes
    /\ Goals \subseteq SUBSET Nodes
    /\ TopLevels \subseteq {"run", "run_with_error_handler"}
    /\ MaxRun \in Nat
    /\ \A n \in Nodes : \A view \in Views :
         Reads(n, view) \subseteq Nodes /\ Result(n, view) \in Observable

States == {"Not_cached", "Cached", "Out_of_date", "Restoring", "Computing"}
Restore(n) == <<"restore", n>>
Compute(n) == <<"compute", n>>
Root(n) == <<"root", n>>
Frames == {"restore", "compute", "root"} \X Nodes
Outcomes == {"unchanged", "changed", "cancelled", "done"}
Answers == {"unchanged", "changed", "cancelled", "ok"}
Pcs == {"off", "start", "waitRestore", "waitCompute"} \union Answers

NoReads == [d \in Nodes |-> "off"]
Nothing == [d \in {} |-> Uninitialized]
Spawn(ds) == [d \in Nodes |-> IF d \in ds THEN "start" ELSE "off"]
Deps(n) == UNION {deps[n][i] : i \in 1..Len(deps[n])}

IsCurrentIfChanged(n) == validatedAt[n] = run /\ changedAt[n] = run
IsCurrent(n) == validatedAt[n] = run


Init ==
    /\ run = 0
    /\ input \in [Leaves -> Values]
    /\ pending = {}
    /\ top = "idle"
    /\ cancel = "no"
    /\ state = [n \in Nodes |-> "Not_cached"]
    /\ value = [n \in Nodes |-> Uninitialized]
    /\ deps = [n \in Nodes |-> <<>>]
    /\ changedAt = [n \in Nodes |-> Invalid]
    /\ validatedAt = [n \in Nodes |-> Invalid]
    /\ saw = [n \in Nodes |-> Nothing]
    /\ rd = [f \in Frames |-> NoReads]
    /\ res = [f \in Frames |-> "none"]
    /\ stack = [f \in Frames |-> <<>>]
    /\ stage = [n \in Nodes |-> 0]
    /\ section = [n \in Nodes |-> {}]
    /\ seen = [n \in Nodes |-> Nothing]
    /\ sofar = [n \in Nodes |-> <<>>]
    /\ dag = {}
    /\ cycle = "none"
    /\ nonReproAt = Invalid

-----------------------------------------------------------------------------
(* Cycle detection: Call_stack.add_path_to.  A read that would block adds its *)
(* call stack to the graph.  The walk up the stack stops at the first frame   *)
(* that already has an edge, as everything above it was added before.         *)
PathOfBlockingEdge(f, target) == IF f[1] = "root" THEN {} ELSE {<<f, target>>}
PathTo(f, target) ==
    LET s == stack[f]
        Child(k) == IF k = Len(s) THEN target ELSE s[k + 1]
        Untouched(k) == \A e \in dag : e[1] # s[k]
    IN  {<<s[k], Child(k)>> : k \in {k \in DOMAIN s : \A i \in k + 1 .. Len(s) : Untouched(i)}}

Reachable(f) ==
    LET reach[k \in 0 .. Cardinality(Frames)] ==
            IF k = 0 THEN {f}
            ELSE UNION {{g} \union {e[2] : e \in {e \in dag : e[1] = g}} : g \in reach[k - 1]}
    IN  reach[Cardinality(Frames)]

ClosesCycle(f, target) == \E e \in PathTo(f, target) : e[1] \in Reachable(target)

(* read_but_first_check_for_cycles: fiber rd[f][d] is about to block on the   *)
(* computation of frame target.  After the first cycle of a run no edge is    *)
(* added any more and every read that would block fails with that cycle.      *)
BlockOn(f, d, target, wait) ==
    IF cycle = "found" \/ ClosesCycle(f, target)
    THEN /\ rd' = [rd EXCEPT ![f][d] = "cancelled"]
         /\ cycle' = "found"
         /\ dag' = dag
    ELSE /\ rd' = [rd EXCEPT ![f][d] = wait]
         /\ dag' = dag \union PathTo(f, target)
         /\ cycle' = cycle

-----------------------------------------------------------------------------
(* The fiber that reads d for frame f: exec_dep_node for a computation and    *)
(* for the top level, the function given to Deps.changed_or_not for a         *)
(* restoration.                                                               *)

(* dep_changed_or_not for a restoration; the others take the value of d.      *)
CompareWithThisRun(f, d) ==
    IF f[1] = "restore" /\ changedAt[d] = run THEN "changed"
    ELSE IF f[1] = "restore" THEN "unchanged" ELSE "ok"

Compare(f, d) ==
    IF f[1] # "restore" THEN "ok"
    ELSE IF changedAt[d] > validatedAt[f[2]] THEN "changed" ELSE "unchanged"

(* ok_to_recompute_eagerly: d is a direct child of a parallel section.        *)
Eagerly(n, d) == Cardinality(deps[n][stage[n]]) > 1

(* A restoration needs no more than the fact that d could not be restored.    *)
ChangedIsEnough(f, d) == f[1] = "restore" /\ d \notin Cutoff /\ ~Eagerly(f[2], d)

(* after_compute: d was computed.                                             *)
AfterCompute(f, d) ==
    IF f[1] = "restore" /\ d \notin Cutoff THEN "changed" ELSE Compare(f, d)

Answer(f, d, a) ==
    /\ rd' = [rd EXCEPT ![f][d] = a]
    /\ UNCHANGED <<worldVars, nodeVars, res, stack, frameVars, cycleVars, nonReproAt>>

ReadCurrent(f, d) ==
    /\ rd[f][d] = "start"
    /\ IsCurrent(d)
    /\ Answer(f, d, Compare(f, d))

(* consider_and_restore_from_cache_without_adding_dep, by the state of d.     *)
StartRestoring(f, d) ==
    /\ rd[f][d] = "start"
    /\ ~IsCurrent(d)
    /\ state[d] = "Cached"
    /\ state' = [state EXCEPT ![d] = "Restoring"]
    /\ stack' = [stack EXCEPT ![Restore(d)] = Append(stack[f], Restore(d))]
    /\ rd' = [rd EXCEPT ![f][d] = "waitRestore"]
    /\ UNCHANGED <<worldVars, value, deps, changedAt, validatedAt, saw, res,
                   frameVars, cycleVars, nonReproAt>>

BlockOnRestore(f, d) ==
    /\ rd[f][d] = "start"
    /\ ~IsCurrent(d)
    /\ state[d] = "Restoring"
    /\ BlockOn(f, d, Restore(d), "waitRestore")
    /\ UNCHANGED <<worldVars, nodeVars, res, stack, frameVars, nonReproAt>>

(* The restoration of d ended in Unchanged or in Cancelled: after_restore.    *)
RestoreEnded(f, d) ==
    /\ rd[f][d] = "waitRestore"
    /\ res[Restore(d)] \in {"unchanged", "cancelled"}
    /\ Answer(f, d, IF res[Restore(d)] = "unchanged" THEN Compare(f, d) ELSE "cancelled")

(* d has nothing to restore, or its restoration ended in Changed.             *)
NotRestoredYet(f, d) ==
    \/ rd[f][d] = "start" /\ ~IsCurrent(d) /\ state[d] # "Cached"
    \/ rd[f][d] = "waitRestore" /\ res[Restore(d)] = "changed"

NotRestored(f, d) ==
    \/ rd[f][d] = "start" /\ ~IsCurrent(d)
         /\ state[d] \in {"Not_cached", "Out_of_date", "Computing"}
    \/ rd[f][d] = "waitRestore" /\ res[Restore(d)] = "changed"

AnswerChanged(f, d) ==
    /\ NotRestored(f, d)
    /\ ChangedIsEnough(f, d)
    /\ Answer(f, d, "changed")

(* consider_and_compute_without_adding_dep, by the state of d.  It has no     *)
(* branch for Restoring, nor for Cached when d is not up to date: a fiber     *)
(* that gets there raises (see NoCodeError).                                  *)
MustCompute(f, d) == NotRestored(f, d) /\ ~ChangedIsEnough(f, d)

AlreadyComputed(f, d) ==
    /\ MustCompute(f, d)
    /\ state[d] = "Cached"
    /\ IsCurrent(d)
    /\ Answer(f, d, AfterCompute(f, d))

StartComputing(f, d) ==
    /\ MustCompute(f, d)
    /\ state[d] \in {"Not_cached", "Out_of_date"}
    /\ state' = [state EXCEPT ![d] = "Computing"]
    /\ stack' = [stack EXCEPT ![Compute(d)] = Append(stack[f], Compute(d))]
    /\ rd' = [rd EXCEPT ![f][d] = "waitCompute"]
    /\ UNCHANGED <<worldVars, value, deps, changedAt, validatedAt, saw, res,
                   frameVars, cycleVars, nonReproAt>>

BlockOnCompute(f, d) ==
    /\ MustCompute(f, d)
    /\ state[d] = "Computing"
    /\ BlockOn(f, d, Compute(d), "waitCompute")
    /\ UNCHANGED <<worldVars, nodeVars, res, stack, frameVars, nonReproAt>>

ComputeEnded(f, d) ==
    /\ rd[f][d] = "waitCompute"
    /\ res[Compute(d)] = "done"
    /\ Answer(f, d, AfterCompute(f, d))

Asking(f) == {d \in Nodes : rd[f][d] \in {"start", "waitRestore", "waitCompute"}}

Read(f, d) ==
    \/ ReadCurrent(f, d)
    \/ StartRestoring(f, d)
    \/ BlockOnRestore(f, d)
    \/ RestoreEnded(f, d)
    \/ AnswerChanged(f, d)
    \/ AlreadyComputed(f, d)
    \/ StartComputing(f, d)
    \/ BlockOnCompute(f, d)
    \/ ComputeEnded(f, d)

-----------------------------------------------------------------------------
(* Node.value_changed: errors are compared even without a cutoff, and a       *)
(* non-reproducible error differs from everything, itself included.           *)
ValueChanged(n, old, new) ==
    \/ old = Uninitialized
    \/ IsNonReproducible(old) \/ IsNonReproducible(new)
    \/ old # new
    \/ old[1] = "ok" /\ n \notin Cutoff

(* Node.update_value, with the values that the new deps had.                  *)
UpdateValue(n, v, ds, view) ==
    /\ IF ValueChanged(n, value[n], v)
       THEN /\ value' = [value EXCEPT ![n] = v]
            /\ changedAt' = [changedAt EXCEPT ![n] = run]
       ELSE UNCHANGED <<value, changedAt>>
    /\ validatedAt' = [validatedAt EXCEPT ![n] = run]
    /\ deps' = [deps EXCEPT ![n] = ds]
    /\ saw' = [saw EXCEPT ![n] = view]
    /\ state' = [state EXCEPT ![n] = "Cached"]

-----------------------------------------------------------------------------
(* The fiber of a restoration: restore_from_cache and Deps.changed_or_not.    *)
(* Sections are checked in order; the reads of one section run concurrently   *)
(* and their answers are combined when all are in.                            *)
Section(n) == IF stage[n] = 0 THEN {} ELSE deps[n][stage[n]]

Answered(f, ds) == \A d \in ds : rd[f][d] \in Answers

(* Changed_or_not.combine over a section.                                     *)
Combined(n) ==
    LET answers == {rd[Restore(n)][d] : d \in Section(n)} IN
    IF "cancelled" \in answers THEN "cancelled"
    ELSE IF "changed" \in answers THEN "changed" ELSE "unchanged"

Restoring(n) == state[n] = "Restoring" /\ Answered(Restore(n), Section(n))

Restorable(n) == value[n] # Uninitialized /\ ~IsNonReproducible(value[n])

(* Deps.changed_or_not goes on to the next section.                           *)
ContinuesIfChanged(n) == Restorable(n) /\ Combined(n) # "cancelled"
Continues(n) == Restorable(n) /\ Combined(n) = "unchanged"

RestoreNextSection(n) ==
    /\ Restoring(n)
    /\ Continues(n)
    /\ stage[n] < Len(deps[n])
    /\ stage' = [stage EXCEPT ![n] = @ + 1]
    /\ rd' = [rd EXCEPT ![Restore(n)] = Spawn(deps[n][stage[n] + 1])]
    /\ UNCHANGED <<worldVars, nodeVars, res, stack, section, seen, sofar, cycleVars,
                   nonReproAt>>

EndRestore(n, outcome) ==
    /\ res' = [res EXCEPT ![Restore(n)] = outcome]
    /\ rd' = [rd EXCEPT ![Restore(n)] = NoReads]
    /\ stack' = [stack EXCEPT ![Restore(n)] = <<>>]
    /\ stage' = [stage EXCEPT ![n] = 0]
    /\ UNCHANGED <<worldVars, section, seen, sofar, cycleVars, nonReproAt>>

(* All deps are up to date and older than the node: Node.validate_value.      *)
RestoreUnchanged(n) ==
    /\ Restoring(n)
    /\ Continues(n)
    /\ stage[n] = Len(deps[n])
    /\ validatedAt' = [validatedAt EXCEPT ![n] = run]
    /\ state' = [state EXCEPT ![n] = "Cached"]
    /\ UNCHANGED <<value, deps, changedAt, saw>>
    /\ EndRestore(n, "unchanged")

RestoreChanged(n) ==
    /\ Restoring(n)
    /\ ~Restorable(n) \/ Combined(n) = "changed"
    /\ state' = [state EXCEPT ![n] = "Out_of_date"]
    /\ UNCHANGED <<value, deps, changedAt, validatedAt, saw>>
    /\ EndRestore(n, "changed")

RestoreCancelled(n) ==
    /\ Restoring(n)
    /\ Restorable(n)
    /\ Combined(n) = "cancelled"
    /\ UpdateValue(n, NonReproducible("cycle"), <<>>, Nothing)
    /\ EndRestore(n, "cancelled")

-----------------------------------------------------------------------------
(* The fiber of a computation: Exec.compute.  A read that ends in a cycle     *)
(* raises without recording a dep; the rest of its section goes on.           *)
Got(n) == {d \in section[n] : rd[Compute(n)][d] = "ok"}

ViewWithMarks(n) ==
    [d \in DOMAIN seen[n] \union Got(n) |-> IF d \in Got(n) THEN value[d] ELSE seen[n][d]]

View(n) ==
    [d \in DOMAIN seen[n] \union Got(n) |->
        IF d \in Got(n) THEN Observed(value[d]) ELSE seen[n][d]]

Collected(n) == IF Got(n) = {} THEN sofar[n] ELSE Append(sofar[n], Got(n))

Computing(n) == state[n] = "Computing" /\ Answered(Compute(n), section[n])

Raised(n) == Got(n) # section[n]

NextReads(n) == IF n \in Leaves \/ Raised(n) THEN {} ELSE Reads(n, View(n))

(* What the function of n returns or raises.  A job may be refused, or        *)
(* killed, once the build is cancelled: Non_reproducible Build_cancelled.     *)
Returned(n) ==
    IF Raised(n) THEN {NonReproducible("cycle")}
    ELSE {IF n \in Leaves THEN <<"ok", input[n]>> ELSE Result(n, View(n))}
         \union (IF n \in Jobs /\ cancel = "yes" THEN {NonReproducible("cancelled")} ELSE {})

ComputeNextSection(n) ==
    /\ Computing(n)
    /\ NextReads(n) # {}
    /\ section' = [section EXCEPT ![n] = NextReads(n)]
    /\ seen' = [seen EXCEPT ![n] = View(n)]
    /\ sofar' = [sofar EXCEPT ![n] = Collected(n)]
    /\ rd' = [rd EXCEPT ![Compute(n)] = Spawn(NextReads(n))]
    /\ UNCHANGED <<worldVars, nodeVars, res, stack, stage, cycleVars, nonReproAt>>

NotedCancellations(v) == IF v = NonReproducible("cancelled") THEN run ELSE nonReproAt
Noted(v) == IF IsNonReproducible(v) THEN run ELSE nonReproAt

ComputeReturns(n) ==
    /\ Computing(n)
    /\ NextReads(n) = {}
    /\ \E v \in Returned(n) :
         /\ UpdateValue(n, v, Collected(n), View(n))
         /\ nonReproAt' = Noted(v)
    /\ res' = [res EXCEPT ![Compute(n)] = "done"]
    /\ rd' = [rd EXCEPT ![Compute(n)] = NoReads]
    /\ section' = [section EXCEPT ![n] = {}]
    /\ seen' = [seen EXCEPT ![n] = Nothing]
    /\ sofar' = [sofar EXCEPT ![n] = <<>>]
    /\ stack' = [stack EXCEPT ![Compute(n)] = <<>>]
    /\ UNCHANGED <<worldVars, stage, cycleVars>>

-----------------------------------------------------------------------------
(* A top-level run reads its goals concurrently.  Memo.run forgets the cycle  *)
(* of an earlier run; run_with_error_handler does not.                        *)
StartRun(goals, how) ==
    /\ top = "idle"
    /\ top' = "running"
    /\ cancel' = "no"
    /\ cycle' = IF how = "run" THEN "none" ELSE cycle
    /\ rd' = [f \in Frames |-> IF f[1] = "root" /\ f[2] \in goals
                               THEN Spawn({f[2]}) ELSE rd[f]]
    /\ UNCHANGED <<run, input, pending, nodeVars, res, stack, frameVars, dag, nonReproAt>>

OneAnswered == \E n \in Nodes : rd[Root(n)][n] \in Answers
AllAnswered == \A n \in Nodes : rd[Root(n)][n] \in Answers \union {"off"}

FinishRun ==
    /\ top = "running"
    /\ AllAnswered
    /\ top' = "idle"
    /\ rd' = [f \in Frames |-> IF f[1] = "root" THEN NoReads ELSE rd[f]]
    /\ UNCHANGED <<run, input, pending, cancel, nodeVars, res, stack, frameVars, cycleVars,
                   nonReproAt>>

CancelBuild ==
    /\ top = "running"
    /\ cancel = "no"
    /\ cancel' = "yes"
    /\ UNCHANGED <<run, input, pending, top, nodeVars, rd, res, stack, frameVars, cycleVars,
                   nonReproAt>>

(* The outside world: a leaf changes, or is touched, and its invalidation is  *)
(* queued for the next reset.  Nobody is told of a change under a RunNode.     *)
ChangeInput(n, v) ==
    /\ n \notin pending
    /\ input' = [input EXCEPT ![n] = v]
    /\ pending' = pending \union ({n} \ RunNodes)
    /\ UNCHANGED <<run, top, cancel, nodeVars, rd, res, stack, frameVars, cycleVars,
                   nonReproAt>>

(* Node.invalidate: it raises on a node that is Restoring or Computing (see   *)
(* QuietBetweenRuns).                                                         *)
Invalidated(n) == IF state[n] \in {"Cached", "Out_of_date"} THEN "Not_cached" ELSE state[n]

InvalidatedByCaller(invalidated) == invalidated
AllInvalidated(invalidated) == invalidated \union RunNodes

(* Memo.reset: the queued invalidations (all nodes, if the event queue of the *)
(* file watcher overflowed), the one of Current_run, a clean cycle detection  *)
(* and a new run.                                                             *)
Reset(invalidated) ==
    /\ top = "idle"
    /\ run < MaxRun
    /\ state' = [n \in Nodes |->
                    IF n \in AllInvalidated(invalidated) THEN Invalidated(n) ELSE state[n]]
    /\ pending' = {}
    /\ cycle' = "none"
    /\ run' = run + 1
    /\ res' = [f \in Frames |-> "none"]
    /\ dag' = {}
    /\ UNCHANGED <<input, top, cancel, value, deps, changedAt, validatedAt, saw, rd,
                   stack, frameVars, nonReproAt>>

Frame(n) ==
    \/ RestoreNextSection(n)
    \/ RestoreUnchanged(n)
    \/ RestoreChanged(n)
    \/ RestoreCancelled(n)
    \/ ComputeNextSection(n)
    \/ ComputeReturns(n)

Progress ==
    \/ \E f \in Frames : \E d \in Asking(f) : Read(f, d)
    \/ \E n \in Nodes : Frame(n)
    \/ FinishRun

Next ==
    \/ Progress
    \/ \E goals \in Goals, how \in TopLevels : StartRun(goals, how)
    \/ CancelBuild
    \/ \E n \in Leaves, v \in Values : ChangeInput(n, v)
    \/ \E invalidated \in {pending, Nodes} : Reset(invalidated)

(* Memo.reset_if_necessary is Reset when this holds and does nothing if not.   *)
ResetNecessary(invalidated) == invalidated # {} \/ nonReproAt = run

(* The scheduler keeps running fibers while some fiber can run.               *)
Fairness == WF_vars(Progress)

Spec == Init /\ [][Next]_vars /\ Fairness

-----------------------------------------------------------------------------
(* Every field has its type.                                                  *)
TypeOK ==
    /\ run \in 0 .. MaxRun
    /\ input \in [Leaves -> Values]
    /\ pending \subseteq Nodes
    /\ top \in {"idle", "running"}
    /\ cancel \in {"no", "yes"}
    /\ state \in [Nodes -> States]
    /\ value \in [Nodes -> Value]
    /\ deps \in [Nodes -> Seq(SUBSET Nodes)]
    /\ changedAt \in [Nodes -> Nat \union {Invalid}]
    /\ validatedAt \in [Nodes -> Nat \union {Invalid}]
    /\ saw \in [Nodes -> Views]
    /\ rd \in [Frames -> [Nodes -> Pcs]]
    /\ res \in [Frames -> Outcomes \union {"none"}]
    /\ stack \in [Frames -> Seq(Frames)]
    /\ stage \in [Nodes -> Nat]
    /\ section \in [Nodes -> SUBSET Nodes]
    /\ seen \in [Nodes -> Views]
    /\ sofar \in [Nodes -> Seq(SUBSET Nodes)]
    /\ dag \subseteq Frames \X Frames
    /\ cycle \in {"none", "found"}
    /\ nonReproAt \in Nat \union {Invalid}

(* The branches of consider_and_compute_without_adding_dep that raise         *)
(* (Restoring, and Cached in an earlier run) are never taken.                 *)
NoCodeError ==
    \A f \in Frames, d \in Nodes :
      MustCompute(f, d) => state[d] # "Restoring" /\ (state[d] = "Cached" => IsCurrent(d))

(* When no top-level run is in progress no node is being restored or          *)
(* computed, so reset never raises in Node.invalidate.                        *)
QuietBetweenRuns ==
    top = "idle" => \A n \in Nodes : state[n] \notin {"Restoring", "Computing"}

(* A node is restored at most once and computed at most once in a run: a      *)
(* second start would force a computation whose ivar is already filled.       *)
OncePerRun ==
    [][\A n \in Nodes :
         /\ state[n] # "Restoring" /\ state'[n] = "Restoring" => res[Restore(n)] = "none"
         /\ state[n] # "Computing" /\ state'[n] = "Computing" => res[Compute(n)] = "none"]_vars

(* The early exit of reset_if_necessary keeps no non-reproducible error: when *)
(* it does nothing, no node that the next build would take as up to date      *)
(* holds one.                                                                 *)
SkippedResetIsSound ==
    top = "idle" /\ ~ResetNecessary(pending) =>
      \A n \in Nodes : IsCurrent(n) => ~IsNonReproducible(value[n])

(* Every top-level run ends: no fiber waits for ever, whatever cycles the     *)
(* graph has (read_but_first_check_for_cycles).                               *)
RunEnds == top = "running" ~> top = "idle"

(* A node that is up to date has the value its function returns on what its   *)
(* deps hold now, and these are up to date too: restoring a node instead of   *)
(* computing it cannot be observed.                                           *)
Consistent ==
    \A n \in Nodes \ Leaves :
      IsCurrent(n) /\ ~IsNonReproducible(value[n]) =>
        /\ \A d \in Deps(n) : IsCurrent(d)
        /\ LET view == [d \in Deps(n) |-> Observed(value[d])]
           IN  value[n] = Result(n, view) /\ Reads(n, view) = {}

=============================================================================
