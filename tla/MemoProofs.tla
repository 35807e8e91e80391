----------------------------- MODULE MemoProofs -----------------------------
(***************************************************************************)
(* Every step preserves the invariant of Memo: first the steps that read a *)
(* dep, force a frame or go on to the next section, then those that end a  *)
(* restoration or a computation, then those that start and end a run or    *)
(* change the world.  The theorems follow, for every graph of nodes.       *)
(***************************************************************************)
EXTENDS MemoInvariant, NaturalsInduction, WellFoundedInduction, TLAPS

-----------------------------------------------------------------------------
(* Frames of different kinds or nodes are different.                          *)
LEMMA FrameFacts ==
    /\ \A n \in Nodes : Restore(n) \in Frames /\ Compute(n) \in Frames /\ Root(n) \in Frames
    /\ \A n \in Nodes : Restore(n)[1] = "restore" /\ Restore(n)[2] = n
    /\ \A n \in Nodes : Compute(n)[1] = "compute" /\ Compute(n)[2] = n
    /\ \A n \in Nodes : Root(n)[1] = "root" /\ Root(n)[2] = n
    /\ \A f \in Frames : f[2] \in Nodes
    /\ \A f \in Frames : f[1] = "restore" => f = Restore(f[2])
    /\ \A f \in Frames : f[1] = "compute" => f = Compute(f[2])
    /\ \A f \in Frames : f[1] = "root" => f = Root(f[2])
    /\ \A f \in Frames : f[1] \in {"restore", "compute", "root"}
BY DEF Frames, Restore, Compute, Root

(* Frames of different kinds are different.                                   *)
LEMMA FramesDiffer ==
    \A m, n \in Nodes : /\ Restore(m) \in Frames /\ Compute(m) \in Frames
                        /\ Restore(m) # Compute(n)
BY Zenon DEF Frames, Restore, Compute

(* A computation only sees nodes.                                             *)
LEMMA SeenNodes ==
    ASSUME Inv, NEW n \in Nodes
    PROVE  \A d \in DOMAIN seen[n] : d \in Nodes
<1>1. seen[n] \in Views
  BY Zenon DEF Inv, TypeOK
<1> QED
  BY <1>1, Zenon DEF Views

(* A fiber takes a step that changes no node: it gets an answer or blocks.    *)
LEMMA ReaderMoves ==
    ASSUME Inv, NEW f \in Frames, NEW d \in Nodes, NEW a \in Pcs \ {"off"},
           rd' = [rd EXCEPT ![f][d] = a],
           rd[f][d] # "off",
           rd[f][d] = "waitRestore" => state[d] # "Restoring",
           rd[f][d] = "waitCompute" => state[d] # "Computing",
           a \in {"ok", "unchanged"} => IsCurrent(d),
           f[1] = "restore" /\ a \in {"ok", "unchanged"} => changedAt[d] <= validatedAt[f[2]],
           dag' \subseteq Frames \X Frames,
           cycle' \in {"none", "found"},
           UNCHANGED <<worldVars, nodeVars, res, stack, frameVars, nonReproAt>>
    PROVE  Inv'
<1> USE DEF worldVars, nodeVars, frameVars
<1>1. TypeOK'
  BY Zenon DEF Inv, TypeOK, Pcs
<1>r. rd \in [Frames -> [Nodes -> Pcs]]
  BY Zenon DEF Inv, TypeOK
<1>2. \A g \in Frames, e \in Nodes : rd'[g][e] = IF g = f /\ e = d THEN a ELSE rd[g][e]
  BY <1>r, Zenon
<1>3. Currency'
  BY DEF Inv, Currency, IsCurrent, Deps
<1>4. Stored'
  BY DEF Inv, Stored, Restorable, Deps
<1>5. ComputeFrames'
  <2> SUFFICES ASSUME NEW n \in Nodes
               PROVE  /\ DOMAIN seen[n] = SectionsOf(sofar[n])
                      /\ \A e \in DOMAIN seen[n] : IsCurrent(e) /\ seen[n][e] = Observed(value[e])
                      /\ \A e \in Nodes : rd'[Compute(n)][e] = "ok" => IsCurrent(e)
                      /\ \A e \in Nodes : rd'[Compute(n)][e] # "off" => e \in section[n]
                      /\ state[n] # "Computing" =>
                           rd'[Compute(n)] = NoReads /\ seen[n] = Nothing /\ sofar[n] = <<>> /\ section[n] = {}
    BY Zenon DEF ComputeFrames, IsCurrent
  <2>1. Compute(n) \in Frames
    BY FrameFacts, Zenon
  <2>2. \A e \in Nodes : rd'[Compute(n)][e] = "ok" => IsCurrent(e)
    BY <1>2, <2>1 DEF Inv, ComputeFrames
  <2>3. \A e \in Nodes : rd'[Compute(n)][e] # "off" => e \in section[n]
    BY <1>2, <2>1 DEF Inv, ComputeFrames
  <2>4. ASSUME state[n] # "Computing" PROVE rd'[Compute(n)] = NoReads
    <3>1. rd[Compute(n)] = NoReads
      BY <2>4, Zenon DEF Inv, ComputeFrames
    <3>2. f # Compute(n)
      BY <3>1, Zenon DEF NoReads
    <3> QED
      BY <3>1, <3>2, <2>1, <1>r, Zenon
  <2> QED
    BY <2>2, <2>3, <2>4, Zenon DEF Inv, ComputeFrames
<1>6. RestoreFrames'
  <2> SUFFICES ASSUME NEW n \in Nodes
               PROVE  /\ \A e \in Nodes : rd'[Restore(n)][e] \in {"ok", "unchanged"} => OlderThan(e, n)
                      /\ \A e \in Nodes : rd'[Restore(n)][e] # "off" => stage[n] # 0 /\ e \in deps[n][stage[n]]
                      /\ state[n] # "Restoring" => rd'[Restore(n)] = NoReads
    BY DEF Inv, RestoreFrames, OlderThan, IsCurrent
  <2>1. Restore(n) \in Frames /\ Restore(n)[1] = "restore" /\ Restore(n)[2] = n
    BY FrameFacts, Zenon
  <2>2. \A e \in Nodes : rd'[Restore(n)][e] \in {"ok", "unchanged"} => OlderThan(e, n)
    BY <1>2, <2>1 DEF Inv, RestoreFrames, OlderThan
  <2>3. \A e \in Nodes : rd'[Restore(n)][e] # "off" => stage[n] # 0 /\ e \in deps[n][stage[n]]
    BY <1>2, <2>1 DEF Inv, RestoreFrames
  <2>4. ASSUME state[n] # "Restoring" PROVE rd'[Restore(n)] = NoReads
    <3>1. rd[Restore(n)] = NoReads
      BY <2>4, Zenon DEF Inv, RestoreFrames
    <3>2. f # Restore(n)
      BY <3>1, Zenon DEF NoReads
    <3> QED
      BY <3>1, <3>2, <2>1, <1>r, Zenon
  <2> QED
    BY <2>2, <2>3, <2>4, Zenon
<1>7. Ivars'
  BY Zenon DEF Inv, Ivars, IsCurrent
<1>8. Forced'
  <2> SUFFICES ASSUME NEW n \in Nodes
               PROVE  /\ state[n] = "Restoring" =>
                           \E g \in Frames : Waits(g, n, "waitRestore", Restore(n))'
                      /\ state[n] = "Computing" =>
                           \E g \in Frames : Waits(g, n, "waitCompute", Compute(n))'
                      /\ \A e \in Nodes : rd'[Root(n)][e] # "off" => e = n /\ top = "running"
    BY Zenon DEF Forced
  <2>1. ASSUME state[n] = "Restoring"
        PROVE  \E g \in Frames : Waits(g, n, "waitRestore", Restore(n))'
    <3>1. PICK g \in Frames : Waits(g, n, "waitRestore", Restore(n))
      BY <2>1, Zenon DEF Inv, Forced
    <3>2. ~(g = f /\ n = d)
      BY <3>1, <2>1, Zenon DEF Waits
    <3> QED
      BY <3>1, <3>2, <1>2, Zenon DEF Waits
  <2>2. ASSUME state[n] = "Computing"
        PROVE  \E g \in Frames : Waits(g, n, "waitCompute", Compute(n))'
    <3>1. PICK g \in Frames : Waits(g, n, "waitCompute", Compute(n))
      BY <2>2, Zenon DEF Inv, Forced
    <3>2. ~(g = f /\ n = d)
      BY <3>1, <2>2, Zenon DEF Waits
    <3> QED
      BY <3>1, <3>2, <1>2, Zenon DEF Waits
  <2>3. \A e \in Nodes : rd'[Root(n)][e] # "off" => e = n /\ top = "running"
    BY <1>2, FrameFacts DEF Inv, Forced
  <2> QED
    BY <2>1, <2>2, <2>3, Zenon
<1>9. QuietBetweenRuns'
  BY Zenon DEF Inv, QuietBetweenRuns
<1> QED
  BY <1>1, <1>3, <1>4, <1>5, <1>6, <1>7, <1>8, <1>9, Zenon DEF Inv

(* A path added to the cycle detection graph is between frames.               *)
LEMMA PathType ==
    ASSUME TypeOK, NEW f \in Frames, NEW target \in Frames
    PROVE  PathTo(f, target) \subseteq Frames \X Frames
<1>1. stack[f] \in Seq(Frames)
  BY Zenon DEF TypeOK
<1>2. \A k \in DOMAIN stack[f] :
        /\ stack[f][k] \in Frames
        /\ (IF k = Len(stack[f]) THEN target ELSE stack[f][k + 1]) \in Frames
  BY <1>1
<1> QED
  BY <1>2 DEF PathTo

(* The fiber that reads d for frame f, except when it starts a frame.         *)
LEMMA ReadPreserves ==
    ASSUME Inv, NEW f \in Frames, NEW d \in Nodes,
           \/ ReadCurrent(f, d)
           \/ BlockOnRestore(f, d)
           \/ RestoreEnded(f, d)
           \/ AnswerChanged(f, d)
           \/ AlreadyComputed(f, d)
           \/ BlockOnCompute(f, d)
           \/ ComputeEnded(f, d)
    PROVE  Inv'
<1> USE FrameFacts DEF Answer, Pcs, Answers
<1>t. TypeOK /\ Restore(d) \in Frames /\ Compute(d) \in Frames
  BY Zenon DEF Inv
<1>c. cycleVars' = cycleVars => dag' \subseteq Frames \X Frames /\ cycle' \in {"none", "found"}
  BY <1>t, Zenon DEF cycleVars, TypeOK
<1>v. /\ Compare(f, d) \in {"ok", "changed", "unchanged"}
      /\ AfterCompute(f, d) \in {"ok", "changed", "unchanged"}
      /\ f[1] = "restore" /\ Compare(f, d) \in {"ok", "unchanged"} => changedAt[d] <= validatedAt[f[2]]
      /\ f[1] = "restore" /\ AfterCompute(f, d) \in {"ok", "unchanged"} => changedAt[d] <= validatedAt[f[2]]
  <2>1. f[2] \in Nodes /\ changedAt[d] \in Int /\ validatedAt[f[2]] \in Int
    BY <1>t DEF TypeOK, Invalid
  <2> QED
    BY <2>1 DEF Compare, AfterCompute
<1>w. /\ rd[f][d] = "waitRestore" /\ res[Restore(d)] # "none" => state[d] # "Restoring"
      /\ rd[f][d] = "waitCompute" /\ res[Compute(d)] = "done" => state[d] # "Computing"
      /\ res[Restore(d)] = "unchanged" => IsCurrent(d)
      /\ res[Compute(d)] = "done" => IsCurrent(d)
  BY Zenon DEF Inv, Ivars, Currency
<1>1. CASE ReadCurrent(f, d)
  BY <1>1, <1>c, <1>v, ReaderMoves, Zenon DEF ReadCurrent
<1>2. CASE RestoreEnded(f, d)
  <2>1. PICK a \in {"ok", "changed", "unchanged", "cancelled"} :
          /\ Answer(f, d, a)
          /\ a \in {"ok", "unchanged"} => a = Compare(f, d) /\ IsCurrent(d)
    BY <1>2, <1>v, <1>w, Zenon DEF RestoreEnded
  <2>2. rd[f][d] = "waitRestore" /\ state[d] # "Restoring"
    BY <1>2, <1>w, Zenon DEF RestoreEnded
  <2> QED
    BY <1>c, <1>v, <2>1, <2>2, ReaderMoves, Zenon
<1>3. CASE AnswerChanged(f, d)
  <2>1. /\ rd[f][d] \in {"start", "waitRestore"}
        /\ rd[f][d] = "waitRestore" => state[d] # "Restoring"
    BY <1>3, <1>w, Zenon DEF AnswerChanged, NotRestored
  <2>2. PICK a \in {"changed"} : Answer(f, d, a)
    BY <1>3, Zenon DEF AnswerChanged
  <2> QED
    BY <1>c, <2>1, <2>2, ReaderMoves, Zenon
<1>4. CASE AlreadyComputed(f, d)
  BY <1>4, <1>c, <1>v, <1>w, ReaderMoves, Zenon DEF AlreadyComputed, MustCompute, NotRestored
<1>5. CASE ComputeEnded(f, d)
  BY <1>5, <1>c, <1>v, <1>w, ReaderMoves, Zenon DEF ComputeEnded
<1>6. ASSUME NEW target \in Frames, NEW wait \in {"waitRestore", "waitCompute"},
             BlockOn(f, d, target, wait)
      PROVE  /\ \E a \in {"cancelled", wait} : rd' = [rd EXCEPT ![f][d] = a]
             /\ dag' \subseteq Frames \X Frames
             /\ cycle' \in {"none", "found"}
  <2>1. PathTo(f, target) \subseteq Frames \X Frames
    BY <1>t, PathType, Zenon
  <2>2. dag \subseteq Frames \X Frames /\ cycle \in {"none", "found"}
    BY <1>t, Zenon DEF TypeOK
  <2>3. CASE cycle = "found" \/ ClosesCycle(f, target)
    BY <1>6, <2>2, <2>3, Zenon DEF BlockOn
  <2>4. CASE ~(cycle = "found" \/ ClosesCycle(f, target))
    BY <1>6, <2>1, <2>2, <2>4 DEF BlockOn
  <2> QED
    BY <2>3, <2>4, Zenon
<1>7. CASE BlockOnRestore(f, d)
  <2>1. PICK a \in {"cancelled", "waitRestore"} : rd' = [rd EXCEPT ![f][d] = a]
    BY <1>6, <1>7, <1>t, Zenon DEF BlockOnRestore
  <2>2. dag' \subseteq Frames \X Frames /\ cycle' \in {"none", "found"}
    BY <1>6, <1>7, <1>t, Zenon DEF BlockOnRestore
  <2> QED
    BY <1>7, <2>1, <2>2, ReaderMoves, Zenon DEF BlockOnRestore
<1>8. CASE BlockOnCompute(f, d)
  <2>1. PICK a \in {"cancelled", "waitCompute"} : rd' = [rd EXCEPT ![f][d] = a]
    BY <1>6, <1>8, <1>t, Zenon DEF BlockOnCompute
  <2>2. dag' \subseteq Frames \X Frames /\ cycle' \in {"none", "found"}
    BY <1>6, <1>8, <1>t, Zenon DEF BlockOnCompute
  <2>3. /\ rd[f][d] \in {"start", "waitRestore"}
        /\ rd[f][d] = "waitRestore" => res[Restore(d)] = "changed"
    BY <1>8, Zenon DEF BlockOnCompute, MustCompute, NotRestored
  <2> QED
    BY <1>8, <1>w, <2>1, <2>2, <2>3, ReaderMoves, Zenon DEF BlockOnCompute
<1> QED
  BY <1>1, <1>2, <1>3, <1>4, <1>5, <1>7, <1>8, Zenon

(* A fiber starts a restoration or a computation, whose call stack is one     *)
(* frame higher than its own.                                                 *)
Starts(h, d, st, pc) ==
    \/ h = Restore(d) /\ st = "Restoring" /\ pc = "waitRestore" /\ state[d] = "Cached"
    \/ h = Compute(d) /\ st = "Computing" /\ pc = "waitCompute"

(* A fiber forces a frame that was not running, which then waits for nothing. *)
LEMMA FrameStarts ==
    ASSUME Inv, NEW f \in Frames, NEW d \in Nodes, NEW h \in Frames, NEW st, NEW pc,
           Starts(h, d, st, pc),
           rd[f][d] \in {"start", "waitRestore"},
           state[d] \in {"Cached", "Not_cached", "Out_of_date"},
           ~IsCurrent(d),
           state' = [state EXCEPT ![d] = st],
           stack' = [stack EXCEPT ![h] = Append(stack[f], h)],
           rd' = [rd EXCEPT ![f][d] = pc],
           UNCHANGED <<worldVars, value, deps, changedAt, validatedAt, saw, res, frameVars,
                       cycleVars, nonReproAt>>
    PROVE  Inv'
<1> USE DEF worldVars, nodeVars, frameVars, cycleVars
<1>t. /\ rd \in [Frames -> [Nodes -> Pcs]]
      /\ state \in [Nodes -> States]
      /\ stack \in [Frames -> Seq(Frames)]
  BY Zenon DEF Inv, TypeOK
<1>h. st \in {"Restoring", "Computing"} /\ pc \in {"waitRestore", "waitCompute"}
  BY Zenon DEF Starts
<1>s. /\ \A g \in Frames, e \in Nodes : rd'[g][e] = IF g = f /\ e = d THEN pc ELSE rd[g][e]
      /\ \A n \in Nodes : state'[n] = IF n = d THEN st ELSE state[n]
      /\ \A g \in Frames : stack'[g] = IF g = h THEN Append(stack[f], h) ELSE stack[g]
  BY <1>t, Zenon
<1>a. /\ f[1] = "restore" => state[f[2]] = "Restoring"
      /\ f[1] = "compute" => state[f[2]] = "Computing"
      /\ f[2] \in Nodes
  <2>1. rd[f] # NoReads
    BY Zenon DEF NoReads
  <2> QED
    BY <2>1, FrameFacts DEF Inv, RestoreFrames, ComputeFrames
<1>f. f # h
  BY <1>a, FrameFacts DEF Starts
<1>1. TypeOK'
  <2>1. Append(stack[f], h) \in Seq(Frames)
    BY <1>t
  <2> QED
    BY <1>h, <2>1, <1>t, Zenon DEF Inv, TypeOK, Pcs, States
<1>2. Currency'
  BY <1>s DEF Inv, Currency, IsCurrent, Deps
<1>3. Stored'
  BY SMTT(60) DEF Inv, Stored, Restorable, Deps
<1>4. ComputeFrames'
  <2> SUFFICES ASSUME NEW n \in Nodes
               PROVE  /\ \A e \in Nodes : rd'[Compute(n)][e] = "ok" => IsCurrent(e)
                      /\ \A e \in Nodes : rd'[Compute(n)][e] # "off" => e \in section[n]
                      /\ state'[n] # "Computing" =>
                           rd'[Compute(n)] = NoReads /\ seen[n] = Nothing /\ sofar[n] = <<>> /\ section[n] = {}
    BY ZenonT(60) DEF Inv, ComputeFrames, IsCurrent
  <2>1. Compute(n) \in Frames
    BY FrameFacts, Zenon
  <2>2. \A e \in Nodes : rd'[Compute(n)][e] = "ok" => IsCurrent(e)
    BY <1>s, <1>h, <2>1 DEF Inv, ComputeFrames
  <2>3. \A e \in Nodes : rd'[Compute(n)][e] # "off" => e \in section[n]
    BY <1>s, <2>1 DEF Inv, ComputeFrames
  <2>4. ASSUME state'[n] # "Computing"
        PROVE  rd'[Compute(n)] = NoReads /\ seen[n] = Nothing /\ sofar[n] = <<>> /\ section[n] = {}
    <3>1. state[n] # "Computing"
      BY <2>4, <1>s, Zenon
    <3>2. rd[Compute(n)] = NoReads /\ seen[n] = Nothing /\ sofar[n] = <<>> /\ section[n] = {}
      BY <3>1, Zenon DEF Inv, ComputeFrames
    <3>3. f # Compute(n)
      BY <3>1, <1>a, FrameFacts
    <3> QED
      BY <3>2, <3>3, <2>1, <1>t, Zenon
  <2> QED
    BY <2>2, <2>3, <2>4, Zenon
<1>5. RestoreFrames'
  <2> SUFFICES ASSUME NEW n \in Nodes
               PROVE  /\ \A e \in Nodes : rd'[Restore(n)][e] \in {"ok", "unchanged"} => OlderThan(e, n)
                      /\ \A e \in Nodes : rd'[Restore(n)][e] # "off" => stage[n] # 0 /\ e \in deps[n][stage[n]]
                      /\ state'[n] # "Restoring" => rd'[Restore(n)] = NoReads /\ stage[n] = 0
    BY ZenonT(60) DEF Inv, RestoreFrames, OlderThan, IsCurrent
  <2>1. Restore(n) \in Frames
    BY FrameFacts, Zenon
  <2>2. \A e \in Nodes : rd'[Restore(n)][e] \in {"ok", "unchanged"} => OlderThan(e, n)
    BY <1>s, <1>h, <2>1 DEF Inv, RestoreFrames
  <2>3. \A e \in Nodes : rd'[Restore(n)][e] # "off" => stage[n] # 0 /\ e \in deps[n][stage[n]]
    BY <1>s, <2>1 DEF Inv, RestoreFrames
  <2>4. ASSUME state'[n] # "Restoring" PROVE rd'[Restore(n)] = NoReads /\ stage[n] = 0
    <3>1. state[n] # "Restoring"
      BY <2>4, <1>s, Zenon
    <3>2. rd[Restore(n)] = NoReads /\ stage[n] = 0
      BY <3>1, Zenon DEF Inv, RestoreFrames
    <3>3. f # Restore(n)
      BY <3>1, <1>a, FrameFacts
    <3> QED
      BY <3>2, <3>3, <2>1, <1>t, Zenon
  <2> QED
    BY <2>2, <2>3, <2>4, Zenon
<1>6. Ivars'
  BY <1>s, ZenonT(60) DEF Inv, Ivars, IsCurrent, Starts
<1>7. Forced'
  <2> SUFFICES ASSUME NEW n \in Nodes
               PROVE  /\ state'[n] = "Restoring" =>
                           \E g \in Frames : Waits(g, n, "waitRestore", Restore(n))'
                      /\ state'[n] = "Computing" =>
                           \E g \in Frames : Waits(g, n, "waitCompute", Compute(n))'
                      /\ \A e \in Nodes : rd'[Root(n)][e] # "off" => e = n /\ top = "running"
    BY Zenon DEF Forced
  <2>d. Waits(f, d, pc, h)'
    <3>1. Len(stack'[f]) < Len(stack'[h])
      BY <1>s, <1>t, <1>f
    <3>2. rd'[f][d] = pc
      BY <1>s, ZenonT(60)
    <3>3. /\ f[1] = "restore" => state'[f[2]] = "Restoring"
          /\ f[1] = "compute" => state'[f[2]] = "Computing"
      BY <1>s, <1>a, Zenon
    <3> QED
      BY <3>1, <3>2, <3>3, Zenon DEF Waits
  <2>k. ASSUME NEW g \in Frames, NEW w \in {"waitRestore", "waitCompute"}, NEW k \in Frames,
               Waits(g, n, w, k), k # h, n # d
        PROVE  Waits(g, n, w, k)'
    <3>1. g # h
      BY <2>k, FrameFacts DEF Waits, Starts
    <3>2. rd'[g][n] = w /\ Len(stack'[g]) < Len(stack'[k])
      BY <2>k, <3>1, <1>s DEF Waits
    <3>3. g[2] \in Nodes
      BY FrameFacts, Zenon
    <3> QED
      BY <2>k, <3>2, <3>3, <1>s, Zenon DEF Waits
  <2>1. ASSUME state'[n] = "Restoring"
        PROVE  \E g \in Frames : Waits(g, n, "waitRestore", Restore(n))'
    <3>1. CASE n = d
      BY <3>1, <2>1, <2>d, <1>s, Zenon DEF Starts
    <3>2. CASE n # d
      <4>1. PICK g \in Frames : Waits(g, n, "waitRestore", Restore(n))
        BY <2>1, <3>2, <1>s, Zenon DEF Inv, Forced
      <4>2. Restore(n) # h
        BY <3>2, FrameFacts DEF Starts
      <4> QED
        BY <4>1, <4>2, <2>k, <3>2, FrameFacts, Zenon
    <3> QED
      BY <3>1, <3>2, Zenon
  <2>2. ASSUME state'[n] = "Computing"
        PROVE  \E g \in Frames : Waits(g, n, "waitCompute", Compute(n))'
    <3>1. CASE n = d
      BY <3>1, <2>2, <2>d, <1>s, Zenon DEF Starts
    <3>2. CASE n # d
      <4>1. PICK g \in Frames : Waits(g, n, "waitCompute", Compute(n))
        BY <2>2, <3>2, <1>s, Zenon DEF Inv, Forced
      <4>2. Compute(n) # h
        BY <3>2, FrameFacts DEF Starts
      <4> QED
        BY <4>1, <4>2, <2>k, <3>2, FrameFacts, Zenon
    <3> QED
      BY <3>1, <3>2, Zenon
  <2>3. \A e \in Nodes : rd'[Root(n)][e] # "off" => e = n /\ top = "running"
    BY <1>s, FrameFacts DEF Inv, Forced
  <2> QED
    BY <2>1, <2>2, <2>3, Zenon
<1>8. QuietBetweenRuns'
  BY <1>a, FrameFacts, Zenon DEF Inv, QuietBetweenRuns, Forced
<1> QED
  BY <1>1, <1>2, <1>3, <1>4, <1>5, <1>6, <1>7, <1>8, Zenon DEF Inv

(* Start_restoring and Start_computing preserve the invariant.                *)
LEMMA StartPreserves ==
    ASSUME Inv, NEW f \in Frames, NEW d \in Nodes, StartRestoring(f, d) \/ StartComputing(f, d)
    PROVE  Inv'
<1>1. CASE StartRestoring(f, d)
  <2>1. Starts(Restore(d), d, "Restoring", "waitRestore") /\ Restore(d) \in Frames
    BY <1>1, FrameFacts, Zenon DEF StartRestoring, Starts
  <2> QED
    BY <1>1, <2>1, FrameStarts, Zenon DEF StartRestoring
<1>2. CASE StartComputing(f, d)
  <2>1. Starts(Compute(d), d, "Computing", "waitCompute") /\ Compute(d) \in Frames
    BY FrameFacts, Zenon DEF Starts
  <2>2. ~IsCurrent(d)
    BY <1>2, Zenon DEF StartComputing, Inv, Currency
  <2>3. rd[f][d] \in {"start", "waitRestore"}
    BY <1>2, Zenon DEF StartComputing, MustCompute, NotRestored
  <2> QED
    BY <1>2, <2>1, <2>2, <2>3, FrameStarts, Zenon DEF StartComputing
<1> QED
  BY <1>1, <1>2, Zenon

(* A frame whose section is answered waits for nobody.                        *)
LEMMA WaitsForNobody ==
    ASSUME Inv, NEW n \in Nodes, NEW d \in Nodes
    PROVE  /\ Restoring(n) => rd[Restore(n)][d] \notin {"waitRestore", "waitCompute"}
           /\ Computing(n) => rd[Compute(n)][d] \notin {"waitRestore", "waitCompute"}
<1>1. rd[Restore(n)][d] # "off" => d \in Section(n)
  BY Zenon DEF Inv, RestoreFrames, Section
<1>2. rd[Compute(n)][d] # "off" => d \in section[n]
  BY Zenon DEF Inv, ComputeFrames
<1> QED
  BY <1>1, <1>2, Zenon DEF Restoring, Computing, Answered, Answers

(* The next section of a frame: its fibers are replaced by new ones.          *)
LEMMA StillForced ==
    ASSUME Inv, NEW f \in Frames, NEW ds \in SUBSET Nodes,
           f[1] # "root",
           \A d \in Nodes : rd[f][d] \notin {"waitRestore", "waitCompute"},
           rd' = [rd EXCEPT ![f] = Spawn(ds)],
           UNCHANGED <<state, stack, top>>
    PROVE  Forced'
<1>t. rd \in [Frames -> [Nodes -> Pcs]]
  BY Zenon DEF Inv, TypeOK
<1>s. \A g \in Frames : g # f => rd'[g] = rd[g]
  BY <1>t, Zenon
<1> SUFFICES ASSUME NEW n \in Nodes
             PROVE  /\ state[n] = "Restoring" =>
                         \E g \in Frames : Waits(g, n, "waitRestore", Restore(n))'
                    /\ state[n] = "Computing" =>
                         \E g \in Frames : Waits(g, n, "waitCompute", Compute(n))'
                    /\ \A e \in Nodes : rd'[Root(n)][e] # "off" => e = n /\ top = "running"
  BY Zenon DEF Forced
<1>1. ASSUME NEW g \in Frames, NEW w \in {"waitRestore", "waitCompute"}, NEW k \in Frames,
             Waits(g, n, w, k)
      PROVE  Waits(g, n, w, k)'
  <2>1. g # f
    BY <1>1, Zenon DEF Waits
  <2> QED
    BY <1>1, <2>1, <1>s, Zenon DEF Waits
<1>2. \A e \in Nodes : rd'[Root(n)][e] # "off" => e = n /\ top = "running"
  BY <1>s, FrameFacts DEF Inv, Forced
<1> QED
  BY <1>1, <1>2, FrameFacts, Zenon DEF Inv, Forced

(* Every section that a restoration has checked is up to date and older.      *)
LEMMA CheckedSections ==
    ASSUME Inv, NEW n \in Nodes, Restoring(n), Continues(n)
    PROVE  \A i \in 1 .. stage[n] : \A d \in deps[n][i] : OlderThan(d, n)
<1>t. stage[n] \in Nat /\ deps[n] \in Seq(SUBSET Nodes) /\ stage[n] <= Len(deps[n])
  BY Zenon DEF Inv, TypeOK, RestoreFrames
<1> SUFFICES ASSUME NEW i \in 1 .. stage[n], NEW d \in deps[n][i]
             PROVE  OlderThan(d, n)
  BY Zenon
<1>1. CASE i = stage[n]
  <2>1. d \in Section(n) /\ d \in Nodes
    BY <1>1, <1>t DEF Section
  <2>2. rd[Restore(n)][d] \in Answers /\ rd[Restore(n)][d] \notin {"changed", "cancelled"}
    BY <2>1, Zenon DEF Restoring, Answered, Continues, Combined
  <2> QED
    BY <2>1, <2>2, Zenon DEF Answers, Inv, RestoreFrames
<1>2. CASE i # stage[n]
  <2>1. i \in 1 .. stage[n] - 1
    BY <1>2, <1>t
  <2> QED
    BY <2>1, Zenon DEF Inv, RestoreFrames
<1> QED
  BY <1>1, <1>2, Zenon

(* The values that a computation has seen so far.                             *)
LEMMA ViewFacts ==
    ASSUME Inv, NEW n \in Nodes
    PROVE  /\ View(n) \in Views
           /\ Collected(n) \in Seq(SUBSET Nodes)
           /\ DOMAIN View(n) = SectionsOf(Collected(n))
           /\ \A d \in DOMAIN View(n) :
                d \in Nodes /\ IsCurrent(d) /\ View(n)[d] = Observed(value[d])
<1>t. /\ seen[n] \in Views /\ sofar[n] \in Seq(SUBSET Nodes) /\ section[n] \in SUBSET Nodes
      /\ value \in [Nodes -> Value] /\ validatedAt \in [Nodes -> Nat \union {Invalid}]
      /\ run \in Nat
  BY SMTT(60) DEF Inv, TypeOK
<1>g. Got(n) \in SUBSET Nodes /\ \A d \in Got(n) : IsCurrent(d)
  BY <1>t, Zenon DEF Got, Inv, ComputeFrames
<1>s. /\ DOMAIN seen[n] \in SUBSET Nodes
      /\ \A d \in DOMAIN seen[n] : seen[n][d] \in Observable
  BY <1>t, Zenon DEF Views
<1>o. ASSUME NEW d \in Nodes, IsCurrent(d) PROVE Observed(value[d]) \in Observable
  <2>1. value[d] # Uninitialized
    BY <1>o, <1>t DEF Inv, Currency, IsCurrent, Invalid
  <2>2. value[d] \in Observable \union ({"nonrepro"} \X Exns)
    BY <2>1, <1>t, Zenon DEF Value
  <2>3. CASE value[d] \in Observable
    BY <2>3, Zenon DEF Observed, Observable
  <2>4. CASE value[d] \in {"nonrepro"} \X Exns
    BY <2>4, Zenon DEF Observed, Observable
  <2> QED
    BY <2>2, <2>3, <2>4, Zenon
<1>v. /\ DOMAIN View(n) = DOMAIN seen[n] \union Got(n)
      /\ \A d \in DOMAIN View(n) :
           View(n)[d] = IF d \in Got(n) THEN Observed(value[d]) ELSE seen[n][d]
  BY Zenon DEF View
<1>1. View(n) \in Views
  <2>1. View(n) \in [DOMAIN seen[n] \union Got(n) -> Observable]
    BY <1>g, <1>s, <1>o, Zenon DEF View
  <2> QED
    BY <2>1, <1>g, <1>s, Zenon DEF Views
<1>2. Collected(n) \in Seq(SUBSET Nodes)
  BY <1>t, <1>g DEF Collected
<1>3. DOMAIN View(n) = SectionsOf(Collected(n))
  <2>1. DOMAIN seen[n] = SectionsOf(sofar[n])
    BY Zenon DEF Inv, ComputeFrames
  <2>2. CASE Got(n) = {}
    BY <2>1, <2>2, <1>v, Zenon DEF Collected
  <2>3. CASE Got(n) # {}
    <3> DEFINE s == sofar[n]
               x == Got(n)
    <3>1. s \in Seq(SUBSET Nodes) /\ x \in SUBSET Nodes
      BY <1>t, <1>g, Zenon
    <3>2. SectionsOf(Append(s, x)) = SectionsOf(s) \union x
      <4> HIDE DEF s, x
      <4>1. Len(s) \in Nat /\ Len(Append(s, x)) = Len(s) + 1
        BY <3>1
      <4>2. \A i \in 1 .. Len(s) : Append(s, x)[i] = s[i]
        BY <3>1
      <4>3. Append(s, x)[Len(s) + 1] = x
        BY <3>1
      <4>4. 1 .. Len(s) + 1 = (1 .. Len(s)) \union {Len(s) + 1}
        BY <4>1, SMTT(60)
      <4> QED
        BY <4>1, <4>2, <4>3, <4>4, Zenon DEF SectionsOf
    <3> QED
      BY <2>1, <2>3, <3>2, <1>v, Zenon DEF Collected
  <2> QED
    BY <2>2, <2>3, Zenon
<1>4. \A d \in DOMAIN View(n) :
        d \in Nodes /\ IsCurrent(d) /\ View(n)[d] = Observed(value[d])
  BY <1>v, <1>g, <1>s, Zenon DEF Inv, ComputeFrames
<1> QED
  BY <1>1, <1>2, <1>3, <1>4, Zenon

(* A computation that read its section goes on to its next reads.             *)
LEMMA ComputeNextSectionPreserves ==
    ASSUME Inv, NEW n \in Nodes, ComputeNextSection(n)
    PROVE  Inv'
<1> USE DEF worldVars, nodeVars, frameVars, cycleVars
<1> DEFINE next == NextReads(n)
<1>t. /\ rd \in [Frames -> [Nodes -> Pcs]]
      /\ section \in [Nodes -> SUBSET Nodes]
      /\ seen \in [Nodes -> Views]
      /\ sofar \in [Nodes -> Seq(SUBSET Nodes)]
  BY Zenon DEF Inv, TypeOK
<1>n. /\ next \in SUBSET Nodes
      /\ Spawn(next) \in [Nodes -> Pcs]
      /\ \A d \in Nodes : Spawn(next)[d] = IF d \in next THEN "start" ELSE "off"
  <2>1. next \in SUBSET Nodes
    BY ViewFacts, MemoAssumption, Zenon DEF NextReads
  <2> QED
    BY <2>1, Zenon DEF Spawn, Pcs
<1>s. /\ \A g \in Frames : rd'[g] = IF g = Compute(n) THEN Spawn(next) ELSE rd[g]
      /\ \A m \in Nodes : section'[m] = IF m = n THEN next ELSE section[m]
      /\ \A m \in Nodes : seen'[m] = IF m = n THEN View(n) ELSE seen[m]
      /\ \A m \in Nodes : sofar'[m] = IF m = n THEN Collected(n) ELSE sofar[m]
  BY <1>t, Zenon DEF ComputeNextSection
<1>u. /\ state[n] = "Computing"
      /\ UNCHANGED <<worldVars, nodeVars, res, stack, stage, cycleVars, nonReproAt>>
  BY Zenon DEF ComputeNextSection, Computing
<1>1. TypeOK'
  <2>1. PICK sp \in [Nodes -> Pcs] : rd' = [rd EXCEPT ![Compute(n)] = sp]
    BY <1>n, Zenon DEF ComputeNextSection
  <2>2. rd' \in [Frames -> [Nodes -> Pcs]]
    BY <2>1, <1>t, Zenon
  <2>3. section' \in [Nodes -> SUBSET Nodes]
    BY <1>t, <1>n, Zenon DEF ComputeNextSection
  <2>4. seen' \in [Nodes -> Views] /\ sofar' \in [Nodes -> Seq(SUBSET Nodes)]
    BY <1>t, ViewFacts, Zenon DEF ComputeNextSection
  <2> QED
    BY <1>u, <2>2, <2>3, <2>4, Zenon DEF Inv, TypeOK
<1>2. Currency'
  BY <1>u, SMTT(60) DEF Inv, Currency, IsCurrent, Deps
<1>3. Stored'
  BY <1>u, SMTT(60) DEF Inv, Stored, Restorable, Deps
<1>4. ComputeFrames'
  <2> SUFFICES ASSUME NEW m \in Nodes
               PROVE  /\ DOMAIN seen'[m] = SectionsOf(sofar'[m])
                      /\ \A d \in DOMAIN seen'[m] : IsCurrent(d) /\ seen'[m][d] = Observed(value[d])
                      /\ \A d \in Nodes : rd'[Compute(m)][d] = "ok" => IsCurrent(d)
                      /\ \A d \in Nodes : rd'[Compute(m)][d] # "off" => d \in section'[m]
                      /\ state[m] # "Computing" =>
                           rd'[Compute(m)] = NoReads /\ seen'[m] = Nothing /\ sofar'[m] = <<>> /\ section'[m] = {}
    BY <1>u, Zenon DEF ComputeFrames, IsCurrent
  <2>1. CASE m # n
    BY <2>1, <1>s, FrameFacts, SMTT(60) DEF Inv, ComputeFrames
  <2>2. CASE m = n
    <3>1. rd'[Compute(n)] = Spawn(next)
      BY <1>s, FrameFacts, Zenon
    <3>2. seen'[n] = View(n) /\ sofar'[n] = Collected(n) /\ section'[n] = next
      BY <1>s, Zenon
    <3>3. \A d \in Nodes : rd'[Compute(n)][d] # "ok" /\ (rd'[Compute(n)][d] # "off" => d \in next)
      BY <3>1, <1>n, Zenon
    <3> QED
      BY <2>2, <3>2, <3>3, <1>u, ViewFacts, Zenon
  <2> QED
    BY <2>1, <2>2, Zenon
<1>5. RestoreFrames'
  BY <1>u, <1>s, FrameFacts, SMTT(60) DEF Inv, RestoreFrames, OlderThan, IsCurrent
<1>6. Ivars'
  BY <1>u, Zenon DEF Inv, Ivars, IsCurrent
<1>7. Forced'
  <2>1. \A d \in Nodes : rd[Compute(n)][d] \notin {"waitRestore", "waitCompute"}
    BY WaitsForNobody, Zenon DEF ComputeNextSection
  <2>2. Compute(n) \in Frames /\ Compute(n)[1] # "root"
    BY FrameFacts, Zenon
  <2>3. rd' = [rd EXCEPT ![Compute(n)] = Spawn(next)] /\ UNCHANGED <<state, stack, top>>
    BY Zenon DEF ComputeNextSection
  <2> HIDE DEF next
  <2> QED
    BY <2>1, <2>2, <2>3, <1>n, StillForced, Zenon
<1>8. QuietBetweenRuns'
  BY <1>u, Zenon DEF Inv, QuietBetweenRuns
<1> QED
  BY <1>1, <1>2, <1>3, <1>4, <1>5, <1>6, <1>7, <1>8, Zenon DEF Inv

(* A restoration whose section is checked goes on to the next one.            *)
LEMMA RestoreNextSectionPreserves ==
    ASSUME Inv, NEW n \in Nodes, RestoreNextSection(n)
    PROVE  Inv'
<1> USE DEF worldVars, nodeVars, frameVars, cycleVars
<1> DEFINE next == deps[n][stage[n] + 1]
<1>t. /\ rd \in [Frames -> [Nodes -> Pcs]]
      /\ stage \in [Nodes -> Nat]
      /\ deps[n] \in Seq(SUBSET Nodes)
  BY Zenon DEF Inv, TypeOK
<1>n. /\ next \in SUBSET Nodes
      /\ Spawn(next) \in [Nodes -> Pcs]
      /\ \A d \in Nodes : Spawn(next)[d] = IF d \in next THEN "start" ELSE "off"
  <2>1. stage[n] + 1 \in 1 .. Len(deps[n])
    BY <1>t DEF RestoreNextSection
  <2> QED
    BY <2>1, <1>t DEF Spawn, Pcs
<1>s. /\ \A g \in Frames : rd'[g] = IF g = Restore(n) THEN Spawn(next) ELSE rd[g]
      /\ \A m \in Nodes : stage'[m] = IF m = n THEN stage[n] + 1 ELSE stage[m]
  BY <1>t, Zenon DEF RestoreNextSection
<1>1. TypeOK'
  <2>1. PICK sp \in [Nodes -> Pcs] : rd' = [rd EXCEPT ![Restore(n)] = sp]
    BY <1>n, Zenon DEF RestoreNextSection
  <2>2. rd' \in [Frames -> [Nodes -> Pcs]]
    BY <2>1, <1>t, Zenon
  <2>3. stage' \in [Nodes -> Nat]
    BY <1>t, SMTT(60) DEF RestoreNextSection
  <2> QED
    BY <2>2, <2>3, Zenon DEF Inv, TypeOK, RestoreNextSection
<1>2. Currency'
  BY DEF Inv, Currency, IsCurrent, Deps, RestoreNextSection
<1>3. Stored'
  BY SMTT(60) DEF Inv, Stored, Restorable, Deps, RestoreNextSection
<1>4. ComputeFrames'
  <2>1. \A m \in Nodes : rd'[Compute(m)] = rd[Compute(m)]
    BY <1>s, FrameFacts, ZenonT(60)
  <2>2. /\ ComputeFrames
        /\ UNCHANGED <<run, value, validatedAt, state, seen, sofar, section>>
    BY Zenon DEF Inv, RestoreNextSection
  <2> QED
    BY <2>1, <2>2, SMTT(60) DEF ComputeFrames, IsCurrent
<1>5. RestoreFrames'
  <2> SUFFICES ASSUME NEW m \in Nodes
               PROVE  /\ \A d \in Nodes : rd'[Restore(m)][d] \in {"ok", "unchanged"} => OlderThan(d, m)
                      /\ \A d \in Nodes : rd'[Restore(m)][d] # "off" => stage'[m] # 0 /\ d \in deps[m][stage'[m]]
                      /\ stage'[m] <= Len(deps[m])
                      /\ \A i \in 1 .. stage'[m] - 1 : \A d \in deps[m][i] : OlderThan(d, m)
                      /\ state[m] # "Restoring" => rd'[Restore(m)] = NoReads /\ stage'[m] = 0
    BY ZenonT(60) DEF RestoreFrames, OlderThan, IsCurrent, RestoreNextSection
  <2>1. CASE m # n
    <3>1. rd'[Restore(m)] = rd[Restore(m)] /\ stage'[m] = stage[m]
      BY <2>1, <1>s, FrameFacts
    <3> QED
      BY <3>1, SMTT(60) DEF Inv, RestoreFrames
  <2>2. CASE m = n
    <3>1. rd'[Restore(n)] = Spawn(next) /\ stage'[n] = stage[n] + 1
      BY <1>s, FrameFacts, Zenon
    <3>2. \A d \in Nodes : rd'[Restore(n)][d] \notin {"ok", "unchanged"}
      BY <3>1, <1>n, Zenon
    <3>3. \A d \in Nodes : rd'[Restore(n)][d] # "off" => stage'[n] # 0 /\ d \in deps[n][stage'[n]]
      BY <3>1, <1>n, <1>t
    <3>4. stage'[n] <= Len(deps[n])
      BY <3>1, <1>t DEF RestoreNextSection
    <3>5. ASSUME NEW i \in 1 .. stage'[n] - 1, NEW d \in deps[n][i] PROVE OlderThan(d, n)
      <4>1. i \in 1 .. stage[n]
        BY <3>1, <1>t
      <4> QED
        BY <4>1, CheckedSections, Zenon DEF RestoreNextSection
    <3>6. state[n] = "Restoring"
      BY Zenon DEF RestoreNextSection, Restoring
    <3> QED
      BY <2>2, <3>2, <3>3, <3>4, <3>5, <3>6, Zenon
  <2> QED
    BY <2>1, <2>2, Zenon
<1>6. Ivars'
  BY Zenon DEF Inv, Ivars, IsCurrent, RestoreNextSection
<1>7. Forced'
  <2>1. \A d \in Nodes : rd[Restore(n)][d] \notin {"waitRestore", "waitCompute"}
    BY WaitsForNobody, Zenon DEF RestoreNextSection
  <2>2. Restore(n) \in Frames /\ Restore(n)[1] # "root"
    BY FrameFacts, Zenon
  <2>3. rd' = [rd EXCEPT ![Restore(n)] = Spawn(next)] /\ UNCHANGED <<state, stack, top>>
    BY Zenon DEF RestoreNextSection
  <2> HIDE DEF next
  <2> QED
    BY <2>1, <2>2, <2>3, <1>n, StillForced, Zenon
<1>8. QuietBetweenRuns'
  BY Zenon DEF Inv, QuietBetweenRuns, RestoreNextSection
<1> QED
  BY <1>1, <1>2, <1>3, <1>4, <1>5, <1>6, <1>7, <1>8, Zenon DEF Inv

-----------------------------------------------------------------------------
(* A restoration ends: its node is unchanged, must be computed, or gets    *)
(* the error of a cycle.  Also what a frame that ends, and a node that     *)
(* gets a new value, leave alone.                                          *)

(* A frame ends: the fibers that wait for the other frames stay.              *)
LEMMA FrameEnds ==
    ASSUME Inv, NEW n \in Nodes, NEW h \in Frames, NEW st \in {"Cached", "Out_of_date"},
           \/ h = Restore(n) /\ Restoring(n)
           \/ h = Compute(n) /\ Computing(n),
           state' = [state EXCEPT ![n] = st],
           rd' = [rd EXCEPT ![h] = NoReads],
           stack' = [stack EXCEPT ![h] = <<>>],
           top' = top
    PROVE  Forced' /\ QuietBetweenRuns'
<1>t. /\ rd \in [Frames -> [Nodes -> Pcs]]
      /\ state \in [Nodes -> States]
      /\ stack \in [Frames -> Seq(Frames)]
  BY Zenon DEF Inv, TypeOK
<1>s. /\ \A g \in Frames : rd'[g] = IF g = h THEN NoReads ELSE rd[g]
      /\ \A m \in Nodes : state'[m] = IF m = n THEN st ELSE state[m]
      /\ \A g \in Frames : g # h => stack'[g] = stack[g]
  BY <1>t, Zenon
<1>h. /\ h = Restore(n) => state[n] = "Restoring"
      /\ h = Compute(n) => state[n] = "Computing"
      /\ h = Restore(n) \/ h = Compute(n)
      /\ \A d \in Nodes : rd[h][d] \notin {"waitRestore", "waitCompute"}
  BY FrameFacts, WaitsForNobody, ZenonT(60) DEF Restoring, Computing
<1>1. Forced'
  <2> SUFFICES ASSUME NEW m \in Nodes
               PROVE  /\ state'[m] = "Restoring" =>
                           \E g \in Frames : Waits(g, m, "waitRestore", Restore(m))'
                      /\ state'[m] = "Computing" =>
                           \E g \in Frames : Waits(g, m, "waitCompute", Compute(m))'
                      /\ \A e \in Nodes : rd'[Root(m)][e] # "off" => e = m /\ top = "running"
    BY Zenon DEF Forced
  <2>1. ASSUME NEW g \in Frames, NEW w \in {"waitRestore", "waitCompute"}, NEW k \in Frames,
               Waits(g, m, w, k), k # h
        PROVE  Waits(g, m, w, k)'
    <3>1. g # h
      BY <2>1, <1>h, Zenon DEF Waits
    <3>2. g[2] \in Nodes
      BY FrameFacts, Zenon
    <3>3. /\ g[1] = "restore" => state'[g[2]] = "Restoring"
          /\ g[1] = "compute" => state'[g[2]] = "Computing"
      BY <2>1, <3>1, <3>2, <1>h, <1>s, FrameFacts DEF Waits
    <3> QED
      BY <2>1, <3>1, <3>3, <1>s, Zenon DEF Waits
  <2>2. state'[m] \in {"Restoring", "Computing"} =>
          state[m] = state'[m] /\ Restore(m) # h /\ Compute(m) # h
    BY <1>s, <1>h, FrameFacts
  <2>3. \A e \in Nodes : rd'[Root(m)][e] # "off" => e = m /\ top = "running"
    BY <1>s, <1>h, FrameFacts DEF Inv, Forced
  <2> QED
    BY <2>1, <2>2, <2>3, FrameFacts, ZenonT(60) DEF Inv, Forced
<1>2. QuietBetweenRuns'
  BY <1>s, Zenon DEF Inv, QuietBetweenRuns
<1> QED
  BY <1>1, <1>2, Zenon

(* The fields of the frames when restoration of n ends.                       *)
LEMMA EndRestoreFacts ==
    ASSUME Inv, NEW n \in Nodes, NEW outcome \in Outcomes, EndRestore(n, outcome)
    PROVE  /\ rd' \in [Frames -> [Nodes -> Pcs]]
           /\ stack' \in [Frames -> Seq(Frames)]
           /\ stage' \in [Nodes -> Nat]
           /\ res' \in [Frames -> Outcomes \union {"none"}]
           /\ \A g \in Frames : rd'[g] = IF g = Restore(n) THEN NoReads ELSE rd[g]
           /\ \A g \in Frames : res'[g] = IF g = Restore(n) THEN outcome ELSE res[g]
           /\ \A m \in Nodes : stage'[m] = IF m = n THEN 0 ELSE stage[m]
<1>t. /\ rd \in [Frames -> [Nodes -> Pcs]]
      /\ stack \in [Frames -> Seq(Frames)]
      /\ stage \in [Nodes -> Nat]
      /\ res \in [Frames -> Outcomes \union {"none"}]
  BY Zenon DEF Inv, TypeOK
<1>1. NoReads \in [Nodes -> Pcs]
  BY Zenon DEF NoReads, Pcs
<1>2. rd' \in [Frames -> [Nodes -> Pcs]]
  <2>1. PICK none \in [Nodes -> Pcs] : rd' = [rd EXCEPT ![Restore(n)] = none]
    BY <1>1, Zenon DEF EndRestore
  <2> QED
    BY <2>1, <1>t, Zenon
<1>3. /\ stack' \in [Frames -> Seq(Frames)]
      /\ stage' \in [Nodes -> Nat]
      /\ res' \in [Frames -> Outcomes \union {"none"}]
  <2>1. <<>> \in Seq(Frames) /\ 0 \in Nat
    OBVIOUS
  <2>2. stack' \in [Frames -> Seq(Frames)]
    BY <1>t, <2>1, Zenon DEF EndRestore
  <2>3. stage' \in [Nodes -> Nat]
    BY <1>t, <2>1, Zenon DEF EndRestore
  <2>4. res' \in [Frames -> Outcomes \union {"none"}]
    BY <1>t, Zenon DEF EndRestore
  <2> QED
    BY <2>2, <2>3, <2>4, Zenon
<1>4. /\ \A g \in Frames : rd'[g] = IF g = Restore(n) THEN NoReads ELSE rd[g]
      /\ \A g \in Frames : res'[g] = IF g = Restore(n) THEN outcome ELSE res[g]
      /\ \A m \in Nodes : stage'[m] = IF m = n THEN 0 ELSE stage[m]
  BY <1>t, Zenon DEF EndRestore
<1> QED
  BY <1>2, <1>3, <1>4, Zenon

(* A restoration that found every dep unchanged validates the node.           *)
LEMMA RestoreUnchangedPreserves ==
    ASSUME Inv, NEW n \in Nodes, RestoreUnchanged(n)
    PROVE  Inv'
<1> USE DEF worldVars, nodeVars, frameVars, cycleVars
<1>u. /\ Restoring(n) /\ Continues(n) /\ EndRestore(n, "unchanged")
      /\ state[n] = "Restoring"
      /\ validatedAt' = [validatedAt EXCEPT ![n] = run]
      /\ state' = [state EXCEPT ![n] = "Cached"]
      /\ UNCHANGED <<worldVars, value, deps, changedAt, saw, section, seen, sofar, cycleVars,
                     nonReproAt>>
  BY Zenon DEF RestoreUnchanged, EndRestore, Restoring
<1>t. /\ validatedAt \in [Nodes -> Nat \union {Invalid}]
      /\ changedAt \in [Nodes -> Nat \union {Invalid}]
      /\ state \in [Nodes -> States] /\ run \in Nat
      /\ deps \in [Nodes -> Seq(SUBSET Nodes)]
  BY SMTT(60) DEF Inv, TypeOK
<1>e. /\ rd' \in [Frames -> [Nodes -> Pcs]]
      /\ stack' \in [Frames -> Seq(Frames)]
      /\ stage' \in [Nodes -> Nat]
      /\ res' \in [Frames -> Outcomes \union {"none"}]
      /\ \A g \in Frames : rd'[g] = IF g = Restore(n) THEN NoReads ELSE rd[g]
      /\ \A g \in Frames : res'[g] = IF g = Restore(n) THEN "unchanged" ELSE res[g]
      /\ \A m \in Nodes : stage'[m] = IF m = n THEN 0 ELSE stage[m]
  <2>1. "unchanged" \in Outcomes
    BY Zenon DEF Outcomes
  <2> QED
    BY <1>u, <2>1, EndRestoreFacts, Zenon
<1>s. /\ \A m \in Nodes : validatedAt'[m] = IF m = n THEN run ELSE validatedAt[m]
      /\ \A m \in Nodes : state'[m] = IF m = n THEN "Cached" ELSE state[m]
      /\ \A m \in Nodes : Deps(m)' = Deps(m) /\ Deps(m) \subseteq Nodes
  BY <1>t, <1>u DEF Deps
<1>c. /\ \A m \in Nodes : IsCurrent(m) => IsCurrent(m)'
      /\ \A m \in Nodes \ {n} : IsCurrent(m)' => IsCurrent(m)
      /\ IsCurrent(n)'
  BY <1>s, <1>u, Zenon DEF IsCurrent
<1>d. \A d \in Deps(n) : OlderThan(d, n)
  <2>1. stage[n] = Len(deps[n])
    BY Zenon DEF RestoreUnchanged
  <2> QED
    BY <1>u, <2>1, CheckedSections, Zenon DEF Deps
<1>o. \A m \in Nodes : /\ changedAt[m] \in Int /\ validatedAt[m] \in Int /\ run \in Int
                       /\ changedAt[m] <= validatedAt[m] /\ validatedAt[m] <= run
  BY <1>t, SMTT(60) DEF Inv, Currency, Invalid
<1>1. TypeOK'
  <2>1. validatedAt' \in [Nodes -> Nat \union {Invalid}] /\ state' \in [Nodes -> States]
    BY <1>t, <1>u, Zenon DEF States
  <2> QED
    BY <1>u, <1>e, <2>1, Zenon DEF Inv, TypeOK
<1>2. Currency'
  <2> SUFFICES ASSUME NEW m \in Nodes
               PROVE  /\ IsCurrent(m)' => state'[m] = "Cached" /\ \A d \in Deps(m)' : IsCurrent(d)'
                      /\ changedAt[m] <= validatedAt'[m] /\ validatedAt'[m] <= run
                      /\ value[m] = Uninitialized => validatedAt'[m] = Invalid
    BY <1>u, Zenon DEF Currency
  <2>1. CASE m = n
    <3>1. value[n] # Uninitialized
      BY <1>u, Zenon DEF Continues, Restorable
    <3>2. \A d \in Deps(n)' : IsCurrent(d)'
      BY <1>s, <1>d, <1>c, Zenon DEF OlderThan
    <3>3. changedAt[n] <= run
      BY <1>o
    <3> QED
      BY <2>1, <3>1, <3>2, <3>3, <1>s, <1>o
  <2>2. CASE m # n
    <3>1. IsCurrent(m)' => state[m] = "Cached" /\ \A d \in Deps(m) : IsCurrent(d)
      BY <2>2, <1>c, Zenon DEF Inv, Currency
    <3>2. value[m] = Uninitialized => validatedAt[m] = Invalid
      BY Zenon DEF Inv, Currency
    <3> QED
      BY <2>2, <3>1, <3>2, <1>c, <1>s, <1>o, Zenon
  <2> QED
    BY <2>1, <2>2, Zenon
<1>3. Stored'
  <2> SUFFICES ASSUME NEW m \in Nodes
               PROVE  \A d \in Deps(m) :
                        changedAt[d] <= validatedAt'[m] => saw[m][d] = Observed(value[d])
    <3>1. \A k \in Nodes : Restorable(k)' <=> Restorable(k)
      BY <1>u, Zenon DEF Restorable
    <3>2. value' = value /\ changedAt' = changedAt /\ saw' = saw
      BY <1>u, Zenon
    <3> QED
      BY <1>s, <3>1, <3>2, Zenon DEF Inv, Stored
  <2>1. CASE m = n
    BY <2>1, <1>d, Zenon DEF OlderThan, Inv, Stored
  <2>2. CASE m # n
    BY <2>2, <1>s, Zenon DEF Inv, Stored
  <2> QED
    BY <2>1, <2>2, Zenon
<1>4. ComputeFrames'
  <2> SUFFICES ASSUME NEW m \in Nodes
               PROVE  /\ \A d \in DOMAIN seen[m] : IsCurrent(d)'
                      /\ \A d \in Nodes : rd'[Compute(m)][d] = "ok" => IsCurrent(d)'
                      /\ \A d \in Nodes : rd'[Compute(m)][d] # "off" => d \in section[m]
                      /\ state'[m] # "Computing" =>
                           rd'[Compute(m)] = NoReads /\ seen[m] = Nothing /\ sofar[m] = <<>> /\ section[m] = {}
    BY <1>u, Zenon DEF Inv, ComputeFrames
  <2>1. rd'[Compute(m)] = rd[Compute(m)]
    BY <1>e, FramesDiffer, Zenon
  <2>2. \A d \in DOMAIN seen[m] : d \in Nodes
    BY SeenNodes, Zenon
  <2>3. state'[m] # "Computing" => state[m] # "Computing"
    BY <1>s, <1>u, Zenon
  <2> QED
    BY <2>1, <2>2, <2>3, <1>c, SMTT(60) DEF Inv, ComputeFrames
<1>5. RestoreFrames'
  <2> SUFFICES ASSUME NEW m \in Nodes
               PROVE  /\ \A d \in Nodes : rd'[Restore(m)][d] \in {"ok", "unchanged"} => OlderThan(d, m)'
                      /\ \A d \in Nodes : rd'[Restore(m)][d] # "off" => stage'[m] # 0 /\ d \in deps[m][stage'[m]]
                      /\ stage'[m] <= Len(deps[m])
                      /\ \A i \in 1 .. stage'[m] - 1 : \A d \in deps[m][i] : OlderThan(d, m)'
                      /\ state'[m] # "Restoring" => rd'[Restore(m)] = NoReads /\ stage'[m] = 0
    BY <1>u, Zenon DEF RestoreFrames
  <2>1. CASE m = n
    <3>1. rd'[Restore(n)] = NoReads /\ stage'[n] = 0
      BY <1>e, FrameFacts, Zenon
    <3>2. Len(deps[n]) \in Nat
      BY <1>t
    <3> QED
      BY <2>1, <3>1, <3>2, SMTT(60) DEF NoReads
  <2>2. CASE m # n
    <3>0. /\ Restore(m) # Restore(n) /\ Compute(m) # Restore(n)
          /\ Restore(m) \in Frames /\ Compute(m) \in Frames
      BY <2>2, FrameFacts
    <3>1. rd'[Restore(m)] = rd[Restore(m)] /\ stage'[m] = stage[m] /\ state'[m] = state[m]
      BY <2>2, <3>0, <1>e, <1>s, Zenon
    <3>2. \A d \in Nodes : OlderThan(d, m) => OlderThan(d, m)'
      BY <2>2, <1>c, <1>s, <1>u, Zenon DEF OlderThan
    <3>3. \A i \in 1 .. stage[m] - 1 : \A d \in deps[m][i] : d \in Nodes
      <4>1. stage[m] \in Nat /\ deps[m] \in Seq(SUBSET Nodes) /\ stage[m] <= Len(deps[m])
        BY Zenon DEF Inv, TypeOK, RestoreFrames
      <4> QED
        BY <4>1, SMTT(60)
    <3> QED
      BY <3>1, <3>2, <3>3 DEF Inv, RestoreFrames
  <2> QED
    BY <2>1, <2>2, Zenon
<1>6. Ivars'
  <2> SUFFICES ASSUME NEW m \in Nodes
               PROVE  /\ res'[Compute(m)] # "none" => IsCurrent(m)'
                      /\ res'[Restore(m)] # "none" =>
                           \/ IsCurrent(m)'
                           \/ res'[Restore(m)] = "changed" /\ state'[m] \in {"Out_of_date", "Computing"}
    BY Zenon DEF Ivars
  <2>1. CASE m = n
    BY <2>1, <1>c, Zenon
  <2>2. CASE m # n
    <3>0. /\ Restore(m) # Restore(n) /\ Compute(m) # Restore(n)
          /\ Restore(m) \in Frames /\ Compute(m) \in Frames
      BY <2>2, FrameFacts
    <3>1. res'[Compute(m)] = res[Compute(m)] /\ res'[Restore(m)] = res[Restore(m)] /\ state'[m] = state[m]
      BY <2>2, <3>0, <1>e, <1>s, Zenon
    <3> QED
      BY <3>1, <1>c, Zenon DEF Inv, Ivars
  <2> QED
    BY <2>1, <2>2, Zenon
<1>7. Forced' /\ QuietBetweenRuns'
  <2>1. PICK st \in {"Cached"} : state' = [state EXCEPT ![n] = st]
    BY <1>u, Zenon
  <2>2. Restore(n) \in Frames
    BY FrameFacts, Zenon
  <2>3. rd' = [rd EXCEPT ![Restore(n)] = NoReads] /\ stack' = [stack EXCEPT ![Restore(n)] = <<>>]
    BY <1>u, Zenon DEF EndRestore
  <2> QED
    BY <1>u, <2>1, <2>2, <2>3, FrameEnds, Zenon
<1> QED
  BY <1>1, <1>2, <1>3, <1>4, <1>5, <1>6, <1>7, Zenon DEF Inv

(* A restoration that found a changed dep leaves the node out of date.        *)
LEMMA RestoreChangedPreserves ==
    ASSUME Inv, NEW n \in Nodes, RestoreChanged(n)
    PROVE  Inv'
<1> USE DEF worldVars, nodeVars, frameVars, cycleVars
<1>u. /\ Restoring(n) /\ EndRestore(n, "changed")
      /\ state[n] = "Restoring"
      /\ state' = [state EXCEPT ![n] = "Out_of_date"]
      /\ UNCHANGED <<worldVars, value, deps, changedAt, validatedAt, saw, section, seen, sofar,
                     cycleVars, nonReproAt>>
  BY Zenon DEF RestoreChanged, EndRestore, Restoring
<1>t. state \in [Nodes -> States] /\ deps \in [Nodes -> Seq(SUBSET Nodes)]
  BY Zenon DEF Inv, TypeOK
<1>e. /\ rd' \in [Frames -> [Nodes -> Pcs]]
      /\ stack' \in [Frames -> Seq(Frames)]
      /\ stage' \in [Nodes -> Nat]
      /\ res' \in [Frames -> Outcomes \union {"none"}]
      /\ \A g \in Frames : rd'[g] = IF g = Restore(n) THEN NoReads ELSE rd[g]
      /\ \A g \in Frames : res'[g] = IF g = Restore(n) THEN "changed" ELSE res[g]
      /\ \A m \in Nodes : stage'[m] = IF m = n THEN 0 ELSE stage[m]
  <2>1. "changed" \in Outcomes
    BY Zenon DEF Outcomes
  <2> QED
    BY <1>u, <2>1, EndRestoreFacts, Zenon
<1>s. \A m \in Nodes : state'[m] = IF m = n THEN "Out_of_date" ELSE state[m]
  BY <1>t, <1>u, Zenon
<1>1. TypeOK'
  <2>1. state' \in [Nodes -> States]
    BY <1>t, <1>u, Zenon DEF States
  <2> QED
    BY <1>u, <1>e, <2>1, Zenon DEF Inv, TypeOK
<1>2. Currency'
  <2>1. \A m \in Nodes : Deps(m)' = Deps(m)
    BY <1>u, Zenon DEF Deps
  <2>2. \A m : IsCurrent(m)' <=> IsCurrent(m)
    BY <1>u, Zenon DEF IsCurrent
  <2>3. \A m \in Nodes : state[m] = "Cached" => state'[m] = "Cached"
    BY <1>u, <1>s, Zenon
  <2> QED
    BY <1>u, <2>1, <2>2, <2>3, Zenon DEF Inv, Currency
<1>3. Stored'
  BY <1>u, SMTT(60) DEF Inv, Stored, Restorable, Deps
<1>4. ComputeFrames'
  <2> SUFFICES ASSUME NEW m \in Nodes
               PROVE  /\ \A d \in Nodes : rd'[Compute(m)][d] = "ok" => IsCurrent(d)
                      /\ \A d \in Nodes : rd'[Compute(m)][d] # "off" => d \in section[m]
                      /\ state'[m] # "Computing" =>
                           rd'[Compute(m)] = NoReads /\ seen[m] = Nothing /\ sofar[m] = <<>> /\ section[m] = {}
    <3>1. \A d \in Nodes : IsCurrent(d)' <=> IsCurrent(d)
      BY <1>u, Zenon DEF IsCurrent
    <3>2. \A k \in Nodes : \A d \in DOMAIN seen[k] : IsCurrent(d)' <=> IsCurrent(d)
      BY <1>u, Zenon DEF IsCurrent
    <3>3. value' = value /\ section' = section /\ seen' = seen /\ sofar' = sofar
      BY <1>u, Zenon
    <3> QED
      BY <3>1, <3>2, <3>3, Zenon DEF Inv, ComputeFrames
  <2>1. rd'[Compute(m)] = rd[Compute(m)]
    BY <1>e, FramesDiffer, Zenon
  <2>2. state'[m] # "Computing" => state[m] # "Computing"
    BY <1>s, <1>u, Zenon
  <2> QED
    BY <2>1, <2>2, Zenon DEF Inv, ComputeFrames
<1>5. RestoreFrames'
  <2> SUFFICES ASSUME NEW m \in Nodes
               PROVE  /\ \A d \in Nodes : rd'[Restore(m)][d] \in {"ok", "unchanged"} => OlderThan(d, m)
                      /\ \A d \in Nodes : rd'[Restore(m)][d] # "off" => stage'[m] # 0 /\ d \in deps[m][stage'[m]]
                      /\ stage'[m] <= Len(deps[m])
                      /\ \A i \in 1 .. stage'[m] - 1 : \A d \in deps[m][i] : OlderThan(d, m)
                      /\ state'[m] # "Restoring" => rd'[Restore(m)] = NoReads /\ stage'[m] = 0
    BY <1>u DEF RestoreFrames, OlderThan, IsCurrent
  <2>1. CASE m = n
    <3>1. rd'[Restore(n)] = NoReads /\ stage'[n] = 0
      BY <1>e, FrameFacts, Zenon
    <3>2. Len(deps[n]) \in Nat
      BY <1>t, SMTT(60)
    <3> QED
      BY <2>1, <3>1, <3>2, SMTT(60) DEF NoReads
  <2>2. CASE m # n
    <3>0. Restore(m) # Restore(n) /\ Restore(m) \in Frames
      BY <2>2, FrameFacts
    <3>1. rd'[Restore(m)] = rd[Restore(m)] /\ stage'[m] = stage[m] /\ state'[m] = state[m]
      BY <2>2, <3>0, <1>e, <1>s, Zenon
    <3> QED
      BY <3>1, Zenon DEF Inv, RestoreFrames
  <2> QED
    BY <2>1, <2>2, Zenon
<1>6. Ivars'
  <2> SUFFICES ASSUME NEW m \in Nodes
               PROVE  /\ res'[Compute(m)] # "none" => IsCurrent(m)
                      /\ res'[Restore(m)] # "none" =>
                           \/ IsCurrent(m)
                           \/ res'[Restore(m)] = "changed" /\ state'[m] \in {"Out_of_date", "Computing"}
    BY <1>u, Zenon DEF Ivars, IsCurrent
  <2>0. /\ Compute(m) # Restore(n) /\ Compute(m) \in Frames /\ Restore(m) \in Frames
        /\ m # n => Restore(m) # Restore(n)
    BY FrameFacts, SMTT(60)
  <2>1. res'[Compute(m)] # "none" => IsCurrent(m)
    BY <2>0, <1>e, Zenon DEF Inv, Ivars
  <2>2. CASE m = n
    <3>1. res'[Restore(n)] = "changed" /\ state'[n] = "Out_of_date"
      BY <2>0, <2>2, <1>e, <1>s, Zenon
    <3> QED
      BY <2>1, <2>2, <3>1, Zenon
  <2>3. CASE m # n
    <3>1. res'[Restore(m)] = res[Restore(m)] /\ state'[m] = state[m]
      BY <2>0, <2>3, <1>e, <1>s, Zenon
    <3> QED
      BY <2>1, <3>1, Zenon DEF Inv, Ivars
  <2> QED
    BY <2>2, <2>3, Zenon
<1>7. Forced' /\ QuietBetweenRuns'
  <2>1. PICK st \in {"Out_of_date"} : state' = [state EXCEPT ![n] = st]
    BY <1>u, Zenon
  <2>2. Restore(n) \in Frames
    BY FrameFacts, Zenon
  <2>3. rd' = [rd EXCEPT ![Restore(n)] = NoReads] /\ stack' = [stack EXCEPT ![Restore(n)] = <<>>]
    BY <1>u, Zenon DEF EndRestore
  <2> QED
    BY <1>u, <2>1, <2>2, <2>3, FrameEnds, Zenon
<1> QED
  BY <1>1, <1>2, <1>3, <1>4, <1>5, <1>6, <1>7, Zenon DEF Inv

(* A node that is not up to date gets the value v, computed from view.        *)
LEMMA UpdateFacts ==
    ASSUME Inv, NEW n \in Nodes, ~IsCurrent(n),
           NEW v \in Value \ {Uninitialized}, NEW ds \in Seq(SUBSET Nodes), NEW view \in Views,
           UpdateValue(n, v, ds, view), run' = run,
           DOMAIN view = SectionsOf(ds),
           \A d \in DOMAIN view : IsCurrent(d) /\ view[d] = Observed(value[d]),
           n \notin Leaves /\ ~IsNonReproducible(v) => v = Result(n, view) /\ Reads(n, view) = {}
    PROVE  /\ value' \in [Nodes -> Value] /\ deps' \in [Nodes -> Seq(SUBSET Nodes)]
           /\ changedAt' \in [Nodes -> Nat \union {Invalid}]
           /\ validatedAt' \in [Nodes -> Nat \union {Invalid}]
           /\ saw' \in [Nodes -> Views] /\ state' \in [Nodes -> States]
           /\ state' = [state EXCEPT ![n] = "Cached"]
           /\ Currency' /\ Stored'
           /\ \A m \in Nodes \ {n} :
                /\ value'[m] = value[m] /\ changedAt'[m] = changedAt[m]
                /\ validatedAt'[m] = validatedAt[m] /\ deps'[m] = deps[m] /\ state'[m] = state[m]
           /\ validatedAt'[n] = run /\ state'[n] = "Cached"
<1>t. /\ value \in [Nodes -> Value] /\ deps \in [Nodes -> Seq(SUBSET Nodes)]
      /\ changedAt \in [Nodes -> Nat \union {Invalid}]
      /\ validatedAt \in [Nodes -> Nat \union {Invalid}]
      /\ saw \in [Nodes -> Views] /\ state \in [Nodes -> States]
      /\ run \in Nat
  BY DEF Inv, TypeOK
<1>c. \/ value' = [value EXCEPT ![n] = v] /\ changedAt' = [changedAt EXCEPT ![n] = run]
      \/ value' = value /\ changedAt' = changedAt /\ value[n] = v
  BY Zenon DEF UpdateValue, ValueChanged
<1>1. /\ value' \in [Nodes -> Value]
      /\ changedAt' \in [Nodes -> Nat \union {Invalid}]
  BY <1>c, <1>t, ZenonT(60)
<1>2. /\ validatedAt' \in [Nodes -> Nat \union {Invalid}]
      /\ state' \in [Nodes -> States]
      /\ state' = [state EXCEPT ![n] = "Cached"]
  BY <1>t, Zenon DEF UpdateValue, States
<1>3. /\ deps' \in [Nodes -> Seq(SUBSET Nodes)]
      /\ saw' \in [Nodes -> Views]
  BY <1>t, Zenon DEF UpdateValue
<1>4. /\ \A m \in Nodes \ {n} :
           /\ value'[m] = value[m] /\ changedAt'[m] = changedAt[m]
           /\ validatedAt'[m] = validatedAt[m] /\ deps'[m] = deps[m] /\ state'[m] = state[m]
           /\ saw'[m] = saw[m]
      /\ value'[n] = v /\ validatedAt'[n] = run /\ deps'[n] = ds /\ state'[n] = "Cached"
      /\ saw'[n] = view
      /\ changedAt'[n] = run \/ (changedAt'[n] = changedAt[n] /\ value'[n] = value[n])
  BY <1>c, <1>t, Zenon DEF UpdateValue
<1>d. /\ \A m \in Nodes \ {n} : Deps(m)' = Deps(m)
      /\ Deps(n)' = SectionsOf(ds)
      /\ \A m \in Nodes : Deps(m) \subseteq Nodes
  BY <1>4, <1>t, SMTT(60) DEF Deps, SectionsOf
<1>i. /\ \A m \in Nodes \ {n} : IsCurrent(m)' = IsCurrent(m)
      /\ IsCurrent(n)'
      /\ n \notin Deps(n)'
      /\ Deps(n)' \subseteq Nodes
  BY <1>4, <1>d DEF IsCurrent, Views
<1>o. \A m \in Nodes : changedAt[m] <= validatedAt[m] /\ validatedAt[m] <= run
  BY Zenon DEF Inv, Currency
<1>5. Currency'
  <2> SUFFICES ASSUME NEW m \in Nodes
               PROVE  /\ IsCurrent(m)' => state'[m] = "Cached" /\ \A d \in Deps(m)' : IsCurrent(d)'
                      /\ changedAt'[m] <= validatedAt'[m] /\ validatedAt'[m] <= run
                      /\ value'[m] = Uninitialized => validatedAt'[m] = Invalid
    BY Zenon DEF Currency
  <2>1. CASE m = n
    <3>1. \A d \in Deps(n)' : IsCurrent(d)'
      BY <1>d, <1>i, Zenon
    <3>2. changedAt'[n] <= validatedAt'[n] /\ validatedAt'[n] <= run
      <4>1. changedAt[n] \in Int /\ validatedAt[n] \in Int /\ run \in Int
        BY <1>t DEF Invalid
      <4> QED
        BY <4>1, <1>4, <1>o, SMTT(60)
    <3> QED
      BY <2>1, <3>1, <3>2, <1>4, Zenon
  <2>2. CASE m # n
    <3>1. IsCurrent(m)' => state[m] = "Cached" /\ \A d \in Deps(m) : IsCurrent(d)
      BY <2>2, <1>i, Zenon DEF Inv, Currency
    <3>2. \A d \in Deps(m) : IsCurrent(d) => IsCurrent(d)'
      BY <1>i, <1>d, Zenon
    <3>3. value[m] = Uninitialized => validatedAt[m] = Invalid
      BY Zenon DEF Inv, Currency
    <3> QED
      BY <2>2, <3>1, <3>2, <3>3, <1>4, <1>d, <1>o, Zenon
  <2> QED
    BY <2>1, <2>2, Zenon
<1>6. Stored'
  <2> SUFFICES ASSUME NEW m \in Nodes
               PROVE  /\ DOMAIN saw'[m] = Deps(m)'
                      /\ m \notin Leaves /\ Restorable(m)' =>
                           value'[m] = Result(m, saw'[m]) /\ Reads(m, saw'[m]) = {}
                      /\ \A d \in Deps(m)' :
                           changedAt'[d] <= validatedAt'[m] => saw'[m][d] = Observed(value'[d])
    BY Zenon DEF Stored
  <2>1. CASE m = n
    <3>1. \A d \in Deps(n)' : value'[d] = value[d] /\ view[d] = Observed(value[d])
      BY <1>4, <1>d, <1>i, Zenon
    <3>2. Restorable(n)' => ~IsNonReproducible(v)
      BY <1>4, Zenon DEF Restorable
    <3>3. saw'[n] = view /\ value'[n] = v
      BY <1>4, Zenon
    <3> QED
      BY <2>1, <3>1, <3>2, <3>3, <1>d, Zenon
  <2>2. CASE m # n
    <3>1. Restorable(m)' = Restorable(m)
      BY <2>2, <1>4, Zenon DEF Restorable
    <3>2. ASSUME NEW d \in Deps(m), changedAt'[d] <= validatedAt'[m]
          PROVE  saw[m][d] = Observed(value'[d])
      <4>0. d \in Nodes /\ validatedAt'[m] = validatedAt[m]
        BY <2>2, <1>d, <1>4, Zenon
      <4>1. CASE d # n
        BY <4>0, <4>1, <3>2, <1>4, SMTT(60) DEF Inv, Stored
      <4>2. CASE d = n /\ changedAt'[n] = run
        <5>1. validatedAt[m] # run
          BY <4>2, Zenon DEF Inv, Currency, IsCurrent
        <5>2. validatedAt[m] \in Int /\ run \in Int /\ validatedAt[m] <= run
          BY <1>t, <1>o DEF Invalid
        <5>3. run <= validatedAt[m]
          BY <3>2, <4>0, <4>2, Zenon
        <5> QED
          BY <5>1, <5>2, <5>3, SMTT(60)
      <4>3. CASE d = n /\ changedAt'[n] = changedAt[n] /\ value'[n] = value[n]
        BY <4>0, <4>3, <3>2, Zenon DEF Inv, Stored
      <4> QED
        BY <4>1, <4>2, <4>3, <1>4, Zenon
    <3> QED
      BY <2>2, <3>1, <3>2, <1>4, <1>d, ZenonT(60) DEF Inv, Stored
  <2> QED
    BY <2>1, <2>2, Zenon
<1> QED
  BY <1>1, <1>2, <1>3, <1>4, <1>5, <1>6, Zenon

(* What the frames of other nodes rely on is kept when n gets a value.        *)
LEMMA UpdateKeeps ==
    ASSUME Inv, NEW n \in Nodes, ~IsCurrent(n), run' = run, validatedAt'[n] = run,
           \A m \in Nodes \ {n} :
             /\ value'[m] = value[m] /\ changedAt'[m] = changedAt[m]
             /\ validatedAt'[m] = validatedAt[m] /\ deps'[m] = deps[m] /\ state'[m] = state[m]
    PROVE  /\ \A m \in Nodes : IsCurrent(m) => IsCurrent(m)' /\ value'[m] = value[m]
           /\ IsCurrent(n)'
           /\ \A m \in Nodes \ {n}, d \in Nodes : OlderThan(d, m) => OlderThan(d, m)'
BY Zenon DEF IsCurrent, OlderThan

(* A computation starts with an empty view.                                   *)
LEMMA NothingSeen == Nothing \in Views /\ DOMAIN Nothing = {}
<1>1. Nothing \in [{} -> Observable] /\ DOMAIN Nothing = {}
  BY Zenon DEF Nothing
<1>2. {} \in SUBSET Nodes
  BY Zenon
<1> QED
  BY <1>1, <1>2, ZenonT(60) DEF Views

(* A restoration that found a dep in a cycle stores the cycle error.          *)
LEMMA RestoreCancelledPreserves ==
    ASSUME Inv, NEW n \in Nodes, RestoreCancelled(n)
    PROVE  Inv'
<1> USE DEF worldVars, nodeVars, frameVars, cycleVars
<1>u. /\ Restoring(n) /\ EndRestore(n, "cancelled")
      /\ state[n] = "Restoring"
      /\ UNCHANGED <<worldVars, section, seen, sofar, cycleVars, nonReproAt>>
  BY Zenon DEF RestoreCancelled, EndRestore, Restoring
<1>n. ~IsCurrent(n)
  BY <1>u, Zenon DEF Inv, Currency
<1>e. /\ rd' \in [Frames -> [Nodes -> Pcs]]
      /\ stack' \in [Frames -> Seq(Frames)]
      /\ stage' \in [Nodes -> Nat]
      /\ res' \in [Frames -> Outcomes \union {"none"}]
      /\ \A g \in Frames : rd'[g] = IF g = Restore(n) THEN NoReads ELSE rd[g]
      /\ \A g \in Frames : res'[g] = IF g = Restore(n) THEN "cancelled" ELSE res[g]
      /\ \A m \in Nodes : stage'[m] = IF m = n THEN 0 ELSE stage[m]
  <2>1. "cancelled" \in Outcomes
    BY Zenon DEF Outcomes
  <2> QED
    BY <1>u, <2>1, EndRestoreFacts, Zenon
<1>s. /\ value' \in [Nodes -> Value] /\ deps' \in [Nodes -> Seq(SUBSET Nodes)]
      /\ changedAt' \in [Nodes -> Nat \union {Invalid}]
      /\ validatedAt' \in [Nodes -> Nat \union {Invalid}]
      /\ saw' \in [Nodes -> Views] /\ state' \in [Nodes -> States]
      /\ state' = [state EXCEPT ![n] = "Cached"]
      /\ Currency' /\ Stored'
      /\ \A m \in Nodes \ {n} :
           /\ value'[m] = value[m] /\ changedAt'[m] = changedAt[m]
           /\ validatedAt'[m] = validatedAt[m] /\ deps'[m] = deps[m] /\ state'[m] = state[m]
      /\ validatedAt'[n] = run /\ state'[n] = "Cached"
  <2>1. PICK v \in Value, ds \in Seq(SUBSET Nodes), view \in Views :
          /\ UpdateValue(n, v, ds, view)
          /\ v = NonReproducible("cycle") /\ ds = <<>> /\ view = Nothing
    <3>1. NonReproducible("cycle") \in Value
      BY Zenon DEF Value, NonReproducible, Exns
    <3>2. <<>> \in Seq(SUBSET Nodes)
      OBVIOUS
    <3>3. Nothing \in Views
      BY NothingSeen, Zenon
    <3> QED
      BY <3>1, <3>2, <3>3, Zenon DEF RestoreCancelled
  <2>2. v # Uninitialized /\ IsNonReproducible(v)
    BY <2>1, Zenon DEF NonReproducible, Uninitialized, IsNonReproducible
  <2>3. DOMAIN view = {} /\ SectionsOf(ds) = {}
    BY <2>1 DEF Nothing, SectionsOf
  <2>4. run' = run
    BY <1>u, Zenon
  <2>5. v \in Value \ {Uninitialized}
    BY <2>1, <2>2, Zenon
  <2>6. \A d \in DOMAIN view : IsCurrent(d) /\ view[d] = Observed(value[d])
    BY <2>3, Zenon
  <2>7. DOMAIN view = SectionsOf(ds)
    BY <2>3, Zenon
  <2>8. n \notin Leaves /\ ~IsNonReproducible(v) => v = Result(n, view) /\ Reads(n, view) = {}
    BY <2>2, Zenon
  <2>9. UpdateValue(n, v, ds, view)
    BY <2>1, Zenon
  <2> QED
    BY ONLY Inv, <2>4, <2>5, <2>6, <2>7, <2>8, <2>9, <1>n, UpdateFacts, SMTT(60)
<1>k. /\ \A m \in Nodes : IsCurrent(m) => IsCurrent(m)' /\ value'[m] = value[m]
      /\ IsCurrent(n)'
      /\ \A m \in Nodes \ {n}, d \in Nodes : OlderThan(d, m) => OlderThan(d, m)'
  BY <1>n, <1>s, <1>u, UpdateKeeps, ZenonT(60)
<1>1. TypeOK'
  BY <1>u, <1>e, <1>s, ZenonT(60) DEF Inv, TypeOK
<1>4. ComputeFrames'
  <2> SUFFICES ASSUME NEW m \in Nodes
               PROVE  /\ \A d \in DOMAIN seen[m] : IsCurrent(d)' /\ seen[m][d] = Observed(value'[d])
                      /\ \A d \in Nodes : rd'[Compute(m)][d] = "ok" => IsCurrent(d)'
                      /\ \A d \in Nodes : rd'[Compute(m)][d] # "off" => d \in section[m]
                      /\ state'[m] # "Computing" =>
                           rd'[Compute(m)] = NoReads /\ seen[m] = Nothing /\ sofar[m] = <<>> /\ section[m] = {}
    BY <1>u, Zenon DEF Inv, ComputeFrames
  <2>1. rd'[Compute(m)] = rd[Compute(m)]
    BY <1>e, FramesDiffer, Zenon
  <2>2. \A d \in DOMAIN seen[m] : d \in Nodes
    BY SeenNodes, Zenon
  <2>3. state'[m] # "Computing" => state[m] # "Computing"
    BY <1>s, <1>u, Zenon
  <2> QED
    <3>1. \A d \in DOMAIN seen[m] : IsCurrent(d)' /\ seen[m][d] = Observed(value'[d])
      <4> TAKE d \in DOMAIN seen[m]
      <4>1. IsCurrent(d) /\ seen[m][d] = Observed(value[d])
        BY Zenon DEF Inv, ComputeFrames
      <4>2. IsCurrent(d)' /\ value'[d] = value[d]
        BY <2>2, <4>1, <1>k, Zenon
      <4> QED
        BY <4>1, <4>2, Zenon
    <3>2. \A d \in Nodes : rd'[Compute(m)][d] = "ok" => IsCurrent(d)'
      BY <2>1, <1>k, Zenon DEF Inv, ComputeFrames
    <3>3. \A d \in Nodes : rd'[Compute(m)][d] # "off" => d \in section[m]
      BY <2>1, SMTT(60) DEF Inv, ComputeFrames
    <3>4. state'[m] # "Computing" =>
            rd'[Compute(m)] = NoReads /\ seen[m] = Nothing /\ sofar[m] = <<>> /\ section[m] = {}
      BY <2>1, <2>3, Zenon DEF Inv, ComputeFrames
    <3> QED
      BY <3>1, <3>2, <3>3, <3>4, Zenon
<1>5. RestoreFrames'
  <2> SUFFICES ASSUME NEW m \in Nodes
               PROVE  /\ \A d \in Nodes : rd'[Restore(m)][d] \in {"ok", "unchanged"} => OlderThan(d, m)'
                      /\ \A d \in Nodes : rd'[Restore(m)][d] # "off" => stage'[m] # 0 /\ d \in deps'[m][stage'[m]]
                      /\ stage'[m] <= Len(deps'[m])
                      /\ \A i \in 1 .. stage'[m] - 1 : \A d \in deps'[m][i] : OlderThan(d, m)'
                      /\ state'[m] # "Restoring" => rd'[Restore(m)] = NoReads /\ stage'[m] = 0
    BY Zenon DEF RestoreFrames
  <2>1. CASE m = n
    <3>1. rd'[Restore(n)] = NoReads /\ stage'[n] = 0
      BY <1>e, FrameFacts, Zenon
    <3>2. Len(deps'[n]) \in Nat
      BY <1>s, SMTT(60)
    <3> QED
      BY <2>1, <3>1, <3>2, SMTT(60) DEF NoReads
  <2>2. CASE m # n
    <3>0. Restore(m) # Restore(n) /\ Restore(m) \in Frames
      BY <2>2, FrameFacts
    <3>1. /\ rd'[Restore(m)] = rd[Restore(m)] /\ stage'[m] = stage[m] /\ state'[m] = state[m]
          /\ deps'[m] = deps[m]
      BY <2>2, <3>0, <1>e, <1>s, Zenon
    <3>2. \A i \in 1 .. stage[m] - 1 : \A d \in deps[m][i] : d \in Nodes
      <4>1. stage[m] \in Nat /\ deps[m] \in Seq(SUBSET Nodes) /\ stage[m] <= Len(deps[m])
        BY Zenon DEF Inv, TypeOK, RestoreFrames
      <4> QED
        BY <4>1
    <3> QED
      BY <2>2, <3>1, <3>2, <1>k, ZenonT(60) DEF Inv, RestoreFrames
  <2> QED
    BY <2>1, <2>2, Zenon
<1>6. Ivars'
  <2> SUFFICES ASSUME NEW m \in Nodes
               PROVE  /\ res'[Compute(m)] # "none" => IsCurrent(m)'
                      /\ res'[Restore(m)] # "none" =>
                           \/ IsCurrent(m)'
                           \/ res'[Restore(m)] = "changed" /\ state'[m] \in {"Out_of_date", "Computing"}
    BY Zenon DEF Ivars
  <2>1. CASE m = n
    BY <2>1, <1>k, Zenon
  <2>2. CASE m # n
    <3>0. /\ Restore(m) # Restore(n) /\ Compute(m) # Restore(n)
          /\ Restore(m) \in Frames /\ Compute(m) \in Frames
      BY <2>2, FrameFacts
    <3>1. res'[Compute(m)] = res[Compute(m)] /\ res'[Restore(m)] = res[Restore(m)] /\ state'[m] = state[m]
      BY <2>2, <3>0, <1>e, <1>s, Zenon
    <3> QED
      BY <3>1, <1>k, ZenonT(60) DEF Inv, Ivars
  <2> QED
    BY <2>1, <2>2, Zenon
<1>7. Forced' /\ QuietBetweenRuns'
  <2>1. PICK st \in {"Cached"} : state' = [state EXCEPT ![n] = st]
    BY <1>s, Zenon
  <2>2. Restore(n) \in Frames
    BY FrameFacts, Zenon
  <2>3. rd' = [rd EXCEPT ![Restore(n)] = NoReads] /\ stack' = [stack EXCEPT ![Restore(n)] = <<>>]
    BY <1>u, Zenon DEF EndRestore
  <2> QED
    BY <1>u, <2>1, <2>2, <2>3, FrameEnds, ZenonT(60)
<1> QED
  BY <1>1, <1>s, <1>4, <1>5, <1>6, <1>7, Zenon DEF Inv

-----------------------------------------------------------------------------
(* A computation returns, a run starts or ends, the world changes.         *)

(* A computation returns: the node is Cached with what the function returned. *)
LEMMA ComputeReturnsPreserves ==
    ASSUME Inv, NEW n \in Nodes, ComputeReturns(n)
    PROVE  Inv'
<1> USE DEF worldVars, nodeVars, frameVars, cycleVars
<1>u. /\ Computing(n) /\ NextReads(n) = {}
      /\ state[n] = "Computing"
      /\ UNCHANGED <<worldVars, stage, cycleVars>>
      /\ rd' = [rd EXCEPT ![Compute(n)] = NoReads]
      /\ stack' = [stack EXCEPT ![Compute(n)] = <<>>]
      /\ res' = [res EXCEPT ![Compute(n)] = "done"]
      /\ section' = [section EXCEPT ![n] = {}]
      /\ seen' = [seen EXCEPT ![n] = Nothing]
      /\ sofar' = [sofar EXCEPT ![n] = <<>>]
  BY Zenon DEF ComputeReturns, Computing
<1>n. ~IsCurrent(n)
  BY <1>u, Zenon DEF Inv, Currency
<1>t. /\ rd \in [Frames -> [Nodes -> Pcs]]
      /\ stack \in [Frames -> Seq(Frames)]
      /\ res \in [Frames -> Outcomes \union {"none"}]
      /\ section \in [Nodes -> SUBSET Nodes]
      /\ seen \in [Nodes -> Views]
      /\ sofar \in [Nodes -> Seq(SUBSET Nodes)]
      /\ input \in [Leaves -> Values]
      /\ run \in Nat /\ nonReproAt \in Nat \union {Invalid}
  BY SMTT(60) DEF Inv, TypeOK
<1>e. /\ \A g \in Frames : rd'[g] = IF g = Compute(n) THEN NoReads ELSE rd[g]
      /\ \A g \in Frames : res'[g] = IF g = Compute(n) THEN "done" ELSE res[g]
      /\ \A m \in Nodes : section'[m] = IF m = n THEN {} ELSE section[m]
      /\ \A m \in Nodes : seen'[m] = IF m = n THEN Nothing ELSE seen[m]
      /\ \A m \in Nodes : sofar'[m] = IF m = n THEN <<>> ELSE sofar[m]
  BY <1>t, <1>u, Zenon
<1>v. PICK v \in Returned(n) : UpdateValue(n, v, Collected(n), View(n)) /\ nonReproAt' = Noted(v)
  BY Zenon DEF ComputeReturns
<1>r. /\ v \in Value \ {Uninitialized}
      /\ n \notin Leaves /\ ~IsNonReproducible(v) => v = Result(n, View(n)) /\ Reads(n, View(n)) = {}
  <2>1. CASE v = NonReproducible("cycle") \/ v = NonReproducible("cancelled")
    BY <2>1 DEF NonReproducible, Value, Exns, IsNonReproducible, Uninitialized
  <2>2. CASE n \in Leaves /\ v = <<"ok", input[n]>>
    <3>1. input[n] \in Values
      BY <2>2, <1>t, Zenon
    <3> QED
      BY <2>2, <3>1, Zenon DEF Value, Observable, Uninitialized
  <2>3. CASE n \notin Leaves /\ v = Result(n, View(n)) /\ ~Raised(n)
    <3>1. Result(n, View(n)) \in Observable
      BY ViewFacts, MemoAssumption, Zenon
    <3>2. Reads(n, View(n)) = {}
      BY <2>3, <1>u, Zenon DEF NextReads
    <3>3. Uninitialized \notin Observable
      BY Zenon DEF Uninitialized, Observable
    <3> QED
      BY <2>3, <3>1, <3>2, <3>3, Zenon DEF Value
  <2> QED
    BY <2>1, <2>2, <2>3, <1>v, Zenon DEF Returned
<1>s. /\ value' \in [Nodes -> Value] /\ deps' \in [Nodes -> Seq(SUBSET Nodes)]
      /\ changedAt' \in [Nodes -> Nat \union {Invalid}]
      /\ validatedAt' \in [Nodes -> Nat \union {Invalid}]
      /\ saw' \in [Nodes -> Views] /\ state' \in [Nodes -> States]
      /\ state' = [state EXCEPT ![n] = "Cached"]
      /\ Currency' /\ Stored'
      /\ \A m \in Nodes \ {n} :
           /\ value'[m] = value[m] /\ changedAt'[m] = changedAt[m]
           /\ validatedAt'[m] = validatedAt[m] /\ deps'[m] = deps[m] /\ state'[m] = state[m]
      /\ validatedAt'[n] = run /\ state'[n] = "Cached"
  <2>1. PICK ds \in Seq(SUBSET Nodes), view \in Views : ds = Collected(n) /\ view = View(n)
    BY ViewFacts, Zenon
  <2>2. UpdateValue(n, v, ds, view) /\ run' = run
    BY <2>1, <1>v, <1>u, Zenon
  <2>3. /\ DOMAIN view = SectionsOf(ds)
        /\ \A d \in DOMAIN view : IsCurrent(d) /\ view[d] = Observed(value[d])
    BY <2>1, ViewFacts, Zenon
  <2>4. n \notin Leaves /\ ~IsNonReproducible(v) => v = Result(n, view) /\ Reads(n, view) = {}
    BY <2>1, <1>r, Zenon
  <2>5. v \in Value \ {Uninitialized}
    BY <1>r, Zenon
  <2> QED
    BY ONLY Inv, <2>2, <2>3, <2>4, <2>5, <1>n, UpdateFacts, SMTT(60)
<1>k. /\ \A m \in Nodes : IsCurrent(m) => IsCurrent(m)' /\ value'[m] = value[m]
      /\ IsCurrent(n)'
      /\ \A m \in Nodes \ {n}, d \in Nodes : OlderThan(d, m) => OlderThan(d, m)'
  BY <1>n, <1>s, <1>u, UpdateKeeps, ZenonT(60)
<1>1. TypeOK'
  <2>1. rd' \in [Frames -> [Nodes -> Pcs]]
    <3>1. PICK none \in [Nodes -> Pcs] : rd' = [rd EXCEPT ![Compute(n)] = none]
      BY <1>u, Zenon DEF NoReads, Pcs
    <3> QED
      BY <3>1, <1>t, ZenonT(60)
  <2>2. stack' \in [Frames -> Seq(Frames)]
    <3>1. <<>> \in Seq(Frames)
      OBVIOUS
    <3> QED
      BY <3>1, <1>t, <1>u, Zenon
  <2>3. res' \in [Frames -> Outcomes \union {"none"}]
    BY <1>t, <1>u, Zenon DEF Outcomes
  <2>4. section' \in [Nodes -> SUBSET Nodes]
    BY <1>t, <1>u, Zenon
  <2>5. seen' \in [Nodes -> Views]
    BY <1>t, <1>u, NothingSeen, Zenon
  <2>6. sofar' \in [Nodes -> Seq(SUBSET Nodes)]
    <3>1. <<>> \in Seq(SUBSET Nodes)
      OBVIOUS
    <3> QED
      BY <3>1, <1>t, <1>u, Zenon
  <2>7. nonReproAt' \in Nat \union {Invalid}
    BY <1>v, <1>t, Zenon DEF Noted
  <2> QED
    BY <1>u, <1>s, <2>1, <2>2, <2>3, <2>4, <2>5, <2>6, <2>7, Zenon DEF Inv, TypeOK
<1>4. ComputeFrames'
  <2> SUFFICES ASSUME NEW m \in Nodes
               PROVE  /\ DOMAIN seen'[m] = SectionsOf(sofar'[m])
                      /\ \A d \in DOMAIN seen'[m] : IsCurrent(d)' /\ seen'[m][d] = Observed(value'[d])
                      /\ \A d \in Nodes : rd'[Compute(m)][d] = "ok" => IsCurrent(d)'
                      /\ \A d \in Nodes : rd'[Compute(m)][d] # "off" => d \in section'[m]
                      /\ state'[m] # "Computing" =>
                           rd'[Compute(m)] = NoReads /\ seen'[m] = Nothing /\ sofar'[m] = <<>> /\ section'[m] = {}
    BY Zenon DEF ComputeFrames
  <2>1. CASE m = n
    <3>1. rd'[Compute(n)] = NoReads /\ seen'[n] = Nothing /\ sofar'[n] = <<>> /\ section'[n] = {}
      BY <1>e, FrameFacts, Zenon
    <3>2. SectionsOf(sofar'[n]) = {}
      BY <3>1 DEF SectionsOf
    <3>3. \A d \in Nodes : NoReads[d] = "off"
      BY Zenon DEF NoReads
    <3> QED
      BY <2>1, <3>1, <3>2, <3>3, NothingSeen, Zenon
  <2>2. CASE m # n
    <3>0. Compute(m) # Compute(n) /\ Compute(m) \in Frames
      BY <2>2, FrameFacts
    <3>1. /\ rd'[Compute(m)] = rd[Compute(m)] /\ seen'[m] = seen[m] /\ sofar'[m] = sofar[m]
          /\ section'[m] = section[m] /\ state'[m] = state[m]
      BY <2>2, <3>0, <1>e, <1>s, Zenon
    <3>2. \A d \in DOMAIN seen[m] : d \in Nodes
      BY SeenNodes, Zenon
    <3>3. /\ DOMAIN seen[m] = SectionsOf(sofar[m])
          /\ \A d \in Nodes : rd[Compute(m)][d] = "ok" => IsCurrent(d)
          /\ \A d \in Nodes : rd[Compute(m)][d] # "off" => d \in section[m]
          /\ state[m] # "Computing" =>
               rd[Compute(m)] = NoReads /\ seen[m] = Nothing /\ sofar[m] = <<>> /\ section[m] = {}
      BY Zenon DEF Inv, ComputeFrames
    <3>4. \A d \in DOMAIN seen[m] : IsCurrent(d)' /\ seen[m][d] = Observed(value'[d])
      <4> TAKE d \in DOMAIN seen[m]
      <4>1. IsCurrent(d) /\ seen[m][d] = Observed(value[d])
        BY Zenon DEF Inv, ComputeFrames
      <4>2. IsCurrent(d)' /\ value'[d] = value[d]
        BY <3>2, <4>1, <1>k, Zenon
      <4> QED
        BY <4>1, <4>2, Zenon
    <3>5. \A d \in Nodes : rd[Compute(m)][d] = "ok" => IsCurrent(d)'
      BY <3>3, <1>k, Zenon
    <3> QED
      BY <3>1, <3>3, <3>4, <3>5, Zenon
  <2> QED
    BY <2>1, <2>2, ZenonT(60)
<1>5. RestoreFrames'
  <2> SUFFICES ASSUME NEW m \in Nodes
               PROVE  /\ \A d \in Nodes : rd'[Restore(m)][d] \in {"ok", "unchanged"} => OlderThan(d, m)'
                      /\ \A d \in Nodes : rd'[Restore(m)][d] # "off" => stage'[m] # 0 /\ d \in deps'[m][stage'[m]]
                      /\ stage'[m] <= Len(deps'[m])
                      /\ \A i \in 1 .. stage'[m] - 1 : \A d \in deps'[m][i] : OlderThan(d, m)'
                      /\ state'[m] # "Restoring" => rd'[Restore(m)] = NoReads /\ stage'[m] = 0
    BY ZenonT(60) DEF RestoreFrames
  <2>0. rd'[Restore(m)] = rd[Restore(m)] /\ stage'[m] = stage[m]
    BY <1>e, <1>u, FramesDiffer, Zenon
  <2>1. CASE m = n
    <3>1. rd[Restore(n)] = NoReads /\ stage[n] = 0
      BY <1>u, Zenon DEF Inv, RestoreFrames
    <3>2. Len(deps'[n]) \in Nat
      BY <1>s, SMTT(60)
    <3> QED
      BY <2>0, <2>1, <3>1, <3>2 DEF NoReads
  <2>2. CASE m # n
    <3>1. state'[m] = state[m] /\ deps'[m] = deps[m]
      BY <2>2, <1>s, Zenon
    <3>2. \A i \in 1 .. stage[m] - 1 : \A d \in deps[m][i] : d \in Nodes
      <4>1. stage[m] \in Nat /\ deps[m] \in Seq(SUBSET Nodes) /\ stage[m] <= Len(deps[m])
        BY Zenon DEF Inv, TypeOK, RestoreFrames
      <4> QED
        BY <4>1, SMTT(60)
    <3> QED
      BY <2>0, <2>2, <3>1, <3>2, <1>k, ZenonT(60) DEF Inv, RestoreFrames
  <2> QED
    BY <2>1, <2>2, Zenon
<1>6. Ivars'
  <2> SUFFICES ASSUME NEW m \in Nodes
               PROVE  /\ res'[Compute(m)] # "none" => IsCurrent(m)'
                      /\ res'[Restore(m)] # "none" =>
                           \/ IsCurrent(m)'
                           \/ res'[Restore(m)] = "changed" /\ state'[m] \in {"Out_of_date", "Computing"}
    BY Zenon DEF Ivars
  <2>1. CASE m = n
    BY <2>1, <1>k, Zenon
  <2>2. CASE m # n
    <3>0. /\ Compute(m) # Compute(n) /\ Restore(m) # Compute(n)
          /\ Restore(m) \in Frames /\ Compute(m) \in Frames
      BY <2>2, FrameFacts, SMTT(60)
    <3>1. res'[Compute(m)] = res[Compute(m)] /\ res'[Restore(m)] = res[Restore(m)] /\ state'[m] = state[m]
      BY <2>2, <3>0, <1>e, <1>s, Zenon
    <3> QED
      BY <3>1, <1>k, Zenon DEF Inv, Ivars
  <2> QED
    BY <2>1, <2>2, Zenon
<1>7. Forced' /\ QuietBetweenRuns'
  <2>1. PICK st \in {"Cached"} : state' = [state EXCEPT ![n] = st]
    BY <1>s, Zenon
  <2>2. Compute(n) \in Frames
    BY FrameFacts, Zenon
  <2> QED
    BY <1>u, <2>1, <2>2, FrameEnds, Zenon
<1> QED
  BY <1>1, <1>s, <1>4, <1>5, <1>6, <1>7, Zenon DEF Inv

(* A run starts: every fiber of the frames of the goals is spawned.           *)
LEMMA StartRunPreserves ==
    ASSUME Inv, NEW goals \in Goals, NEW how, StartRun(goals, how)
    PROVE  Inv'
<1> USE DEF worldVars, nodeVars, frameVars, cycleVars
<1>u. /\ top = "idle" /\ top' = "running"
      /\ UNCHANGED <<run, input, pending, nodeVars, res, stack, frameVars, dag, nonReproAt>>
      /\ cancel' \in {"no", "yes"} /\ cycle' \in {"none", "found"}
  BY Zenon DEF StartRun, Inv, TypeOK
<1>t. rd \in [Frames -> [Nodes -> Pcs]] /\ goals \subseteq Nodes
  BY MemoAssumption, Zenon DEF Inv, TypeOK
<1>p. \A d \in Nodes : Spawn({d}) \in [Nodes -> Pcs] /\ \A e \in Nodes : Spawn({d})[e] # "off" => e = d
  BY Zenon DEF Spawn, Pcs
<1>s. \A f \in Frames :
        rd'[f] = IF f[1] = "root" /\ f[2] \in goals THEN Spawn({f[2]}) ELSE rd[f]
  BY Zenon DEF StartRun
<1>k. \A n \in Nodes :
        /\ rd'[Compute(n)] = rd[Compute(n)] /\ rd'[Restore(n)] = rd[Restore(n)]
        /\ rd'[Root(n)] = Spawn({n}) \/ rd'[Root(n)] = rd[Root(n)]
  <2> SUFFICES ASSUME NEW n \in Nodes
               PROVE  /\ rd'[Compute(n)] = rd[Compute(n)] /\ rd'[Restore(n)] = rd[Restore(n)]
                      /\ rd'[Root(n)] = Spawn({n}) \/ rd'[Root(n)] = rd[Root(n)]
    BY Zenon
  <2>1. rd'[Compute(n)] = rd[Compute(n)]
    BY <1>s, FrameFacts, Zenon
  <2>2. rd'[Restore(n)] = rd[Restore(n)]
    BY <1>s, FrameFacts, Zenon
  <2>3. rd'[Root(n)] = Spawn({n}) \/ rd'[Root(n)] = rd[Root(n)]
    <3>1. Root(n) \in Frames /\ Root(n)[2] = n
      BY FrameFacts, Zenon
    <3> QED
      BY <1>s, <3>1, Zenon
  <2> QED
    BY <2>1, <2>2, <2>3, Zenon
<1>q. \A n \in Nodes : state[n] \notin {"Restoring", "Computing"}
  BY <1>u, Zenon DEF Inv, QuietBetweenRuns
<1>1. TypeOK'
  <2>1. rd' \in [Frames -> [Nodes -> Pcs]]
    <3>1. \A f \in Frames :
            (IF f[1] = "root" /\ f[2] \in goals THEN Spawn({f[2]}) ELSE rd[f]) \in [Nodes -> Pcs]
      BY <1>t, <1>p, FrameFacts, Zenon
    <3> QED
      BY <3>1, Zenon DEF StartRun
  <2> QED
    BY <1>u, <2>1, Zenon DEF Inv, TypeOK
<1>2. Currency' /\ Stored'
  <2>1. Currency'
    BY <1>u DEF Inv, Currency, IsCurrent, Deps
  <2>2. Stored'
    BY <1>u, SMTT(60) DEF Inv, Stored, Deps, Restorable
  <2> QED
    BY <2>1, <2>2, Zenon
<1>3. ComputeFrames'
  <2> SUFFICES ASSUME NEW n \in Nodes
               PROVE  /\ \A d \in Nodes : rd'[Compute(n)][d] = "ok" => IsCurrent(d)
                      /\ \A d \in Nodes : rd'[Compute(n)][d] # "off" => d \in section[n]
                      /\ state[n] # "Computing" =>
                           rd'[Compute(n)] = NoReads /\ seen[n] = Nothing /\ sofar[n] = <<>> /\ section[n] = {}
    BY <1>u, Zenon DEF Inv, ComputeFrames, IsCurrent
  <2>1. rd'[Compute(n)] = rd[Compute(n)]
    BY <1>k, Zenon
  <2> QED
    BY <2>1, SMTT(60) DEF Inv, ComputeFrames
<1>4. RestoreFrames'
  <2> SUFFICES ASSUME NEW m \in Nodes
               PROVE  /\ \A d \in Nodes : rd'[Restore(m)][d] \in {"ok", "unchanged"} => OlderThan(d, m)
                      /\ \A d \in Nodes : rd'[Restore(m)][d] # "off" => stage[m] # 0 /\ d \in deps[m][stage[m]]
                      /\ state[m] # "Restoring" => rd'[Restore(m)] = NoReads /\ stage[m] = 0
    BY <1>u, SMTT(60) DEF Inv, RestoreFrames, OlderThan, IsCurrent
  <2>1. rd'[Restore(m)] = rd[Restore(m)]
    BY <1>k, Zenon
  <2> QED
    BY <2>1 DEF Inv, RestoreFrames
<1>5. Ivars'
  BY <1>u, Zenon DEF Inv, Ivars, IsCurrent
<1>6. Forced'
  <2>1. \A n \in Nodes : \A e \in Nodes : rd'[Root(n)][e] # "off" => e = n
    <3> TAKE n \in Nodes
    <3>1. \A e \in Nodes : rd[Root(n)][e] # "off" => e = n
      BY Zenon DEF Inv, Forced
    <3>2. \A e \in Nodes : Spawn({n})[e] # "off" => e = n
      BY <1>p, Zenon
    <3>3. rd'[Root(n)] = Spawn({n}) \/ rd'[Root(n)] = rd[Root(n)]
      BY <1>k, Zenon
    <3> QED
      BY <3>1, <3>2, <3>3, Zenon
  <2> QED
    BY <1>u, <1>q, <2>1, Zenon DEF Forced
<1>7. QuietBetweenRuns'
  BY <1>u, Zenon DEF QuietBetweenRuns
<1> QED
  BY <1>1, <1>2, <1>3, <1>4, <1>5, <1>6, <1>7, Zenon DEF Inv

(* A nonempty set of natural numbers has a least element.                     *)
LEMMA LeastNat ==
    ASSUME NEW S \in SUBSET Nat, S # {}
    PROVE  \E m \in S : \A k \in S : m <= k
<1>1. PICK m \in S : \A k \in S : <<k, m>> \notin OpToRel(<, Nat)
  BY WFMin, NatLessThanWellFounded, Zenon
<1>2. \A k \in S : ~(k < m)
  BY <1>1, Zenon DEF OpToRel
<1> QED
  BY <1>2

(* When every goal is answered nothing runs: the lowest running frame would   *)
(* have to be waited for by a goal.                                           *)
LEMMA NothingRuns ==
    ASSUME Inv, AllAnswered
    PROVE  \A n \in Nodes : state[n] \notin {"Restoring", "Computing"}
<1> DEFINE R == {f \in Frames : \/ f[1] = "restore" /\ state[f[2]] = "Restoring"
                                \/ f[1] = "compute" /\ state[f[2]] = "Computing"}
           S == {Len(stack[f]) : f \in R}
<1> SUFFICES ASSUME NEW n \in Nodes, state[n] \in {"Restoring", "Computing"}
             PROVE  FALSE
  BY Zenon
<1>t. stack \in [Frames -> Seq(Frames)]
  BY Zenon DEF Inv, TypeOK
<1>1. S \in SUBSET Nat
  BY <1>t
<1>2. S # {}
  <2>1. Restore(n) \in R \/ Compute(n) \in R
    BY FrameFacts, Zenon
  <2> QED
    BY <2>1, Zenon
<1>3. PICK k \in S : \A j \in S : k <= j
  <2> HIDE DEF S
  <2> QED
    BY <1>1, <1>2, LeastNat, Zenon
<1>4. PICK f \in R : k = Len(stack[f])
  BY Zenon
<1>5. PICK g \in Frames, d \in Nodes, w \in {"waitRestore", "waitCompute"} : Waits(g, d, w, f)
  <2>1. f[2] \in Nodes /\ f \in Frames
    BY FrameFacts, Zenon
  <2>2. CASE f[1] = "restore"
    BY <2>1, <2>2, FrameFacts DEF Inv, Forced
  <2>3. CASE f[1] = "compute"
    BY <2>1, <2>3, FrameFacts DEF Inv, Forced
  <2> QED
    BY <2>2, <2>3, Zenon
<1>6. g[1] # "root"
  <2> SUFFICES ASSUME g[1] = "root" PROVE FALSE
    BY Zenon
  <2>1. g = Root(g[2]) /\ g[2] \in Nodes
    BY FrameFacts, Zenon
  <2>2. rd[Root(g[2])][d] = w
    BY <1>5, <2>1, Zenon DEF Waits
  <2>3. d = g[2]
    BY <2>1, <2>2, Zenon DEF Inv, Forced
  <2> QED
    BY <2>1, <2>2, <2>3, Zenon DEF AllAnswered, Answers
<1>7. g \in R
  BY <1>5, <1>6, FrameFacts, Zenon DEF Waits
<1>8. Len(stack[g]) \in S /\ Len(stack[g]) \in Nat /\ Len(stack[f]) \in Nat
  BY <1>7, <1>4, <1>t
<1>9. Len(stack[g]) < k
  BY <1>4, <1>5, Zenon DEF Waits
<1> QED
  BY <1>3, <1>4, <1>8, <1>9

(* A step that changes neither the run nor a node leaves what the nodes hold. *)
LEMMA NodesStay ==
    ASSUME Currency, Stored, UNCHANGED <<run, nodeVars>>
    PROVE  Currency' /\ Stored'
<1> USE DEF nodeVars
<1>1. \A n \in Nodes : Deps(n)' = Deps(n) /\ (Restorable(n)' <=> Restorable(n))
  BY Zenon DEF Deps, Restorable
<1>2. \A n : IsCurrent(n)' <=> IsCurrent(n)
  BY Zenon DEF IsCurrent
<1>3. Currency'
  BY <1>1, <1>2, Zenon DEF Currency
<1>4. Stored'
  BY <1>1, Zenon DEF Stored
<1> QED
  BY <1>3, <1>4

(* A run ends when all its fibers have.                                       *)
LEMMA FinishRunPreserves ==
    ASSUME Inv, FinishRun
    PROVE  Inv'
<1> USE DEF worldVars, nodeVars, frameVars, cycleVars
<1>u. /\ top' = "idle" /\ AllAnswered
      /\ UNCHANGED <<run, input, pending, cancel, nodeVars, res, stack, frameVars, cycleVars,
                     nonReproAt>>
  BY Zenon DEF FinishRun
<1>t. rd \in [Frames -> [Nodes -> Pcs]] /\ NoReads \in [Nodes -> Pcs]
  BY Zenon DEF Inv, TypeOK, NoReads, Pcs
<1>s. \A f \in Frames : rd'[f] = IF f[1] = "root" THEN NoReads ELSE rd[f]
  BY Zenon DEF FinishRun
<1>q. \A n \in Nodes : state[n] \notin {"Restoring", "Computing"}
  BY <1>u, NothingRuns, Zenon
<1>1. TypeOK'
  <2>1. rd' \in [Frames -> [Nodes -> Pcs]]
    BY <1>t, Zenon DEF FinishRun
  <2> QED
    BY <1>u, <2>1, Zenon DEF Inv, TypeOK
<1>2. Currency' /\ Stored'
  BY <1>u, NodesStay, Zenon DEF Inv
<1>3. ComputeFrames'
  BY <1>u, <1>s, FrameFacts, SMTT(60) DEF Inv, ComputeFrames, IsCurrent
<1>4. RestoreFrames'
  BY <1>u, <1>s, FrameFacts, SMTT(60) DEF Inv, RestoreFrames, OlderThan, IsCurrent
<1>5. Ivars'
  BY <1>u, Zenon DEF Inv, Ivars, IsCurrent
<1>6. Forced'
  <2>1. \A n \in Nodes : \A e \in Nodes : rd'[Root(n)][e] = "off"
    BY <1>s, FrameFacts DEF NoReads
  <2> QED
    BY <1>u, <1>q, <2>1, Zenon DEF Forced
<1>7. QuietBetweenRuns'
  BY <1>u, <1>q, Zenon DEF QuietBetweenRuns
<1> QED
  BY <1>1, <1>2, <1>3, <1>4, <1>5, <1>6, <1>7, Zenon DEF Inv

(* The steps of the outside world touch no node.                              *)
LEMMA WorldPreserves ==
    ASSUME Inv, CancelBuild \/ \E n \in Leaves, v \in Values : ChangeInput(n, v)
    PROVE  Inv'
<1> USE DEF worldVars, nodeVars, frameVars, cycleVars
<1>1. TypeOK'
  <2>1. CASE CancelBuild
    BY <2>1, Zenon DEF CancelBuild, Inv, TypeOK
  <2>2. CASE \E n \in Leaves, v \in Values : ChangeInput(n, v)
    <3>1. PICK n \in Leaves, v \in Values : ChangeInput(n, v)
      BY <2>2, Zenon
    <3>2. input' \in [Leaves -> Values] /\ pending' \subseteq Nodes
      BY <3>1, MemoAssumption, SMTT(60) DEF ChangeInput, Inv, TypeOK
    <3> QED
      BY <3>1, <3>2, Zenon DEF ChangeInput, Inv, TypeOK
  <2> QED
    BY <2>1, <2>2, Zenon
<1>u. UNCHANGED <<run, top, nodeVars, rd, res, stack, frameVars, cycleVars, nonReproAt>>
  BY Zenon DEF CancelBuild, ChangeInput
<1>2. Currency' /\ Stored'
  BY <1>u, NodesStay, Zenon DEF Inv
<1>3. ComputeFrames'
  BY <1>u, Zenon DEF Inv, ComputeFrames, OlderThan, IsCurrent
<1>r. RestoreFrames'
  BY <1>u, Zenon DEF Inv, RestoreFrames, OlderThan, IsCurrent
<1>v. Ivars'
  BY <1>u, Zenon DEF Inv, Ivars, IsCurrent
<1>4. Forced' /\ QuietBetweenRuns'
  BY <1>u, SMTT(60) DEF Inv, Forced, Waits, QuietBetweenRuns
<1> QED
  BY <1>1, <1>2, <1>3, <1>r, <1>v, <1>4, Zenon DEF Inv

(* Between runs nothing runs, and in the new run nothing is up to date yet.   *)
LEMMA ResetPreserves ==
    ASSUME Inv, NEW invalidated \in {pending, Nodes}, Reset(invalidated)
    PROVE  Inv'
<1> USE DEF worldVars, nodeVars, frameVars, cycleVars
<1>u. /\ top = "idle" /\ run < MaxRun /\ run' = run + 1
      /\ pending' = {} /\ cycle' = "none" /\ dag' = {}
      /\ res' = [f \in Frames |-> "none"]
      /\ UNCHANGED <<input, top, cancel, value, deps, changedAt, validatedAt, saw, rd,
                     stack, frameVars, nonReproAt>>
  BY Zenon DEF Reset
<1>t. /\ run \in 0 .. MaxRun /\ MaxRun \in Nat
      /\ state \in [Nodes -> States]
      /\ validatedAt \in [Nodes -> Nat \union {Invalid}]
      /\ changedAt \in [Nodes -> Nat \union {Invalid}]
  BY MemoAssumption, Zenon DEF Inv, TypeOK
<1>q. \A n \in Nodes : state[n] \notin {"Restoring", "Computing"}
  BY <1>u, Zenon DEF Inv, QuietBetweenRuns
<1>s. state' \in [Nodes -> States] /\ \A n \in Nodes : state'[n] \notin {"Restoring", "Computing"}
  <2>1. \A n \in Nodes :
          /\ Invalidated(n) \in States
          /\ Invalidated(n) \notin {"Restoring", "Computing"}
    BY <1>t, <1>q, Zenon DEF Invalidated, States
  <2> QED
    BY <2>1, <1>t, <1>q, Zenon DEF Reset
<1>n. \A n \in Nodes : ~IsCurrent(n)' /\ validatedAt[n] <= run'
  <2> SUFFICES ASSUME NEW n \in Nodes PROVE ~IsCurrent(n)' /\ validatedAt[n] <= run'
    BY Zenon
  <2>1. validatedAt[n] <= run
    BY Zenon DEF Inv, Currency
  <2>2. validatedAt[n] \in Int /\ run \in Int
    BY <1>t DEF Invalid
  <2> QED
    BY <2>1, <2>2, <1>u DEF IsCurrent
<1>r. \A n \in Nodes : /\ rd[Compute(n)] = NoReads /\ seen[n] = Nothing
                       /\ sofar[n] = <<>> /\ section[n] = {}
                       /\ rd[Restore(n)] = NoReads /\ stage[n] = 0
  BY <1>q, Zenon DEF Inv, ComputeFrames, RestoreFrames
<1>1. TypeOK'
  <2>1. run' \in 0 .. MaxRun
    BY <1>t, <1>u
  <2>2. res' \in [Frames -> Outcomes \union {"none"}]
    BY <1>u, Zenon
  <2> QED
    BY <2>1, <2>2, <1>u, <1>s, Zenon DEF Inv, TypeOK
<1>2. Currency'
  BY <1>n, <1>u, Zenon DEF Inv, Currency
<1>3. Stored'
  BY <1>u, SMTT(60) DEF Inv, Stored, Restorable, Deps
<1>4. ComputeFrames'
  <2>1. \A d \in Nodes : NoReads[d] = "off"
    BY Zenon DEF NoReads
  <2>2. SectionsOf(<<>>) = {}
    BY DEF SectionsOf
  <2> QED
    BY <1>r, <1>u, <2>1, <2>2, NothingSeen, Zenon DEF ComputeFrames
<1>5. RestoreFrames'
  <2>1. \A d \in Nodes : NoReads[d] = "off"
    BY Zenon DEF NoReads
  <2>2. \A n \in Nodes : Len(deps[n]) \in Nat
    <3>1. deps \in [Nodes -> Seq(SUBSET Nodes)]
      BY Zenon DEF Inv, TypeOK
    <3> QED
      BY <3>1
  <2> QED
    BY <1>r, <1>u, <2>1, <2>2, SMTT(60) DEF RestoreFrames
<1>6. Ivars'
  BY <1>u, FrameFacts, Zenon DEF Ivars
<1>7. Forced'
  BY <1>u, <1>s, Zenon DEF Inv, Forced
<1>8. QuietBetweenRuns'
  BY <1>s, Zenon DEF QuietBetweenRuns
<1> QED
  BY <1>1, <1>2, <1>3, <1>4, <1>5, <1>6, <1>7, <1>8, Zenon DEF Inv

(* The invariant holds initially.                                             *)
LEMMA InitInv == Init => Inv
<1> SUFFICES ASSUME Init PROVE Inv
  BY Zenon
<1> USE DEF Init
<1>n. /\ NoReads \in [Nodes -> Pcs] /\ \A d \in Nodes : NoReads[d] = "off"
  BY Zenon DEF NoReads, Pcs
<1>e. <<>> \in Seq(Frames) /\ <<>> \in Seq(SUBSET Nodes) /\ Len(<<>>) = 0 /\ SectionsOf(<<>>) = {}
  BY DEF SectionsOf
<1>f. /\ \A n \in Nodes : Deps(n) = {}
      /\ \A n \in Nodes : ~IsCurrent(n)
  BY <1>e DEF Deps, IsCurrent, Invalid
<1>1. TypeOK
  <2>1. /\ run \in 0 .. MaxRun /\ input \in [Leaves -> Values] /\ pending \subseteq Nodes
        /\ top \in {"idle", "running"} /\ cancel \in {"no", "yes"}
        /\ dag \subseteq Frames \X Frames /\ cycle \in {"none", "found"}
        /\ nonReproAt \in Nat \union {Invalid}
    BY MemoAssumption
  <2>2. state \in [Nodes -> States] /\ value \in [Nodes -> Value]
    BY Zenon DEF States, Value
  <2>3. /\ deps \in [Nodes -> Seq(SUBSET Nodes)] /\ sofar \in [Nodes -> Seq(SUBSET Nodes)]
        /\ stack \in [Frames -> Seq(Frames)]
    BY <1>e, Zenon
  <2>4. /\ changedAt \in [Nodes -> Nat \union {Invalid}]
        /\ validatedAt \in [Nodes -> Nat \union {Invalid}]
        /\ stage \in [Nodes -> Nat] /\ section \in [Nodes -> SUBSET Nodes]
    BY Zenon
  <2>5. saw \in [Nodes -> Views] /\ seen \in [Nodes -> Views]
    BY NothingSeen, Zenon
  <2>6. rd \in [Frames -> [Nodes -> Pcs]]
    BY <1>n, Zenon
  <2>7. res \in [Frames -> Outcomes \union {"none"}]
    BY Zenon
  <2> QED
    BY <2>1, <2>2, <2>3, <2>4, <2>5, <2>6, <2>7, Zenon DEF TypeOK
<1>2. Currency
  BY <1>f DEF Currency, Invalid
<1>3. Stored
  BY <1>f, NothingSeen, Zenon DEF Stored, Restorable
<1>4. ComputeFrames
  BY <1>n, <1>e, FrameFacts, NothingSeen DEF ComputeFrames
<1>5. RestoreFrames
  BY <1>n, <1>e, FrameFacts DEF RestoreFrames
<1>6. Ivars
  BY FrameFacts, Zenon DEF Ivars
<1>7. Forced /\ QuietBetweenRuns
  BY <1>n, FrameFacts, Zenon DEF Forced, QuietBetweenRuns
<1> QED
  BY <1>1, <1>2, <1>3, <1>4, <1>5, <1>6, <1>7, Zenon DEF Inv

(* Every step of Memo preserves the invariant.                                *)
LEMMA NextInv == Inv /\ [Next]_vars => Inv'
<1> SUFFICES ASSUME Inv, [Next]_vars PROVE Inv'
  BY Zenon
<1>1. ASSUME NEW f \in Frames, NEW d \in Asking(f), Read(f, d) PROVE Inv'
  <2>1. d \in Nodes
    BY Zenon DEF Asking
  <2> QED
    BY <1>1, <2>1, ReadPreserves, StartPreserves, Zenon DEF Read
<1>2. ASSUME NEW n \in Nodes, Frame(n) PROVE Inv'
  BY <1>2, RestoreNextSectionPreserves, RestoreUnchangedPreserves, RestoreChangedPreserves,
     RestoreCancelledPreserves, ComputeNextSectionPreserves, ComputeReturnsPreserves, Zenon DEF Frame
<1>3. CASE FinishRun
  BY <1>3, FinishRunPreserves, Zenon
<1>4. ASSUME NEW goals \in Goals, NEW how \in TopLevels, StartRun(goals, how) PROVE Inv'
  BY <1>4, StartRunPreserves, Zenon
<1>5. CASE CancelBuild \/ \E n \in Leaves, v \in Values : ChangeInput(n, v)
  BY <1>5, WorldPreserves, Zenon
<1>6. ASSUME NEW invalidated \in {pending, Nodes}, Reset(invalidated) PROVE Inv'
  BY <1>6, ResetPreserves, Zenon
<1>7. CASE UNCHANGED vars
  <2> USE DEF vars, worldVars, nodeVars, frameVars, cycleVars
  <2>0. TypeOK'
    BY <1>7, Zenon DEF Inv, TypeOK
  <2>1. Currency' /\ Stored'
    BY <1>7, NodesStay, Zenon DEF Inv
  <2>3. ComputeFrames' /\ Ivars'
    BY <1>7, Zenon DEF Inv, ComputeFrames, Ivars, IsCurrent
  <2>4. RestoreFrames'
    BY <1>7, ZenonT(60) DEF Inv, RestoreFrames, OlderThan, IsCurrent
  <2>5. Forced' /\ QuietBetweenRuns'
    BY <1>7, SMTT(60) DEF Inv, Forced, Waits, QuietBetweenRuns
  <2> QED
    BY <2>0, <2>1, <2>3, <2>4, <2>5, Zenon DEF Inv
<1> QED
  BY <1>1, <1>2, <1>3, <1>4, <1>5, <1>6, <1>7, Zenon DEF Next, Progress

(* A node becomes Restoring or Computing only when a fiber starts it.         *)
LEMMA OnlyStarts ==
    ASSUME Inv, [Next]_vars, NEW n \in Nodes,
           state'[n] # state[n], state'[n] \in {"Restoring", "Computing"}
    PROVE  \E f \in Frames : StartRestoring(f, n) \/ StartComputing(f, n)
<1> USE DEF nodeVars
<1>t. state \in [Nodes -> States]
  BY Zenon DEF Inv, TypeOK
<1>1. ASSUME NEW f \in Frames, NEW d \in Asking(f), Read(f, d)
      PROVE  StartRestoring(f, n) \/ StartComputing(f, n)
  <2>1. StartRestoring(f, d) \/ StartComputing(f, d)
    BY <1>1, Zenon DEF Read, ReadCurrent, BlockOnRestore, RestoreEnded, AnswerChanged, AlreadyComputed,
                BlockOnCompute, ComputeEnded, Answer
  <2>2. d \in Nodes /\ \A m \in Nodes \ {d} : state'[m] = state[m]
    BY <2>1, <1>t, Zenon DEF Asking, StartRestoring, StartComputing
  <2> QED
    BY <2>1, <2>2, Zenon
<1>2. ASSUME NEW m \in Nodes, Frame(m) PROVE FALSE
  <2>1. \/ state' = state
        \/ state' = [state EXCEPT ![m] = "Cached"]
        \/ state' = [state EXCEPT ![m] = "Out_of_date"]
    BY <1>2, Zenon DEF Frame, RestoreNextSection, RestoreUnchanged, RestoreChanged, RestoreCancelled,
                ComputeNextSection, ComputeReturns, UpdateValue
  <2> QED
    BY <2>1, <1>t, Zenon
<1>3. ASSUME FinishRun \/ CancelBuild
             \/ (\E goals \in Goals, how \in TopLevels : StartRun(goals, how))
             \/ (\E m \in Leaves, v \in Values : ChangeInput(m, v))
      PROVE  FALSE
  BY <1>3, Zenon DEF FinishRun, CancelBuild, StartRun, ChangeInput
<1>4. ASSUME NEW invalidated \in {pending, Nodes}, Reset(invalidated) PROVE FALSE
  BY <1>4, <1>t, Zenon DEF Reset, Invalidated
<1>5. CASE UNCHANGED vars
  BY <1>5, Zenon DEF vars
<1> QED
  BY <1>1, <1>2, <1>3, <1>4, <1>5, Zenon DEF Next, Progress

(* Every field has its type, whatever the graph of nodes.                     *)
THEOREM MemoTypeCorrect == Spec => []TypeOK
<1>1. Inv => TypeOK
  BY Zenon DEF Inv
<1> QED
  BY <1>1, InitInv, NextInv, PTL DEF Spec

(* A node that Memo takes as up to date (exec_dep_node_now) holds what its    *)
(* function returns on the present values of its deps, which are themselves   *)
(* up to date: whichever of restore_from_cache and compute brought it there,  *)
(* and however restorations, computations, cycles, cancellations and resets   *)
(* interleave.                                                                *)
THEOREM MemoConsistent == Spec => []Consistent
<1>1. Inv => Consistent
  <2> SUFFICES ASSUME Inv, NEW n \in Nodes \ Leaves, IsCurrent(n), ~IsNonReproducible(value[n])
               PROVE  /\ \A d \in Deps(n) : IsCurrent(d)
                      /\ LET view == [d \in Deps(n) |-> Observed(value[d])]
                         IN  value[n] = Result(n, view) /\ Reads(n, view) = {}
    BY Zenon DEF Consistent
  <2> DEFINE view == [d \in Deps(n) |-> Observed(value[d])]
  <2>t. /\ validatedAt \in [Nodes -> Nat \union {Invalid}] /\ run \in Nat
        /\ saw[n] \in Views /\ Deps(n) \subseteq Nodes
    BY SMTT(60) DEF Inv, TypeOK, Deps
  <2>1. \A d \in Deps(n) : IsCurrent(d)
    BY Zenon DEF Inv, Currency
  <2>2. Restorable(n)
    BY <2>t, SMTT(60) DEF Restorable, Inv, Currency, IsCurrent, Invalid
  <2>3. value[n] = Result(n, saw[n]) /\ Reads(n, saw[n]) = {}
    BY <2>2, Zenon DEF Inv, Stored
  <2>4. \A d \in Deps(n) : saw[n][d] = Observed(value[d])
    <3> SUFFICES ASSUME NEW d \in Deps(n) PROVE changedAt[d] <= validatedAt[n]
      BY Zenon DEF Inv, Stored
    <3>1. validatedAt[d] = validatedAt[n]
      BY <2>1, Zenon DEF IsCurrent
    <3> QED
      BY <3>1, <2>t, Zenon DEF Inv, Currency
  <2>5. saw[n] = view
    <3>1. DOMAIN saw[n] = Deps(n)
      BY Zenon DEF Inv, Stored
    <3>2. PICK S \in SUBSET Nodes : saw[n] \in [S -> Observable]
      BY <2>t, Zenon DEF Views
    <3>3. saw[n] = [d \in DOMAIN saw[n] |-> saw[n][d]]
      BY <3>2, Zenon
    <3> QED
      BY <3>1, <3>3, <2>4, Zenon
  <2> QED
    BY <2>1, <2>3, <2>5, Zenon
<1> QED
  BY <1>1, InitInv, NextInv, PTL DEF Spec

(* The error branches of consider_and_compute_without_adding_dep are dead.    *)
THEOREM MemoNoCodeError == Spec => []NoCodeError
<1>1. Inv => NoCodeError
  BY Zenon DEF Inv, NoCodeError, MustCompute, NotRestored, Ivars, Currency
<1> QED
  BY <1>1, InitInv, NextInv, PTL DEF Spec

(* Memo.reset finds every node at rest: Node.invalidate never raises.         *)
THEOREM MemoQuiet == Spec => []QuietBetweenRuns
<1>1. Inv => QuietBetweenRuns
  BY Zenon DEF Inv
<1> QED
  BY <1>1, InitInv, NextInv, PTL DEF Spec

(* No computation is forced again after its ivar is filled: a node is         *)
(* restored at most once and computed at most once in a run.                  *)
THEOREM MemoOncePerRun == Spec => OncePerRun
<1>1. ASSUME Inv, [Next]_vars, NEW n \in Nodes
      PROVE  /\ state[n] # "Restoring" /\ state'[n] = "Restoring" => res[Restore(n)] = "none"
             /\ state[n] # "Computing" /\ state'[n] = "Computing" => res[Compute(n)] = "none"
  <2>t. state \in [Nodes -> States]
    BY <1>1, Zenon DEF Inv, TypeOK
  <2>1. ASSUME state[n] # "Restoring", state'[n] = "Restoring" PROVE res[Restore(n)] = "none"
    <3>1. PICK f \in Frames : StartRestoring(f, n) \/ StartComputing(f, n)
      BY <1>1, <2>1, OnlyStarts, Zenon
    <3>2. state[n] = "Cached" /\ ~IsCurrent(n)
      BY <2>1, <3>1, <2>t, Zenon DEF StartRestoring, StartComputing
    <3> QED
      BY <1>1, <3>2, Zenon DEF Inv, Ivars
  <2>2. ASSUME state[n] # "Computing", state'[n] = "Computing" PROVE res[Compute(n)] = "none"
    <3>1. PICK f \in Frames : StartRestoring(f, n) \/ StartComputing(f, n)
      BY <1>1, <2>2, OnlyStarts, Zenon
    <3>2. state[n] \in {"Not_cached", "Out_of_date"}
      BY <2>2, <3>1, <2>t, Zenon DEF StartRestoring, StartComputing
    <3> QED
      BY <1>1, <3>2, Zenon DEF Inv, Ivars, Currency
  <2> QED
    BY <2>1, <2>2, Zenon
<1>2. Inv /\ [Next]_vars =>
        [\A n \in Nodes :
           /\ state[n] # "Restoring" /\ state'[n] = "Restoring" => res[Restore(n)] = "none"
           /\ state[n] # "Computing" /\ state'[n] = "Computing" => res[Compute(n)] = "none"]_vars
  BY <1>1, Zenon
<1> QED
  BY <1>2, InitInv, NextInv, PTL DEF Spec, OncePerRun
=============================================================================
