--------------------------- MODULE MemoInvariant ---------------------------
(***************************************************************************)
(* The inductive invariant of Memo.  MemoProofs proves that every step     *)
(* preserves it.                                                           *)
(***************************************************************************)
EXTENDS Memo

SectionsOf(ds) == UNION {ds[i] : i \in 1 .. Len(ds)}

(* A node that is up to date is Cached and its deps are up to date; stamps    *)
(* are ordered and only a node that was computed has one.                     *)
Currency ==
    \A n \in Nodes :
      /\ IsCurrent(n) => state[n] = "Cached" /\ \A d \in Deps(n) : IsCurrent(d)
      /\ changedAt[n] <= validatedAt[n] /\ validatedAt[n] <= run
      /\ value[n] = Uninitialized => validatedAt[n] = Invalid

(* A stored value is what the function of the node returns on the values it   *)
(* saw, and a dep that did not change after the node was validated still has  *)
(* the value that was seen.                                                   *)
Stored ==
    \A n \in Nodes :
      /\ DOMAIN saw[n] = Deps(n)
      /\ n \notin Leaves /\ Restorable(n) => value[n] = Result(n, saw[n]) /\ Reads(n, saw[n]) = {}
      /\ \A d \in Deps(n) : changedAt[d] <= validatedAt[n] => saw[n][d] = Observed(value[d])

(* What a computation has read is up to date and did not change since.        *)
ComputeFrames ==
    \A n \in Nodes :
      /\ DOMAIN seen[n] = SectionsOf(sofar[n])
      /\ \A d \in DOMAIN seen[n] : IsCurrent(d) /\ seen[n][d] = Observed(value[d])
      /\ \A d \in Nodes : rd[Compute(n)][d] = "ok" => IsCurrent(d)
      /\ \A d \in Nodes : rd[Compute(n)][d] # "off" => d \in section[n]
      /\ state[n] # "Computing" =>
           rd[Compute(n)] = NoReads /\ seen[n] = Nothing /\ sofar[n] = <<>> /\ section[n] = {}

(* What a restoration found unchanged is up to date and older than the node.  *)
OlderThan(d, n) == IsCurrent(d) /\ changedAt[d] <= validatedAt[n]

RestoreFrames ==
    \A n \in Nodes :
      /\ \A d \in Nodes : rd[Restore(n)][d] \in {"ok", "unchanged"} => OlderThan(d, n)
      /\ \A d \in Nodes : rd[Restore(n)][d] # "off" => stage[n] # 0 /\ d \in deps[n][stage[n]]
      /\ stage[n] <= Len(deps[n])
      /\ \A i \in 1 .. stage[n] - 1 : \A d \in deps[n][i] : OlderThan(d, n)
      /\ state[n] # "Restoring" => rd[Restore(n)] = NoReads /\ stage[n] = 0

(* A computation whose ivar is full is never forced again in the run.         *)
Ivars ==
    \A n \in Nodes :
      /\ res[Compute(n)] # "none" => IsCurrent(n)
      /\ res[Restore(n)] # "none" =>
           \/ IsCurrent(n)
           \/ res[Restore(n)] = "changed" /\ state[n] \in {"Out_of_date", "Computing"}

(* Every running frame has a fiber that waits for it, of a frame that runs    *)
(* and that is lower on the stack.                                            *)
Waits(g, n, pc, f) ==
    /\ rd[g][n] = pc
    /\ Len(stack[g]) < Len(stack[f])
    /\ g[1] = "restore" => state[g[2]] = "Restoring"
    /\ g[1] = "compute" => state[g[2]] = "Computing"

Forced ==
    \A n \in Nodes :
      /\ state[n] = "Restoring" => \E g \in Frames : Waits(g, n, "waitRestore", Restore(n))
      /\ state[n] = "Computing" => \E g \in Frames : Waits(g, n, "waitCompute", Compute(n))
      /\ \A d \in Nodes : rd[Root(n)][d] # "off" => d = n /\ top = "running"

Inv ==
    /\ TypeOK
    /\ Currency
    /\ Stored
    /\ ComputeFrames
    /\ RestoreFrames
    /\ Ivars
    /\ Forced
    /\ QuietBetweenRuns
=============================================================================
