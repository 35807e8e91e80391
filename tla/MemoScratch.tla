----------------------------- MODULE MemoScratch -----------------------------
(***************************************************************************)
(* What Memo promises: the values of a build without any cache.            *)
(*                                                                         *)
(* Scratch is the evaluation of the graph from scratch, on the leaves as   *)
(* this run read them (or will read them); a node that depends on itself   *)
(* is not in its domain.  The properties compare the incremental engine of *)
(* Memo with it.                                                           *)
(***************************************************************************)
EXTENDS Memo, Functions, TLC

Snapshot == [n \in Leaves |-> IF IsCurrent(n) THEN Observed(value[n]) ELSE <<"ok", input[n]>>]

(* The nodes that the function of n reads when the nodes of known are known:  *)
(* it stops at the first section with a node that is not known.               *)
Demand(n, known) ==
    LET upto[k \in 0 .. Cardinality(Nodes)] ==
            IF k = 0 THEN {}
            ELSE LET before == upto[k - 1]
                 IN  IF before \subseteq DOMAIN known
                     THEN before \union Reads(n, Restrict(known, before)) ELSE before
    IN  IF n \in Leaves THEN {} ELSE upto[Cardinality(Nodes)]

(* f itself; TLC evaluates f @@ g to a table of its values.                   *)
Tabulated(f) == f @@ Nothing

(* The evaluation of the graph, for each choice of what the leaves hold.      *)
Evaluation ==
    LET Evaluate(leaves, known) ==
            [n \in {n \in Nodes : Demand(n, known) \subseteq DOMAIN known} |->
                IF n \in Leaves THEN leaves[n]
                ELSE Result(n, Restrict(known, Demand(n, known)))]
        Rounds(leaves) ==
            LET round[k \in 0 .. Cardinality(Nodes)] ==
                    IF k = 0 THEN Nothing ELSE Evaluate(leaves, round[k - 1])
            IN  round[Cardinality(Nodes)]
    IN  Tabulated([leaves \in [Leaves -> Observable] |-> Tabulated(Rounds(leaves))])

Scratch == Evaluation[Snapshot]

Needed(roots) ==
    LET known == Scratch
        near[k \in 0 .. Cardinality(Nodes)] ==
            IF k = 0 THEN roots
            ELSE LET before == near[k - 1]
                 IN  before \union UNION {Demand(n, known) : n \in before}
    IN  near[Cardinality(Nodes)]

Roots == {n \in Nodes : rd[Root(n)][n] # "off"}

-----------------------------------------------------------------------------
(* A node that is up to date has the value of a build from scratch, whatever  *)
(* happened in earlier runs, and a leaf whose change was announced before the *)
(* last reset, or that reads the current run, was read again.  Errors of a    *)
(* cancelled build and of a dependency cycle are the exception.               *)
FromScratch ==
    LET known == Scratch IN
    \A n \in Nodes : IsCurrent(n) =>
      /\ n \in DOMAIN known /\ Observed(value[n])[2] \notin Exns => value[n] = known[n]
      /\ n \in Leaves \ (pending \union RunNodes) => value[n] = <<"ok", input[n]>>
      /\ n \in RunNodes => res[Compute(n)] = "done"

(* A run computes only nodes that a build of its goals from scratch computes: *)
(* deps are checked in the order in which they were read, so a dep that is    *)
(* not relevant any more is left alone (Deps.changed_or_not).                 *)
NothingInVain ==
    [][\A n \in Nodes :
         state[n] # "Computing" /\ state'[n] = "Computing" /\ nonReproAt # run /\ cycle = "none"
           => n \in Needed(Roots)]_vars

(* A read fails with a dependency cycle only in a run one of whose goals does *)
(* depend on itself: deps recorded in an earlier run cannot make one up, and  *)
(* a cycle of an earlier top-level run does not leak into a later one         *)
(* (Memo.run).                                                                *)
CyclesAreReal ==
    (\E f \in Frames, d \in Nodes : rd[f][d] = "cancelled")
      => ~(Needed(Roots) \subseteq DOMAIN Scratch)

=============================================================================
