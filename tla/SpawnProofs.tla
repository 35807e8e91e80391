---------------------------- MODULE SpawnProofs ----------------------------
(***************************************************************************)
(* Spawn keeps its invariant, leaves no orphan, executes programs as asked,*)
(* leaves the caller as it was and implements SpawnService, for any number *)
(* of threads and any requests.                                            *)
(***************************************************************************)
EXTENDS SpawnSteps, SpawnChildren, FiniteSetTheorems, NaturalsInduction, WellFoundedInduction

(* The lowest free descriptor is one of the free ones.                     *)
LEMMA MinIsMember ==
    ASSUME NEW S, S \subseteq Nat, S # {}
    PROVE  Min(S) \in S
<1>1. PICK m \in S : \A y \in S : <<y, m>> \notin OpToRel(<, Nat)
    BY NatLessThanWellFounded, WFMin, Zenon
<1>2. \A y \in S : ~(y < m)
    BY <1>1, Zenon DEF OpToRel
<1>3. \E x \in S : \A y \in S : x <= y
    BY <1>2
<1>4. QED
    BY <1>3, Zenon DEF Min

(* pipe takes two descriptors that are free.                               *)
LEMMA TwoAreFree ==
    ASSUME NEW tab, Cardinality(Free(tab)) >= 2
    PROVE  /\ LowestTwo(tab)[1] \in Free(tab)
           /\ LowestTwo(tab)[2] \in Free(tab)
           /\ LowestTwo(tab)[1] # LowestTwo(tab)[2]
<1> DEFINE F == Free(tab)
           r == Min(F)
<1>1. F \subseteq 0 .. MaxFd /\ IsFiniteSet(0 .. MaxFd)
    BY SpawnAssumption, FS_Interval, SMTT(60) DEF Free
<1>2. IsFiniteSet(F) /\ F \subseteq Nat
    <2>1. IsFiniteSet(F)
        BY <1>1, FS_Subset, ZenonT(60)
    <2>2. 0 .. MaxFd \subseteq Nat
        BY SpawnAssumption
    <2>3. QED
        BY <1>1, <2>1, <2>2, Zenon
<1>3. r \in F
    <2>1. F # {}
        BY FS_EmptySet, SMTT(60)
    <2>2. QED
        BY <1>2, <2>1, MinIsMember, Zenon
<1>4. F \ {r} # {}
    <2>1. Cardinality(F \ {r}) = Cardinality(F) - 1
        BY <1>2, <1>3, FS_RemoveElement, ZenonT(60)
    <2>2. Cardinality(F) \in Nat
        BY <1>2, FS_CardinalityType, ZenonT(60)
    <2>3. QED
        BY <2>1, <2>2, FS_EmptySet
<1>5. Min(F \ {r}) \in F \ {r}
    BY <1>2, <1>4, MinIsMember, ZenonT(60)
<1>6. QED
    BY <1>3, <1>5, Zenon DEF LowestTwo

(* What the steps that open descriptors rely on.                           *)
LEMMA DescriptorsAreFree == TakesFree
<1>1. ASSUME NEW tab
      PROVE  /\ Free(tab) # {} => Min(Free(tab)) \in Free(tab)
             /\ DupTargets(tab) # {} => SafeDup(tab) \in DupTargets(tab)
    <2>1. Free(tab) \subseteq Nat /\ DupTargets(tab) \subseteq Nat
        BY SpawnAssumption, SMTT(60) DEF Free, DupTargets
    <2>2. QED
        BY <2>1, MinIsMember, ZenonT(60) DEF SafeDup
<1>2. QED
    BY <1>1, TwoAreFree, ZenonT(60) DEF TakesFree

-----------------------------------------------------------------------------
(* What holds in every reachable state.                                    *)

(* The invariant holds in every reachable state, for any threads and any   *)
(* requests: a child of spawn_stubs.c that has not executed the program    *)
(* holds the report pipe open, and the outcome of a call agrees with the   *)
(* state of its process.                                                   *)
THEOREM SpawnInv == Spec => []Inv
<1>1. Init => Inv
    BY InitInv, ZenonT(60)
<1>2. Inv /\ [Next]_vars => Inv'
    BY NextInv, DescriptorsAreFree, Zenon
<1>3. QED
    BY <1>1, <1>2, PTL DEF Spec

(* No program outlives its caller unsignalled, whenever the caller dies:   *)
(* set_parent_death_signal looks at the parent after the prctl.            *)
THEOREM SpawnNoOrphan == Spec => []NoOrphan
<1>1. Inv => NoOrphan
    BY ZenonT(60) DEF Inv, Holds, Signalled, NoOrphan
<1>2. QED
    BY <1>1, SpawnInv, PTL

(* Every descriptor that is open belongs to the program or to one call     *)
(* that is to close or return it, is closed by an exec whenever a fork may *)
(* happen, and the masks are what the stub saved and will restore.         *)
THEOREM SpawnDInv == Spec => []DInv
<1>1. Init => DInv
    BY InitD, Zenon
<1>2. Inv /\ DInv /\ [Next]_vars => DInv'
    BY NextD, DescriptorsAreFree, Zenon
<1>3. QED
    BY <1>1, <1>2, SpawnInv, PTL DEF Spec

(* The descriptor tables, masks, places and signals of callers and         *)
(* children are of their types.                                            *)
THEOREM SpawnTypeCorrect == Spec => []TypeOK
<1>1. ASSUME Inv, DInv
      PROVE  TypeOK
    <2>1. \A fd \in DOMAIN table : fd \in 0 .. MaxFd /\ table[fd].cloexec \in BOOLEAN
        BY <1>1, ZenonT(60) DEF DInv, Accounted
    <2>2. mutex \in Threads \union {Nobody}
        BY <1>1, ZenonT(60) DEF DInv
    <2>3. ASSUME NEW t \in Threads
          PROVE  /\ thread[t].mask \subseteq Signals /\ thread[t].sigmask \subseteq Signals
                 /\ thread[t].ret \in {"none", "ok", "error"}
        BY <1>1, ZenonT(60) DEF DInv, Caller, Restores
    <2>4. ASSUME NEW t \in Threads
          PROVE  child[t].st \in Starting \union {"none", "execd", "exited", "killed", "reaped"}
        BY <1>1, ZenonT(60) DEF Inv, Holds, Matches
    <2>5. ASSUME NEW t \in Threads
          PROVE  /\ DOMAIN child[t].fds \subseteq 0 .. MaxFd
                 /\ child[t].pending \subseteq Signals \union {"KILL"}
        BY <1>1, ZenonT(60) DEF DInv, Process, Sound
    <2>6. QED
        BY <2>1, <2>2, <2>3, <2>4, <2>5, ZenonT(60) DEF TypeOK
<1>2. QED
    BY <1>1, SpawnInv, SpawnDInv, PTL

(* Every program that runs has the three standard descriptors and the mask *)
(* that were asked for, whatever the other threads open, fork and close in *)
(* between, and except on macOS no other descriptor.                       *)
THEOREM SpawnExecutedAsAsked == Spec => []ExecutedAsAsked
<1>1. ASSUME Inv, DInv
      PROVE  ExecutedAsAsked
    <2>1. ASSUME NEW t \in Threads, child[t].st = "execd"
          PROVE  /\ \A fd \in 0 .. 2 : child[t].fds[fd].obj = OwnTable[req[t].std[fd + 1]].obj
                 /\ platform # "windows" => child[t].mask = ChildSigmask(req[t], OwnMask)
                 /\ platform # "macos" => DOMAIN child[t].fds = 0 .. 2
        <3>1. /\ \A fd \in 0 .. 2 : child[t].fds[fd].obj = File(req[t].std[fd + 1])
              /\ platform # "windows" => child[t].mask = ChildSigmask(req[t], OwnMask)
              /\ platform # "macos" => DOMAIN child[t].fds = 0 .. 2
            BY <1>1, <2>1, ZenonT(60) DEF DInv, Process, Sound
        <3>2. \A i \in 1 .. 3 : req[t].std[i] \in 0 .. 3
            BY <1>1, ZenonT(60) DEF Inv, Asked, Request
        <3>3. \A fd \in 0 .. 2 : fd + 1 \in 1 .. 3
            OBVIOUS
        <3>4. \A x \in 0 .. 3 : OwnTable[x].obj = File(x)
            BY DEF OwnTable
        <3>5. QED
            BY <3>1, <3>2, <3>3, <3>4, Zenon
    <2>2. QED
        BY <2>1, ZenonT(60) DEF ExecutedAsAsked
<1>2. QED
    BY <1>1, SpawnInv, SpawnDInv, PTL

(* A call that is over has given back the mutex, restored the mask and the *)
(* working directory, and left no descriptor open but those of a pipe it   *)
(* returns, on every path and whatever other threads do.                   *)
THEOREM SpawnCallerUndisturbed == Spec => []CallerUndisturbed
<1>1. ASSUME Inv, DInv
      PROVE  CallerUndisturbed
    <2>1. DOMAIN OwnTable = 0 .. 4 /\ Accounted
        BY <1>1, ZenonT(60) DEF OwnTable, DInv
    <2>2. ASSUME NEW t \in Threads
          PROVE  OpenOf(t) /\ SoFar(t) /\ Restores(t)
        BY <1>1, Zenon DEF DInv, Caller
    <2>3. ASSUME NEW t \in Threads, thread[t].pc = "done"
          PROVE  thread[t].mask = OwnMask /\ thread[t].cwd = "process" /\ mutex # t
        BY <2>2, <2>3 DEF Restores, InSection
    <2>4. \A fd \in DOMAIN OwnTable : fd \in DOMAIN table /\ table[fd] = OwnTable[fd]
        BY <2>1, Zenon DEF Accounted
    <2>5. ASSUME NEW t \in Threads, thread[t].pc = "done", req[t].op = "pipe", thread[t].ret = "ok"
          PROVE  /\ table[thread[t].read] = [obj |-> ReadEnd(t), cloexec |-> TRUE]
                 /\ table[thread[t].write] = [obj |-> WriteEnd(t), cloexec |-> TRUE]
        <3>1. thread[t].read # Unset /\ thread[t].write # Unset
            BY <2>2, <2>5, ZenonT(60) DEF SoFar
        <3>2. thread[t].pc # "cloexec"
            BY <2>5, SMTT(60)
        <3>3. QED
            BY <2>2, <3>1, <3>2, ZenonT(60) DEF OpenOf, Closing
    <2>6. ASSUME \A u \in Threads : thread[u].pc \in {"idle", "done"},
                 NEW fd \in DOMAIN table \ DOMAIN OwnTable
          PROVE  \E u \in Threads : /\ req[u].op = "pipe" /\ thread[u].ret = "ok"
                                    /\ fd \in {thread[u].read, thread[u].write}
        <3>1. PICK u \in Threads : Holding(u, fd)
            BY <2>1, <2>6, ZenonT(60) DEF Accounted
        <3>2. /\ thread[u].ruleset = Unset
              /\ thread[u].pc \notin {"prepare", "posix", "cleanup"}
            BY <2>2, <2>6, SMTT(60) DEF SoFar
        <3>3. thread[u].tmp = <<>>
            BY <2>2, <3>2, ZenonT(60) DEF SoFar
        <3>4. fd \notin Range(thread[u].tmp)
            BY <3>3, SMTT(60) DEF Range
        <3>5. fd # Unset /\ fd \in {thread[u].read, thread[u].write}
            BY <3>1, <3>2, <3>4, Zenon DEF Holding
        <3>6. ~(thread[u].read = Unset /\ thread[u].write = Unset)
            BY <3>5, ZenonT(60)
        <3>7. thread[u].pc = "done"
            BY <2>2, <2>6, <3>6, SMTT(60) DEF SoFar, WithoutPipe
        <3>8. req[u].op = "pipe" /\ thread[u].ret = "ok"
            BY <2>2, <3>6, <3>7, ZenonT(60) DEF SoFar
        <3>9. QED
            BY <3>5, <3>8, Zenon
    <2>7. QED
        BY <2>3, <2>4, <2>5, <2>6, ZenonT(60) DEF CallerUndisturbed
<1>2. QED
    BY <1>1, SpawnInv, SpawnDInv, PTL

-----------------------------------------------------------------------------
(* spawn implements what spawn.mli promises, whatever the threads call and *)
(* however their calls, children and deaths interleave: a pid is returned  *)
(* only for a process that was started or was killed from outside, and an  *)
(* exception leaves no process behind, not even a zombie.                  *)
THEOREM SpawnImplements == Spec => KeepsPromise
<1>1. Init => Service!Init
    <2>1. SUFFICES ASSUME Init PROVE Service!Init
        BY Zenon
    <2>2. ASSUME NEW t \in Threads
          PROVE  CallState(t) = "idle" /\ ProcState(t) = "none"
        <3>1. thread[t].pc = "idle" /\ child[t].st = "none"
            BY <2>1, Zenon DEF Init, Idle, NoChild
        <3>2. QED
            BY <3>1, Zenon DEF CallState, ProcState
    <2>3. QED
        BY <2>2, ZenonT(60) DEF Service!Init
<1>2. Inv /\ [Next]_vars => [Service!Next]_(Service!vars)
    BY NextSimulates, Zenon
<1>3. QED
    BY <1>1, <1>2, SpawnInv, PTL DEF Spec, KeepsPromise, Service!Spec
=============================================================================
