----------------------------- MODULE SpawnSteps -----------------------------
(***************************************************************************)
(* Every step of Spawn keeps the first part of its invariant, and is one   *)
(* of SpawnService or leaves it alone.                                     *)
(***************************************************************************)
EXTENDS SpawnInvariant, TLAPS

-----------------------------------------------------------------------------
(* Descriptor tables.                                                      *)

(* Installing a descriptor.                                                *)
LEMMA Installed ==
    ASSUME NEW tab, NEW fd, NEW obj, NEW cloexec
    PROVE  LET new == Install(tab, fd, obj, cloexec) IN
           /\ DOMAIN new = DOMAIN tab \union {fd}
           /\ new[fd] = [obj |-> obj, cloexec |-> cloexec]
           /\ \A x \in DOMAIN tab : x # fd => new[x] = tab[x]
BY Zenon DEF Install

(* Closing descriptors.                                                    *)
LEMMA Closed ==
    ASSUME NEW tab, NEW fds
    PROVE  /\ DOMAIN Close(tab, fds) = DOMAIN tab \ fds
           /\ \A x \in DOMAIN tab \ fds : Close(tab, fds)[x] = tab[x]
BY Zenon DEF Close, Restrict

-----------------------------------------------------------------------------
(* Steps of one call, which leave the others alone.                        *)

Apart(t) ==
    /\ UNCHANGED <<platform, alive, req>>
    /\ DOMAIN thread' = DOMAIN thread /\ DOMAIN child' = DOMAIN child
    /\ \A u \in Threads \ {t} : thread'[u] = thread[u] /\ child'[u] = child[u]

(* A step of t closes no descriptor but those that belong to t.            *)
ClosesOwn(t) ==
    Forks => \A fd \in DOMAIN table :
                \/ fd \in DOMAIN table' /\ table'[fd].obj = table[fd].obj
                \/ table[fd].obj \in {ReadEnd(t), WriteEnd(t), Ruleset(t)}

(* Every descriptor that is open after a step has an object.               *)
OnlyTables ==
    Forks => Unset \notin DOMAIN table' /\ \A fd \in DOMAIN table' : "obj" \in DOMAIN table'[fd]

(* What a step of t must show; the rest of the invariant follows.          *)
LEMMA StepOf ==
    ASSUME Inv, NEW t \in Threads, Apart(t), ClosesOwn(t), OnlyTables,
           DOMAIN thread'[t] = ThreadFields, DOMAIN child'[t] = ChildFields,
           Holds(t)'
    PROVE  Inv'
<1>1. Shape'
    BY Zenon DEF Inv, Shape, Apart
<1>2. Asked'
    BY Zenon DEF Inv, Asked, Apart, Callable
<1>3. FilesOpen'
    <2>1. SUFFICES ASSUME Forks
                   PROVE  \A fd \in 0 .. 4 : fd \in DOMAIN table' /\ table'[fd].obj = File(fd)
        BY <1>2, Zenon DEF FilesOpen, OnlyTables, Apart, Forks
    <2>2. \A fd \in 0 .. 4 : fd \in DOMAIN table /\ table[fd].obj = File(fd)
        BY <2>1, Zenon DEF Inv, FilesOpen
    <2>3. \A fd : File(fd) \notin {ReadEnd(t), WriteEnd(t), Ruleset(t)}
        BY Zenon DEF File, ReadEnd, WriteEnd, Ruleset
    <2>4. QED
        BY <2>1, <2>2, <2>3, Zenon DEF ClosesOwn
<1>4. ASSUME NEW u \in Threads, u # t
      PROVE  Holds(u)'
    <2>1. Holds(u)
        BY Zenon DEF Inv
    <2>2. thread'[u] = thread[u] /\ child'[u] = child[u]
        BY <1>4, Zenon DEF Apart
    <2>3. platform' = platform /\ alive' = alive /\ req' = req
        BY Zenon DEF Apart
    <2>4. OnItsWay(u)'
        BY <2>1, <2>2, <2>3, Zenon DEF Holds, OnItsWay, Forks
    <2>5. Matches(u)'
        BY <2>1, <2>2, <2>3, Zenon DEF Holds, Matches
    <2>6. HoldsPipe(u)'
        BY <2>1, <2>2, Zenon DEF Holds, HoldsPipe
    <2>7. Signalled(u)'
        BY <2>1, <2>2, <2>3, Zenon DEF Holds, Signalled
    <2>8. Owns(u)'
        <3>1. SUFFICES ASSUME Forks
                       PROVE  /\ OwnFd(thread[u].read, ReadEnd(u))'
                              /\ OwnFd(thread[u].write, WriteEnd(u))'
                              /\ OwnFd(thread[u].ruleset, Ruleset(u))'
            BY <2>1, <2>2, <2>3, Zenon DEF Holds, Owns, Forks
        <3>2. /\ ReadEnd(u) \notin {ReadEnd(t), WriteEnd(t), Ruleset(t)}
              /\ WriteEnd(u) \notin {ReadEnd(t), WriteEnd(t), Ruleset(t)}
              /\ Ruleset(u) \notin {ReadEnd(t), WriteEnd(t), Ruleset(t)}
            BY <1>4, Zenon DEF ReadEnd, WriteEnd, Ruleset
        <3>3. QED
            BY <2>1, <2>2, <3>1, <3>2, Zenon DEF Holds, Owns, OwnFd, ClosesOwn
    <2>9. QED
        BY <2>4, <2>5, <2>6, <2>7, <2>8, Zenon DEF Holds
<1>5. QED
    BY <1>1, <1>2, <1>3, <1>4, Zenon DEF Inv

(* A step that leaves the descriptors of the caller alone.                 *)
LEMMA ProcessStepOf ==
    ASSUME Inv, NEW t \in Threads, Apart(t), UNCHANGED table,
           DOMAIN thread'[t] = DOMAIN thread[t], DOMAIN child'[t] = ChildFields,
           thread'[t].read = thread[t].read, thread'[t].write = thread[t].write,
           thread'[t].ruleset = thread[t].ruleset,
           thread'[t] = thread[t] \/ thread'[t].pc \notin {"cloexec", "fork"},
           OnItsWay(t)', Matches(t)', HoldsPipe(t)', Signalled(t)'
    PROVE  Inv'
<1>1. Holds(t) /\ Shape
    BY Zenon DEF Inv
<1>2. Owns(t)'
    BY <1>1, Zenon DEF Holds, Owns, OwnFd, Forks, Apart
<1>3. ClosesOwn(t) /\ OnlyTables
    BY Zenon DEF ClosesOwn, OnlyTables, Inv, FilesOpen
<1>4. DOMAIN thread'[t] = ThreadFields
    BY <1>1, Zenon DEF Shape
<1>5. QED
    BY <1>2, <1>3, <1>4, StepOf, Zenon DEF Holds

-----------------------------------------------------------------------------
(* Steps of the child.                                                     *)

(* A child ends: it reports, or it is killed, or its program is over.      *)
LEMMA EndInv ==
    ASSUME Inv, NEW t \in Threads, Live(t), UNCHANGED ThreadVars,
           NEW st \in {"exited", "killed"}, NEW report \in BOOLEAN,
           report => st = "exited" /\ child[t].st \in Starting,
           child' = [child EXCEPT ![t] = Gone(st, report)]
    PROVE  Inv'
<1>1. Holds(t) /\ DOMAIN child = Threads /\ DOMAIN child[t] = ChildFields
    BY Zenon DEF Inv, Shape
<1>2. child'[t].st = st /\ child'[t].report = report /\ DOMAIN child'[t] = ChildFields
    BY <1>1, Zenon DEF Gone, NoChild, ChildFields
<1>3. UNCHANGED <<platform, alive, table, req, thread>>
    BY Zenon DEF ThreadVars
<1>4. Apart(t)
    BY <1>1, <1>3, Zenon DEF Apart
<1>5. OnItsWay(t)'
    BY <1>1, <1>3, Zenon DEF Holds, OnItsWay, Forks
<1>6. Matches(t)'
    <2>1. thread[t].pc \notin BeforeChild
        BY <1>1 DEF Holds, Matches, Live, NoChild, Starting
    <2>2. QED
        BY <1>1, <1>2, <1>3, <2>1 DEF Holds, Matches, Live, Starting, NoChild
<1>7. HoldsPipe(t)' /\ Signalled(t)'
    BY <1>2, Zenon DEF HoldsPipe, Signalled, Starting
<1>8. QED
    BY <1>2, <1>3, <1>4, <1>5, <1>6, <1>7, ProcessStepOf, Zenon

LEMMA FailureInv ==
    ASSUME Inv, NEW t \in Threads, child[t].st \in Starting, Failure(t), UNCHANGED ThreadVars
    PROVE  Inv'
BY EndInv, Zenon DEF Failure, Live

(* A child goes on, with what it must show.                                *)
LEMMA GoesOnInv ==
    ASSUME Inv, NEW t \in Threads, child[t].st \in Starting, UNCHANGED ThreadVars,
           DOMAIN child' = DOMAIN child, \A u \in Threads \ {t} : child'[u] = child[u],
           DOMAIN child'[t] = DOMAIN child[t], child'[t].report = child[t].report,
           child'[t].st \in Starting \union {"execd"}, HoldsPipe(t)', Signalled(t)'
    PROVE  Inv'
<1>1. Holds(t) /\ DOMAIN child = Threads /\ DOMAIN child[t] = ChildFields
    BY Zenon DEF Inv, Shape
<1>2. UNCHANGED <<platform, alive, table, req, thread>>
    BY Zenon DEF ThreadVars
<1>3. Apart(t)
    BY <1>2, Zenon DEF Apart
<1>4. OnItsWay(t)'
    BY <1>1, <1>2, Zenon DEF Holds, OnItsWay, Forks
<1>5. Matches(t)'
    <2>1. thread[t].pc \notin BeforeChild
        BY <1>1 DEF Holds, Matches, NoChild, Starting
    <2>2. thread[t].pc \notin {"return", "cleanup", "done"} /\ child[t].report = FALSE
        BY <1>1, Zenon DEF Holds, Matches, Starting
    <2>3. QED
        BY <1>1, <1>2, <2>1, <2>2 DEF Holds, Matches, Starting, NoChild
<1>6. QED
    BY <1>1, <1>2, <1>3, <1>4, <1>5, ProcessStepOf, Zenon

LEMMA ChildEndsInv ==
    ASSUME Inv, NEW t \in Threads, ChildEnds(t) \/ ChildSignalled(t)
    PROVE  Inv'
<1>1. PICK st \in {"exited", "killed"} :
          Live(t) /\ UNCHANGED ThreadVars /\ child' = [child EXCEPT ![t] = Gone(st, FALSE)]
    BY Zenon DEF ChildEnds, ChildSignalled
<1>2. QED
    BY <1>1, EndInv, Zenon

LEMMA ChildDeathSignalInv ==
    ASSUME Inv, NEW t \in Threads, ChildDeathSignal(t)
    PROVE  Inv'
<1>1. /\ Holds(t) /\ DOMAIN child = Threads /\ DOMAIN child[t] = ChildFields
      /\ child[t].st = "death" /\ UNCHANGED ThreadVars /\ child[t].st \in Starting
    BY Zenon DEF Inv, Shape, ChildDeathSignal, Step, Starting
<1> DEFINE asks == platform = "linux" /\ req[t].pdeathsig # "none"
<1>2. CASE Failure(t)
    BY <1>1, <1>2, FailureInv, Zenon
<1>3. CASE \/ asks /\ child' = [child EXCEPT ![t].armed = TRUE, ![t].st = "ppid"]
           \/ ~asks /\ child' = [child EXCEPT ![t].st = "setup"]
    <2>1. /\ DOMAIN child' = DOMAIN child /\ \A u \in Threads \ {t} : child'[u] = child[u]
          /\ DOMAIN child'[t] = DOMAIN child[t] /\ child'[t].report = child[t].report
          /\ child'[t].tmp = child[t].tmp /\ child'[t].fds = child[t].fds
          /\ \/ asks /\ child'[t].st = "ppid" /\ child'[t].armed = TRUE
             \/ ~asks /\ child'[t].st = "setup"
        BY <1>1, <1>3 DEF ChildFields
    <2>2. UNCHANGED <<platform, alive, req, thread>>
        BY <1>1, Zenon DEF ThreadVars
    <2>3. HoldsPipe(t)'
        BY <1>1, <2>1, <2>2, Zenon DEF Holds, HoldsPipe, Starting
    <2>4. Signalled(t)'
        BY <2>1, <2>2, Zenon DEF Signalled, Starting
    <2>5. child'[t].st \in Starting
        BY <2>1, Zenon DEF Starting
    <2>6. QED
        BY <1>1, <2>1, <2>3, <2>4, <2>5, GoesOnInv, Zenon
<1>4. QED
    BY <1>2, <1>3, ZenonT(30) DEF ChildDeathSignal

LEMMA ChildCheckParentInv ==
    ASSUME Inv, NEW t \in Threads, ChildCheckParent(t)
    PROVE  Inv'
<1>1. /\ Holds(t) /\ DOMAIN child = Threads /\ DOMAIN child[t] = ChildFields
      /\ child[t].st = "ppid" /\ UNCHANGED ThreadVars /\ child[t].st \in Starting
    BY Zenon DEF Inv, Shape, ChildCheckParent, Step, Starting
<1>2. CASE Failure(t)
    BY <1>1, <1>2, FailureInv, Zenon
<1>3. CASE child' = [child EXCEPT ![t].st = "setup",
                                  ![t].pending = @ \union SignalIfOrphan(t)]
    <2>1. /\ DOMAIN child' = DOMAIN child /\ \A u \in Threads \ {t} : child'[u] = child[u]
          /\ DOMAIN child'[t] = DOMAIN child[t] /\ child'[t].report = child[t].report
          /\ child'[t].tmp = child[t].tmp /\ child'[t].fds = child[t].fds
          /\ child'[t].armed = child[t].armed /\ child'[t].st = "setup"
          /\ child'[t].pending = child[t].pending \union SignalIfOrphan(t)
        BY <1>1, <1>3, Zenon DEF ChildFields
    <2>2. UNCHANGED <<platform, alive, req, thread>>
        BY <1>1, Zenon DEF ThreadVars
    <2>3. HoldsPipe(t)'
        BY <1>1, <2>1, <2>2, Zenon DEF Holds, HoldsPipe, Starting
    <2>4. Signalled(t)'
        BY <1>1, <2>1, <2>2, Zenon DEF Holds, Signalled, Starting, SignalIfOrphan
    <2>5. child'[t].st \in Starting
        BY <2>1, Zenon DEF Starting
    <2>6. QED
        BY <1>1, <2>1, <2>3, <2>4, <2>5, GoesOnInv, Zenon
<1>4. QED
    BY <1>2, <1>3, Zenon DEF ChildCheckParent

(* A child that has dealt with the death of its parent goes on to prepare  *)
(* its descriptors.                                                        *)
Advances(t) ==
    /\ DOMAIN child' = DOMAIN child /\ \A u \in Threads \ {t} : child'[u] = child[u]
    /\ DOMAIN child'[t] = DOMAIN child[t] /\ child'[t].report = child[t].report
    /\ child'[t].armed = child[t].armed /\ child'[t].pending = child[t].pending
    /\ child[t].st \in Starting \ {"death", "ppid"}
    /\ child'[t].st \in (Starting \ {"death", "ppid"}) \union {"execd"}

LEMMA AdvanceInv ==
    ASSUME Inv, NEW t \in Threads, Advances(t), UNCHANGED ThreadVars, HoldsPipe(t)'
    PROVE  Inv'
<1>1. Holds(t)
    BY Zenon DEF Inv
<1>2. Signalled(t)'
    BY <1>1, Zenon DEF Holds, Signalled, Advances, ThreadVars
<1>3. QED
    BY <1>2, GoesOnInv, Zenon DEF Advances

(* The descriptor that keeps the pipe open, and what keeps it so.          *)
Keeps(t, w) ==
    /\ w \in DOMAIN child[t].fds /\ w \notin 0 .. 4 /\ child[t].fds[w].obj = WriteEnd(t)
    /\ \A i \in 1 .. Len(child[t].tmp) : child[t].tmp[i] # w
    /\ w # thread[t].ruleset

LEMMA PipeHeld ==
    ASSUME Inv, NEW t \in Threads, child[t].st \in Starting
    PROVE  /\ child[t].tmp \in Seq(Nat)
           /\ child[t].st \in {"death", "ppid", "setup"} => child[t].tmp = <<>>
           /\ child[t].st = "dup" => Len(child[t].tmp) <= 2
           /\ child[t].st = "dup2" => Len(child[t].tmp) \in 1 .. 3
           /\ \E w : Keeps(t, w)
BY Zenon DEF Inv, Holds, HoldsPipe, Keeps

LEMMA ChildSetupInv ==
    ASSUME Inv, NEW t \in Threads, ChildSetup(t)
    PROVE  Inv'
<1>1. /\ DOMAIN child = Threads /\ DOMAIN child[t] = ChildFields
      /\ child[t].st = "setup" /\ UNCHANGED ThreadVars /\ child[t].st \in Starting
    BY Zenon DEF Inv, Shape, ChildSetup, Step, Starting
<1>2. CASE Failure(t)
    BY <1>1, <1>2, FailureInv, Zenon
<1>3. ASSUME NEW fds \in {child[t].fds, Close(child[t].fds, {CwdFd})},
             child' = [child EXCEPT ![t].st = "dup", ![t].fds = fds]
      PROVE  Inv'
    <2>1. /\ Advances(t) /\ child'[t].fds = fds /\ child'[t].st = "dup"
          /\ child'[t].tmp = child[t].tmp
        BY <1>1, <1>3, Zenon DEF ChildFields, Advances, Starting
    <2>2. PICK w : Keeps(t, w)
        BY <1>1, PipeHeld, Zenon
    <2>3. w \in DOMAIN fds /\ fds[w] = child[t].fds[w]
        <3>1. LET tab == Close(child[t].fds, {CwdFd}) IN
              /\ DOMAIN tab = DOMAIN child[t].fds \ {CwdFd}
              /\ \A x \in DOMAIN child[t].fds \ {CwdFd} : tab[x] = child[t].fds[x]
            BY Closed, ZenonT(30)
        <3>2. w # CwdFd /\ w \in DOMAIN child[t].fds
            BY <2>2 DEF Keeps, CwdFd
        <3>3. QED
            BY <3>1, <3>2, Zenon
    <2>4. child[t].tmp = <<>> /\ child[t].tmp \in Seq(Nat) /\ Len(child[t].tmp) <= 2
        BY <1>1, PipeHeld
    <2>5. HoldsPipe(t)'
        BY <1>1, <2>1, <2>2, <2>3, <2>4, Zenon DEF HoldsPipe, Keeps, ThreadVars
    <2>6. QED
        BY <1>1, <2>1, <2>5, AdvanceInv, Zenon
<1>4. QED
    BY <1>1, <1>2, <1>3, Zenon DEF ChildSetup

LEMMA ChildRestrictInv ==
    ASSUME Inv, NEW t \in Threads, ChildRestrict(t)
    PROVE  Inv'
<1>1. /\ DOMAIN child = Threads /\ DOMAIN child[t] = ChildFields
      /\ child[t].st = "restrict" /\ UNCHANGED ThreadVars /\ child[t].st \in Starting
    BY Zenon DEF Inv, Shape, ChildRestrict, Step, Starting
<1>2. CASE Failure(t)
    BY <1>1, <1>2, FailureInv, Zenon
<1>3. ASSUME NEW fds \in {child[t].fds, Close(child[t].fds, {thread[t].ruleset})},
             child' = [child EXCEPT ![t].st = "exec", ![t].fds = fds,
                                    ![t].mask = thread[t].sigmask]
      PROVE  Inv'
    <2>1. /\ Advances(t) /\ child'[t].fds = fds /\ child'[t].st = "exec"
          /\ child'[t].tmp = child[t].tmp
        BY <1>1, <1>3, Zenon DEF ChildFields, Advances, Starting
    <2>2. PICK w : Keeps(t, w)
        BY <1>1, PipeHeld, Zenon
    <2>3. w \in DOMAIN fds /\ fds[w] = child[t].fds[w]
        <3>1. LET tab == Close(child[t].fds, {thread[t].ruleset}) IN
              /\ DOMAIN tab = DOMAIN child[t].fds \ {thread[t].ruleset}
              /\ \A x \in DOMAIN child[t].fds \ {thread[t].ruleset} : tab[x] = child[t].fds[x]
            BY Closed, Zenon
        <3>2. w # thread[t].ruleset /\ w \in DOMAIN child[t].fds
            BY <2>2, Zenon DEF Keeps
        <3>3. QED
            BY <3>1, <3>2, Zenon
    <2>4. child[t].tmp \in Seq(Nat)
        BY <1>1, PipeHeld, Zenon
    <2>5. HoldsPipe(t)'
        BY <1>1, <2>1, <2>2, <2>3, <2>4, Zenon DEF HoldsPipe, Keeps, ThreadVars
    <2>6. QED
        BY <1>1, <2>1, <2>5, AdvanceInv, Zenon
<1>4. QED
    BY <1>1, <1>2, <1>3, Zenon DEF ChildRestrict

LEMMA ChildExecInv ==
    ASSUME Inv, NEW t \in Threads, ChildExec(t)
    PROVE  Inv'
<1>1. /\ DOMAIN child = Threads /\ DOMAIN child[t] = ChildFields
      /\ child[t].st = "exec" /\ UNCHANGED ThreadVars /\ child[t].st \in Starting
    BY Zenon DEF Inv, Shape, ChildExec, Step, Starting
<1>2. CASE Failure(t)
    BY <1>1, <1>2, FailureInv, Zenon
<1>3. ASSUME NEW fds, child' = [child EXCEPT ![t].st = "execd", ![t].fds = fds]
      PROVE  Inv'
    <2>1. Advances(t) /\ child'[t].st = "execd"
        BY <1>1, <1>3, Zenon DEF ChildFields, Advances, Starting
    <2>2. HoldsPipe(t)'
        BY <2>1, Zenon DEF HoldsPipe, Starting
    <2>3. QED
        BY <1>1, <2>1, <2>2, AdvanceInv, Zenon
<1>4. QED
    BY <1>1, <1>2, <1>3, Zenon DEF ChildExec

(* A descriptor that is not among those closed stays open.                 *)
LEMMA StaysOpen ==
    ASSUME NEW tab, NEW fds, NEW x \in DOMAIN tab, x \notin fds
    PROVE  x \in DOMAIN Close(tab, fds) /\ Close(tab, fds)[x] = tab[x]
BY Zenon DEF Close, Restrict

LEMMA ChildDupInv ==
    ASSUME Inv, TakesFree, NEW t \in Threads, ChildDup(t)
    PROVE  Inv'
<1>1. /\ DOMAIN child = Threads /\ DOMAIN child[t] = ChildFields /\ req[t] \in Request
      /\ child[t].st = "dup" /\ UNCHANGED ThreadVars /\ child[t].st \in Starting
    BY Zenon DEF Inv, Shape, Asked, ChildDup, Step, Starting
<1> DEFINE c == child[t]
           i == Len(c.tmp) + 1
           fd == SafeDup(c.fds)
           obj == c.fds[req[t].std[i]].obj
           duped == Install(c.fds, fd, obj, FALSE)
           fds == IF i = 3 THEN Close(duped, Range(req[t].std)) ELSE duped
<1>2. CASE Failure(t)
    BY <1>1, <1>2, FailureInv, Zenon
<1>3. CASE /\ DupTargets(c.fds) # {}
           /\ child' = [child EXCEPT ![t].tmp = Append(@, fd),
                                     ![t].st = IF i = 3 THEN "dup2" ELSE @,
                                     ![t].fds = fds]
    <2>1. fd \in Nat /\ fd \notin DOMAIN c.fds
        <3>1. DupTargets(c.fds) \subseteq Nat /\ DupTargets(c.fds) \intersect DOMAIN c.fds = {}
            BY SpawnAssumption DEF DupTargets, Free
        <3>2. fd \in DupTargets(c.fds)
            BY <1>3, Zenon DEF TakesFree
        <3>3. QED
            BY <3>1, <3>2, Zenon
    <2>2. Range(req[t].std) \subseteq 0 .. 3
        BY <1>1 DEF Range, Request
    <2>3. PICK w : Keeps(t, w)
        BY <1>1, PipeHeld, Zenon
    <2>4. w \in DOMAIN c.fds /\ w \notin 0 .. 4 /\ w # fd /\ w \notin Range(req[t].std)
        BY <2>1, <2>2, <2>3 DEF Keeps
    <2> HIDE DEF fd, obj
    <2>5. w \in DOMAIN duped /\ duped[w] = c.fds[w]
        BY <2>4, Zenon DEF Install
    <2> HIDE DEF duped
    <2>6. w \in DOMAIN fds /\ fds[w] = c.fds[w]
        <3>1. /\ w \in DOMAIN Close(duped, Range(req[t].std))
              /\ Close(duped, Range(req[t].std))[w] = c.fds[w]
            BY <2>4, <2>5, StaysOpen, ZenonT(60)
        <3>2. QED
            BY <2>5, <3>1, Zenon
    <2> HIDE DEF fds
    <2>7. c.tmp \in Seq(Nat) /\ Len(c.tmp) <= 2 /\ Len(c.tmp) \in Nat
        BY <1>1, PipeHeld
    <2>8. /\ Advances(t) /\ child'[t].fds = fds /\ child'[t].tmp = Append(c.tmp, fd)
          /\ child'[t].st = IF i = 3 THEN "dup2" ELSE "dup"
        BY <1>1, <1>3, Zenon DEF ChildFields, Advances, Starting
    <2>9. /\ Append(c.tmp, fd) \in Seq(Nat) /\ Len(Append(c.tmp, fd)) = i
          /\ \A j \in 1 .. i : Append(c.tmp, fd)[j] # w
        BY <2>1, <2>3, <2>4, <2>7, SMTT(60) DEF Keeps
    <2>10. HoldsPipe(t)'
        <3>1. child'[t].fds[w].obj = WriteEnd(t) /\ w # thread'[t].ruleset
            BY <1>1, <2>3, <2>6, <2>8, Zenon DEF Keeps, ThreadVars
        <3>2. \E x \in DOMAIN child'[t].fds :
                 /\ x \notin 0 .. 4 /\ child'[t].fds[x].obj = WriteEnd(t)
                 /\ \A j \in 1 .. Len(child'[t].tmp) : child'[t].tmp[j] # x
                 /\ x # thread'[t].ruleset
            BY <2>4, <2>6, <2>8, <2>9, <3>1, Zenon
        <3>3. QED
            BY <2>7, <2>8, <2>9, <3>2, SMTT(60) DEF HoldsPipe
    <2>11. QED
        BY <1>1, <2>8, <2>10, AdvanceInv, Zenon
<1>4. QED
    BY <1>2, <1>3, Zenon DEF ChildDup

(* The duplicates left when the first has been installed.                  *)
LEMMA OneFewer ==
    ASSUME NEW s \in Seq(Nat), Len(s) \in 1 .. 3, NEW w, \A i \in 1 .. Len(s) : s[i] # w
    PROVE  /\ Head(s) # w /\ 3 - Len(s) \in 0 .. 2
           /\ Tail(s) \in Seq(Nat) /\ Len(Tail(s)) = Len(s) - 1
           /\ 3 - Len(s) # 2 => Len(Tail(s)) \in 1 .. 3
           /\ \A j \in 1 .. Len(Tail(s)) : Tail(s)[j] # w
<1>1. s # <<>> /\ Head(s) = s[1]
    BY SMTT(60)
<1>2. Tail(s) \in Seq(Nat) /\ Len(Tail(s)) = Len(s) - 1
    BY <1>1
<1>3. \A j \in 1 .. Len(Tail(s)) : Tail(s)[j] = s[j + 1] /\ j + 1 \in 1 .. Len(s)
    BY <1>1, <1>2
<1>4. QED
    BY <1>1, <1>2, <1>3, SMTT(60)

LEMMA ChildDup2Inv ==
    ASSUME Inv, NEW t \in Threads, ChildDup2(t)
    PROVE  Inv'
<1>1. /\ DOMAIN child = Threads /\ DOMAIN child[t] = ChildFields
      /\ child[t].st = "dup2" /\ UNCHANGED ThreadVars /\ child[t].st \in Starting
    BY Zenon DEF Inv, Shape, ChildDup2, Step, Starting
<1> DEFINE c == child[t]
           tmp == Head(c.tmp)
           fd == 3 - Len(c.tmp)
           obj == c.fds[tmp].obj
           duped == Install(c.fds, fd, obj, FALSE)
           fds == Close(duped, {tmp})
<1>2. CASE Failure(t)
    BY <1>1, <1>2, FailureInv, Zenon
<1>3. CASE child' = [child EXCEPT ![t].tmp = Tail(@),
                                  ![t].st = IF fd = 2 THEN "restrict" ELSE @,
                                  ![t].fds = fds]
    <2>1. c.tmp \in Seq(Nat) /\ Len(c.tmp) \in 1 .. 3
        BY <1>1, PipeHeld, Zenon
    <2>2. PICK w : Keeps(t, w)
        BY <1>1, PipeHeld, Zenon
    <2>3. \A j \in 1 .. Len(c.tmp) : c.tmp[j] # w
        BY <2>2, Zenon DEF Keeps
    <2>4. w \in DOMAIN c.fds /\ w \notin 0 .. 4 /\ w # fd /\ w # tmp
        <3>1. fd \in 0 .. 2 /\ w # tmp
            BY <2>1, <2>3, OneFewer, Zenon
        <3>2. w \in DOMAIN c.fds /\ w \notin 0 .. 4
            BY <2>2, Zenon DEF Keeps
        <3>3. 0 .. 2 \subseteq 0 .. 4
            OBVIOUS
        <3>4. QED
            BY <3>1, <3>2, <3>3, Zenon
    <2>5. /\ Tail(c.tmp) \in Seq(Nat)
          /\ fd # 2 => Len(Tail(c.tmp)) \in 1 .. 3
          /\ \A j \in 1 .. Len(Tail(c.tmp)) : Tail(c.tmp)[j] # w
        BY <2>1, <2>3, OneFewer, Zenon
    <2>6. /\ Advances(t) /\ child'[t].fds = fds /\ child'[t].tmp = Tail(c.tmp)
          /\ child'[t].st = IF fd = 2 THEN "restrict" ELSE "dup2"
        BY <1>1, <1>3, Zenon DEF ChildFields, Advances, Starting
    <2> HIDE DEF fd, obj, tmp
    <2>8. w \in DOMAIN duped /\ duped[w] = c.fds[w]
        BY <2>4, Zenon DEF Install
    <2> HIDE DEF duped
    <2>9. w \in DOMAIN fds /\ fds[w] = c.fds[w]
        <3>1. w \notin {tmp}
            BY <2>4, Zenon
        <3>2. QED
            BY <2>8, <3>1, StaysOpen, Zenon
    <2> HIDE DEF fds
    <2>10. HoldsPipe(t)'
        <3>1. child'[t].fds[w].obj = WriteEnd(t) /\ w # thread'[t].ruleset
            BY <1>1, <2>2, <2>6, <2>9, Zenon DEF Keeps, ThreadVars
        <3>2. \E x \in DOMAIN child'[t].fds :
                 /\ x \notin 0 .. 4 /\ child'[t].fds[x].obj = WriteEnd(t)
                 /\ \A j \in 1 .. Len(child'[t].tmp) : child'[t].tmp[j] # x
                 /\ x # thread'[t].ruleset
            BY <2>4, <2>5, <2>6, <2>9, <3>1, Zenon
        <3>3. QED
            BY <2>5, <2>6, <3>2, Zenon DEF HoldsPipe
    <2>11. QED
        BY <1>1, <2>6, <2>10, AdvanceInv, Zenon
<1>4. QED
    BY <1>2, <1>3, Zenon DEF ChildDup2

-----------------------------------------------------------------------------
(* Steps of the calling thread that touch neither descriptors nor          *)
(* processes.                                                              *)

(* A step that only moves thread t, and what it must show.                 *)
LEMMA MoveOf ==
    ASSUME Inv, NEW t \in Threads, UNCHANGED <<platform, alive, table, req, child>>,
           DOMAIN thread' = DOMAIN thread, DOMAIN thread'[t] = DOMAIN thread[t],
           \A u \in Threads \ {t} : thread'[u] = thread[u],
           thread'[t].read = thread[t].read, thread'[t].write = thread[t].write,
           thread'[t].ruleset = thread[t].ruleset,
           thread'[t].pc \notin {"cloexec", "fork"},
           OnItsWay(t)', Matches(t)'
    PROVE  Inv'
<1>1. Holds(t) /\ Shape
    BY Zenon DEF Inv
<1>2. Owns(t)'
    BY <1>1, Zenon DEF Holds, Owns, OwnFd, Forks
<1>3. HoldsPipe(t)'
    BY <1>1, Zenon DEF Holds, HoldsPipe
<1>4. Signalled(t)'
    BY <1>1, Zenon DEF Holds, Signalled
<1>5. Apart(t)
    BY Zenon DEF Apart
<1>6. ClosesOwn(t) /\ OnlyTables
    BY Zenon DEF ClosesOwn, OnlyTables, Inv, FilesOpen
<1>7. DOMAIN thread'[t] = ThreadFields /\ DOMAIN child'[t] = ChildFields
    BY <1>1, Zenon DEF Shape
<1>8. QED
    BY <1>2, <1>3, <1>4, <1>5, <1>6, <1>7, StepOf, Zenon DEF Holds

LEMMA EnterSectionInv ==
    ASSUME Inv, NEW t \in Threads, EnterSection(t)
    PROVE  Inv'
<1>1. /\ Holds(t) /\ DOMAIN thread = Threads /\ DOMAIN thread[t] = ThreadFields
      /\ platform \in {"linux", "haiku", "macos", "windows"} /\ req[t] \in Request
      /\ Callable(req[t])
    BY Zenon DEF Inv, Shape, Asked
<1>2. OnItsWay(t)'
    BY <1>1, Zenon DEF EnterSection, At, Holds, OnItsWay, Forks, BeforeChild, ThreadFields
<1>3. Matches(t)'
    BY <1>1, Zenon DEF EnterSection, At, Holds, Matches, OnItsWay, BeforeChild, Forks,
                       ThreadFields, NoChild
<1>4. QED
    BY <1>1, <1>2, <1>3, MoveOf, Zenon DEF EnterSection, ThreadFields

LEMMA LeavePipeInv ==
    ASSUME Inv, NEW t \in Threads, LeavePipe(t)
    PROVE  Inv'
<1>1. /\ Holds(t) /\ DOMAIN thread = Threads /\ DOMAIN thread[t] = ThreadFields
      /\ platform \in {"linux", "haiku", "macos", "windows"} /\ req[t] \in Request
      /\ Callable(req[t])
    BY Zenon DEF Inv, Shape, Asked
<1>2. OnItsWay(t)'
    BY <1>1, Zenon DEF LeavePipe, At, Holds, OnItsWay, Forks, BeforeChild, ThreadFields
<1>3. Matches(t)'
    BY <1>1 DEF LeavePipe, At, Holds, Matches, OnItsWay, BeforeChild, Forks, ThreadFields, NoChild
<1>4. QED
    BY <1>1, <1>2, <1>3, MoveOf, Zenon DEF LeavePipe, ThreadFields

LEMMA OutOfMemoryInv ==
    ASSUME Inv, NEW t \in Threads, OutOfMemory(t)
    PROVE  Inv'
<1>1. /\ Holds(t) /\ DOMAIN thread = Threads /\ DOMAIN thread[t] = ThreadFields
      /\ platform \in {"linux", "haiku", "macos", "windows"} /\ req[t] \in Request
      /\ Callable(req[t])
    BY Zenon DEF Inv, Shape, Asked
<1>2. OnItsWay(t)'
    BY <1>1, Zenon DEF OutOfMemory, At, Holds, OnItsWay, Forks, BeforeChild, ThreadFields, Entry,
                       HasMutex, Request
<1>3. Matches(t)'
    BY <1>1 DEF OutOfMemory, At, Holds, Matches, OnItsWay, BeforeChild, Forks, ThreadFields,
                NoChild, Entry, HasMutex, Request
<1>4. QED
    BY <1>1, <1>2, <1>3, MoveOf, Zenon DEF OutOfMemory, ThreadFields, Entry, HasMutex, Request

LEMMA ReadFailsInv ==
    ASSUME Inv, NEW t \in Threads, ReadFails(t)
    PROVE  Inv'
<1>1. /\ Holds(t) /\ DOMAIN thread = Threads /\ DOMAIN thread[t] = ThreadFields
      /\ platform \in {"linux", "haiku", "macos", "windows"} /\ req[t] \in Request
      /\ Callable(req[t])
    BY Zenon DEF Inv, Shape, Asked
<1>2. OnItsWay(t)'
    BY <1>1, Zenon DEF ReadFails, At, Holds, OnItsWay, Forks, BeforeChild, ThreadFields, RaiseAfter
<1>3. Matches(t)'
    BY <1>1, Zenon DEF ReadFails, At, Holds, Matches, OnItsWay, BeforeChild, Forks, ThreadFields,
                       NoChild, RaiseAfter
<1>4. QED
    BY <1>1, <1>2, <1>3, MoveOf, Zenon DEF ReadFails, ThreadFields, RaiseAfter

LEMMA PosixChdirInv ==
    ASSUME Inv, NEW t \in Threads, PosixChdir(t)
    PROVE  Inv'
<1>1. /\ Holds(t) /\ DOMAIN thread = Threads /\ DOMAIN thread[t] = ThreadFields
      /\ platform \in {"linux", "haiku", "macos", "windows"} /\ req[t] \in Request
      /\ Callable(req[t])
    BY Zenon DEF Inv, Shape, Asked
<1>2. OnItsWay(t)'
    BY <1>1, Zenon DEF PosixChdir, At, Holds, OnItsWay, Forks, BeforeChild, ThreadFields
<1>3. Matches(t)'
    BY <1>1, Zenon DEF PosixChdir, At, Holds, Matches, OnItsWay, BeforeChild, Forks, ThreadFields,
                       NoChild
<1>4. QED
    BY <1>1, <1>2, <1>3, MoveOf, Zenon DEF PosixChdir, ThreadFields

LEMMA PosixFailsInv ==
    ASSUME Inv, NEW t \in Threads, PosixFails(t)
    PROVE  Inv'
<1>1. /\ Holds(t) /\ DOMAIN thread = Threads /\ DOMAIN thread[t] = ThreadFields
      /\ platform \in {"linux", "haiku", "macos", "windows"} /\ req[t] \in Request
      /\ Callable(req[t])
    BY Zenon DEF Inv, Shape, Asked
<1>2. OnItsWay(t)'
    BY <1>1, Zenon DEF PosixFails, At, Holds, OnItsWay, Forks, BeforeChild, ThreadFields
<1>3. Matches(t)'
    BY <1>1 DEF PosixFails, At, Holds, Matches, OnItsWay, BeforeChild, Forks, ThreadFields, NoChild
<1>4. QED
    BY <1>1, <1>2, <1>3, MoveOf, Zenon DEF PosixFails, ThreadFields

(* The report pipe is not at its end while the child may still write.      *)
LEMMA ChildLetGo ==
    ASSUME Inv, NEW t \in Threads, EndOfFile(t)
    PROVE  child[t].st \notin Starting
BY Zenon DEF EndOfFile, Inv, Holds, HoldsPipe

LEMMA ReadReportInv ==
    ASSUME Inv, NEW t \in Threads, ReadReport(t)
    PROVE  Inv'
<1>1. /\ Holds(t) /\ DOMAIN thread = Threads /\ DOMAIN thread[t] = ThreadFields
      /\ platform \in {"linux", "haiku", "macos", "windows"} /\ req[t] \in Request
      /\ Callable(req[t])
    BY Zenon DEF Inv, Shape, Asked
<1>2. OnItsWay(t)'
    BY <1>1 DEF ReadReport, At, Holds, OnItsWay, Forks, BeforeChild, ThreadFields, RaiseAfter
<1>3. Matches(t)'
    <2>1. req[t].op = "spawn"
        BY <1>1, Zenon DEF ReadReport, At, Holds, OnItsWay, Request
    <2>2. CASE ~child[t].report /\ EndOfFile(t)
        <3>1. child[t].st \notin Starting
            BY <2>2, ChildLetGo, Zenon
        <3>2. QED
            BY <1>1, <2>1, <2>2, <3>1
               DEF ReadReport, At, Holds, Matches, BeforeChild, ThreadFields
    <2>3. CASE child[t].report
        BY <1>1, <2>1, <2>3
           DEF ReadReport, At, Holds, Matches, BeforeChild, ThreadFields, RaiseAfter
    <2>4. QED
        BY <2>2, <2>3, Zenon DEF ReadReport
<1>4. QED
    BY <1>1, <1>2, <1>3, MoveOf DEF ReadReport, ThreadFields, RaiseAfter

-----------------------------------------------------------------------------
(* Steps of the calling thread that open or close descriptors.             *)

(* The process of t and what it remembers of its own are as before.        *)
LEMMA TableStepOf ==
    ASSUME Inv, NEW t \in Threads, UNCHANGED <<platform, alive, req, child>>,
           DOMAIN thread' = DOMAIN thread, DOMAIN thread'[t] = DOMAIN thread[t],
           \A u \in Threads \ {t} : thread'[u] = thread[u],
           child[t].st \in Starting => thread'[t].ruleset = thread[t].ruleset,
           ClosesOwn(t), OnlyTables, OnItsWay(t)', Matches(t)', Owns(t)'
    PROVE  Inv'
<1>1. Holds(t) /\ Shape
    BY Zenon DEF Inv
<1>2. HoldsPipe(t)'
    BY <1>1, Zenon DEF Holds, HoldsPipe
<1>3. Signalled(t)'
    BY <1>1, Zenon DEF Holds, Signalled
<1>4. Apart(t)
    BY Zenon DEF Apart
<1>5. DOMAIN thread'[t] = ThreadFields /\ DOMAIN child'[t] = ChildFields
    BY <1>1, Zenon DEF Shape
<1>6. QED
    BY <1>2, <1>3, <1>4, <1>5, StepOf, Zenon DEF Holds

LEMMA MakePipeInv ==
    ASSUME Inv, TakesFree, NEW t \in Threads, MakePipe(t)
    PROVE  Inv'
<1>1. /\ Holds(t) /\ DOMAIN thread = Threads /\ DOMAIN thread[t] = ThreadFields
      /\ platform \in {"linux", "haiku", "macos", "windows"} /\ req[t] \in Request
      /\ Callable(req[t])
    BY Zenon DEF Inv, Shape, Asked
<1>2. OnItsWay(t)'
    BY <1>1 DEF MakePipe, At, Holds, OnItsWay, Forks, BeforeChild, ThreadFields, PipeReady, Request
<1>3. Matches(t)'
    BY <1>1 DEF MakePipe, At, Holds, Matches, BeforeChild, ThreadFields, PipeReady, NoChild
<1>4. CASE /\ Cardinality(Free(table)) >= 2
             /\ table' = Install(Install(table, LowestTwo(table)[1], ReadEnd(t), platform = "linux"),
                                 LowestTwo(table)[2], WriteEnd(t), platform = "linux")
             /\ thread' = [thread EXCEPT ![t].read = LowestTwo(table)[1],
                              ![t].write = LowestTwo(table)[2],
                              ![t].pc = IF platform = "linux" THEN PipeReady(t) ELSE "cloexec"]
    <2> DEFINE r == LowestTwo(table)[1]
               w == LowestTwo(table)[2]
               mid == Install(table, r, ReadEnd(t), platform = "linux")
    <2>1. r \in Free(table) /\ w \in Free(table) /\ r # w
        BY <1>4, Zenon DEF TakesFree
    <2>2. r \notin DOMAIN table /\ w \notin DOMAIN table /\ r # Unset /\ w # Unset
        BY <2>1, SpawnAssumption DEF Free, Unset
    <2>3. /\ DOMAIN table' = DOMAIN mid \union {w}
          /\ table'[w] = [obj |-> WriteEnd(t), cloexec |-> platform = "linux"]
          /\ \A x \in DOMAIN mid : x # w => table'[x] = mid[x]
        <3>1. table' = Install(mid, w, WriteEnd(t), platform = "linux")
            BY <1>4, Zenon
        <3> HIDE DEF mid, w
        <3>2. QED
            BY <3>1, Zenon DEF Install
    <2> HIDE DEF r, w
    <2>4. /\ DOMAIN mid = DOMAIN table \union {r}
          /\ mid[r] = [obj |-> ReadEnd(t), cloexec |-> platform = "linux"]
          /\ \A x \in DOMAIN table : mid[x] = table[x]
        BY <2>2, Zenon DEF Install
    <2> HIDE DEF mid
    <2>5. /\ DOMAIN table' = DOMAIN table \union {r, w}
          /\ table'[r] = [obj |-> ReadEnd(t), cloexec |-> platform = "linux"]
          /\ \A x \in DOMAIN table : table'[x] = table[x]
        BY <2>1, <2>2, <2>3, <2>4, Zenon
    <2>6. ClosesOwn(t)
        BY <2>5, Zenon DEF ClosesOwn
    <2>7. OnlyTables
        <3>1. Forks => Unset \notin DOMAIN table
                       /\ \A fd \in DOMAIN table : "obj" \in DOMAIN table[fd]
            BY Zenon DEF Inv, FilesOpen
        <3>2. QED
            BY <2>2, <2>3, <2>5, <3>1 DEF OnlyTables
    <2>8. thread'[t].read = r /\ thread'[t].write = w /\ thread'[t].ruleset = thread[t].ruleset
        BY <1>1, <1>4, Zenon DEF ThreadFields, r, w
    <2>9. Owns(t)'
        BY <1>1, <2>2, <2>3, <2>5, <2>8, SMTT(60) DEF Holds, Owns, OwnFd, Forks, MakePipe
    <2>10. QED
        BY <1>1, <1>2, <1>3, <2>6, <2>7, <2>8, <2>9, TableStepOf, Zenon DEF MakePipe, ThreadFields
<1>5. CASE /\ UNCHANGED table
           /\ thread' = [thread EXCEPT ![t].pc = "return", ![t].ret = "error"]
    BY <1>1, <1>2, <1>3, <1>5, MoveOf, Zenon DEF MakePipe, ThreadFields
<1>6. QED
    BY <1>4, <1>5, Zenon DEF MakePipe

(* Closing the descriptors of a call disturbs nobody else.                 *)
LEMMA ClosingOwn ==
    ASSUME Inv, NEW t \in Threads, NEW S, table' = Close(table, S),
           Forks => \A fd \in S : fd = Unset \/ table[fd].obj \in
                                      {ReadEnd(t), WriteEnd(t), Ruleset(t)}
    PROVE  ClosesOwn(t) /\ OnlyTables
<1>1. /\ DOMAIN table' = DOMAIN table \ S
      /\ \A x \in DOMAIN table \ S : table'[x] = table[x]
    BY Closed, ZenonT(30)
<1>2. Forks => Unset \notin DOMAIN table /\ \A fd \in DOMAIN table : "obj" \in DOMAIN table[fd]
    BY Zenon DEF Inv, FilesOpen
<1>3. QED
    BY <1>1, <1>2, Zenon DEF ClosesOwn, OnlyTables

LEMMA SetCloexecInv ==
    ASSUME Inv, NEW t \in Threads, SetCloexec(t)
    PROVE  Inv'
<1>1. /\ Holds(t) /\ DOMAIN thread = Threads /\ DOMAIN thread[t] = ThreadFields
      /\ platform \in {"linux", "haiku", "macos", "windows"} /\ req[t] \in Request
      /\ Callable(req[t])
    BY Zenon DEF Inv, Shape, Asked
<1> DEFINE r == thread[t].read
           w == thread[t].write
           fd == IF table[r].cloexec THEN w ELSE r
<1>2. OnItsWay(t)'
    BY <1>1, SMTT(60) DEF SetCloexec, At, Holds, OnItsWay, Forks, BeforeChild, ThreadFields, PipeReady,
                Request
<1>3. Matches(t)'
    BY <1>1, SMTT(60) DEF SetCloexec, At, Holds, Matches, BeforeChild, ThreadFields, PipeReady, NoChild
<1>4. CASE /\ table' = [table EXCEPT ![fd].cloexec = TRUE]
           /\ thread' = [thread EXCEPT ![t].pc = IF fd = w THEN PipeReady(t) ELSE @]
    <2>1. DOMAIN table' = DOMAIN table
        BY <1>4, Zenon
    <2>2. Forks => /\ Unset \notin DOMAIN table
                   /\ \A x \in DOMAIN table : "obj" \in DOMAIN table[x]
        BY Zenon DEF Inv, FilesOpen
    <2>3. Forks => \A x \in DOMAIN table : /\ "obj" \in DOMAIN table'[x]
                                           /\ table'[x].obj = table[x].obj
        BY <1>4, <2>1, <2>2, Zenon
    <2>4. ClosesOwn(t) /\ OnlyTables
        BY <2>1, <2>2, <2>3, Zenon DEF ClosesOwn, OnlyTables
    <2>5. thread'[t].read = r /\ thread'[t].write = w /\ thread'[t].ruleset = thread[t].ruleset
        BY <1>1, <1>4, Zenon DEF ThreadFields
    <2>6. Owns(t)'
        BY <1>1, <2>1, <2>3, <2>5, SMTT(60) DEF Holds, Owns, OwnFd, Forks, SetCloexec, At
    <2>7. QED
        BY <1>1, <1>2, <1>3, <2>4, <2>5, <2>6, <1>4, TableStepOf, Zenon DEF SetCloexec, ThreadFields
<1>5. CASE /\ table' = Close(table, {r, w})
           /\ thread' = [thread EXCEPT ![t].read = Unset, ![t].write = Unset,
                                       ![t].pc = "return", ![t].ret = "error"]
    <2>1. Forks => /\ r = Unset \/ table[r].obj = ReadEnd(t)
                   /\ w = Unset \/ table[w].obj = WriteEnd(t)
        BY <1>1, ZenonT(60) DEF Holds, Owns, OwnFd
    <2>2. ClosesOwn(t) /\ OnlyTables
        BY <1>5, <2>1, ClosingOwn
    <2>3. /\ thread'[t].read = Unset /\ thread'[t].write = Unset /\ thread'[t].pc = "return"
          /\ thread'[t].ruleset = thread[t].ruleset
        BY <1>1, <1>5, Zenon DEF ThreadFields
    <2>4. Ruleset(t) # ReadEnd(t) /\ Ruleset(t) # WriteEnd(t)
        BY Zenon DEF ReadEnd, WriteEnd, Ruleset
    <2>5. Forks => (thread[t].ruleset # Unset =>
                       /\ thread[t].ruleset \in DOMAIN table'
                       /\ table'[thread[t].ruleset].obj = Ruleset(t))
        <3>1. /\ DOMAIN table' = DOMAIN table \ {r, w}
              /\ \A x \in DOMAIN table \ {r, w} : table'[x] = table[x]
            BY <1>5, Zenon DEF Close, Restrict
        <3>2. QED
            BY <1>1, <2>1, <2>4, <3>1 DEF Holds, Owns, OwnFd
    <2>6. Owns(t)'
        BY <2>3, <2>5, Zenon DEF Owns, OwnFd, Forks, SetCloexec
    <2>7. QED
        BY <1>1, <1>2, <1>3, <2>2, <2>3, <2>6, <1>5, TableStepOf, Zenon DEF SetCloexec, ThreadFields
<1>6. QED
    BY <1>4, <1>5, Zenon DEF SetCloexec

LEMMA ForkedInv ==
    ASSUME Inv, NEW t \in Threads, Forked(t)
    PROVE  Inv'
<1>1. /\ Holds(t) /\ DOMAIN thread = Threads /\ DOMAIN thread[t] = ThreadFields
      /\ platform \in {"linux", "haiku", "macos", "windows"} /\ req[t] \in Request
      /\ Callable(req[t])
    BY Zenon DEF Inv, Shape, Asked
<1> DEFINE w == thread[t].write
<1>2. OnItsWay(t)'
    BY <1>1, Zenon DEF Forked, At, Holds, OnItsWay, Forks, BeforeChild, ThreadFields
<1>3. Matches(t)'
    BY <1>1 DEF Forked, At, Holds, Matches, BeforeChild, ThreadFields, NoChild
<1>4. table' = Close(table, {w})
    BY Zenon DEF Forked, ClosedAfterFork
<1>5. Forks => (w = Unset \/ table[w].obj = WriteEnd(t))
    BY <1>1, Zenon DEF Holds, Owns, OwnFd
<1>6. ClosesOwn(t) /\ OnlyTables
    BY <1>4, <1>5, ClosingOwn
<1>7. /\ thread'[t].read = thread[t].read /\ thread'[t].ruleset = thread[t].ruleset
      /\ thread'[t].write = Unset /\ thread'[t].pc \in {"return", "read"}
    BY <1>1, Zenon DEF Forked, ThreadFields
<1>8. Owns(t)'
    <2>1. /\ DOMAIN table' = DOMAIN table \ {w}
          /\ \A x \in DOMAIN table \ {w} : table'[x] = table[x]
        BY <1>4, Closed, ZenonT(30)
    <2>2. WriteEnd(t) # ReadEnd(t) /\ WriteEnd(t) # Ruleset(t)
        BY Zenon DEF ReadEnd, WriteEnd, Ruleset
    <2>3. QED
        BY <1>1, <1>5, <1>7, <2>1, <2>2 DEF Holds, Owns, OwnFd, Forks, Forked
<1>9. QED
    BY <1>1, <1>2, <1>3, <1>6, <1>7, <1>8, TableStepOf, Zenon DEF Forked, ThreadFields

LEMMA ReturnInv ==
    ASSUME Inv, NEW t \in Threads, Return(t)
    PROVE  Inv'
<1>1. /\ Holds(t) /\ DOMAIN thread = Threads /\ DOMAIN thread[t] = ThreadFields
      /\ platform \in {"linux", "haiku", "macos", "windows"} /\ req[t] \in Request
      /\ Callable(req[t])
    BY Zenon DEF Inv, Shape, Asked
<1> DEFINE r == thread[t].read
           s == thread[t].ruleset
<1>2. OnItsWay(t)'
    BY <1>1, Zenon DEF Return, At, Holds, OnItsWay, Forks, BeforeChild, ThreadFields
<1>3. Matches(t)' /\ child[t].st \notin Starting
    BY <1>1, ZenonT(60) DEF Return, At, Holds, Matches, BeforeChild, ThreadFields, Starting
<1>4. table' = Close(table, {r, s})
    BY Zenon DEF Return
<1>5. Forks => /\ r = Unset \/ table[r].obj = ReadEnd(t)
               /\ s = Unset \/ table[s].obj = Ruleset(t)
    BY <1>1, Zenon DEF Holds, Owns, OwnFd
<1>6. ClosesOwn(t) /\ OnlyTables
    <2>1. Forks => \A fd \in {r, s} : \/ fd = Unset
                                       \/ table[fd].obj \in {ReadEnd(t), WriteEnd(t), Ruleset(t)}
        BY <1>5
    <2> HIDE DEF r, s
    <2>2. QED
        BY <1>4, <2>1, ClosingOwn
<1>7. /\ thread'[t].read = Unset /\ thread'[t].ruleset = Unset
      /\ thread'[t].write = thread[t].write /\ thread'[t].pc = "done"
    BY <1>1, Zenon DEF Return, ThreadFields
<1>8. Owns(t)'
    <2>1. /\ DOMAIN table' = DOMAIN table \ {r, s}
          /\ \A x \in DOMAIN table \ {r, s} : table'[x] = table[x]
        BY <1>4, Zenon DEF Close, Restrict
    <2>2. WriteEnd(t) # ReadEnd(t) /\ WriteEnd(t) # Ruleset(t)
        BY Zenon DEF ReadEnd, WriteEnd, Ruleset
    <2>3. QED
        BY <1>1, <1>5, <1>7, <2>1, <2>2, ZenonT(60) DEF Holds, Owns, OwnFd, Forks, Return
<1>9. QED
    BY <1>1, <1>2, <1>3, <1>6, <1>7, <1>8, TableStepOf, Zenon DEF Return, ThreadFields

LEMMA PosixDupInv ==
    ASSUME Inv, NEW t \in Threads, PosixDup(t)
    PROVE  Inv'
<1>1. /\ Holds(t) /\ DOMAIN thread = Threads /\ DOMAIN thread[t] = ThreadFields
      /\ platform \in {"linux", "haiku", "macos", "windows"} /\ req[t] \in Request
      /\ Callable(req[t])
    BY Zenon DEF Inv, Shape, Asked
<1>2. OnItsWay(t)' /\ ~Forks
    BY <1>1, Zenon DEF PosixDup, At, Holds, OnItsWay, Forks, BeforeChild, ThreadFields
<1>3. Matches(t)'
    BY <1>1, Zenon DEF PosixDup, At, Holds, Matches, BeforeChild, ThreadFields
<1>4. ClosesOwn(t) /\ OnlyTables /\ Owns(t)'
    BY <1>2, Zenon DEF ClosesOwn, OnlyTables, Owns, Forks, PosixDup
<1>5. QED
    BY <1>1, <1>2, <1>3, <1>4, TableStepOf, Zenon DEF PosixDup, ThreadFields

LEMMA PosixCleanupInv ==
    ASSUME Inv, NEW t \in Threads, PosixCleanup(t)
    PROVE  Inv'
<1>1. /\ Holds(t) /\ DOMAIN thread = Threads /\ DOMAIN thread[t] = ThreadFields
      /\ platform \in {"linux", "haiku", "macos", "windows"} /\ req[t] \in Request
      /\ Callable(req[t])
    BY Zenon DEF Inv, Shape, Asked
<1>2. OnItsWay(t)' /\ ~Forks
    BY <1>1, Zenon DEF PosixCleanup, At, Holds, OnItsWay, Forks, BeforeChild, ThreadFields
<1>3. Matches(t)'
    BY <1>1, ZenonT(60) DEF PosixCleanup, At, Holds, Matches, BeforeChild, ThreadFields
<1>4. ClosesOwn(t) /\ OnlyTables /\ Owns(t)'
    BY <1>2, Zenon DEF ClosesOwn, OnlyTables, Owns, Forks, PosixCleanup
<1>5. QED
    BY <1>1, <1>2, <1>3, <1>4, TableStepOf, Zenon DEF PosixCleanup, ThreadFields

LEMMA BeginInv ==
    ASSUME Inv, TakesFree, NEW t \in Threads, Begin(t)
    PROVE  Inv'
<1>1. /\ Holds(t) /\ DOMAIN thread = Threads /\ DOMAIN thread[t] = ThreadFields
      /\ platform \in {"linux", "haiku", "macos", "windows"} /\ req[t] \in Request
      /\ Callable(req[t])
    BY Zenon DEF Inv, Shape, Asked
<1> DEFINE start == [thread[t] EXCEPT !.pc = Entry(req[t]),
                                      !.sigmask = ChildSigmask(req[t], thread[t].mask)]
           raise == [thread[t] EXCEPT !.pc = "return", !.ret = "error"]
           fd == Min(Free(table))
           Like(new) ==
             /\ DOMAIN new = ThreadFields
             /\ new.read = thread[t].read /\ new.write = thread[t].write
             /\ \/ new.pc = Entry(req[t])
                \/ new.pc = "return" /\ new.ret = "error"
<1>2. \A new \in {start, raise} : Like(new) /\ new.ruleset = thread[t].ruleset
    <2>1. Like(start) /\ start.ruleset = thread[t].ruleset
        BY <1>1, Zenon DEF ThreadFields
    <2>2. Like(raise) /\ raise.ruleset = thread[t].ruleset
        BY <1>1, Zenon DEF ThreadFields
    <2>3. QED
        BY <2>1, <2>2, Zenon
<1>3. ASSUME NEW new, Like(new)
      PROVE  LET with == [new EXCEPT !.ruleset = fd] IN Like(with) /\ with.ruleset = fd
    BY <1>3, Zenon DEF ThreadFields
<1>4. \/ /\ \E new \in {start, raise} : thread' = [thread EXCEPT ![t] = new]
         /\ UNCHANGED table
      \/ /\ Free(table) # {} /\ table' = Install(table, fd, Ruleset(t), TRUE)
         /\ \E new \in {start, raise} :
               thread' = [thread EXCEPT ![t] = [new EXCEPT !.ruleset = fd]]
    BY Zenon DEF Begin
<1> HIDE DEF start, raise
<1>5. /\ Like(thread'[t]) /\ DOMAIN thread' = DOMAIN thread
      /\ \A u \in Threads \ {t} : thread'[u] = thread[u]
      /\ \/ thread'[t].ruleset = thread[t].ruleset /\ UNCHANGED table
         \/ /\ thread'[t].ruleset = fd /\ Free(table) # {}
            /\ table' = Install(table, fd, Ruleset(t), TRUE)
    <2> HIDE DEF Like
    <2>1. CASE \E new \in {start, raise} : thread' = [thread EXCEPT ![t] = new] /\ UNCHANGED table
        BY <1>1, <1>2, <2>1, Zenon
    <2>2. CASE /\ Free(table) # {} /\ table' = Install(table, fd, Ruleset(t), TRUE)
               /\ \E new \in {start, raise} :
                     thread' = [thread EXCEPT ![t] = [new EXCEPT !.ruleset = fd]]
        <3>1. PICK new \in {start, raise} : thread' = [thread EXCEPT ![t] = [new EXCEPT !.ruleset = fd]]
            BY <2>2, ZenonT(30)
        <3>2. Like([new EXCEPT !.ruleset = fd]) /\ [new EXCEPT !.ruleset = fd].ruleset = fd
            BY <1>2, <1>3, Zenon
        <3>3. QED
            BY <1>1, <2>2, <3>1, <3>2, Zenon
    <2>3. QED
        BY <1>4, <2>1, <2>2, Zenon
<1>6. UNCHANGED <<platform, alive, req, child>> /\ thread[t].pc = "idle"
    BY Zenon DEF Begin, At
<1>7. /\ Entry(req[t]) \in {"windows", "prepare", "enter", "pipe"}
      /\ Entry(req[t]) = "windows" => platform = "windows" /\ req[t].op = "spawn"
      /\ Entry(req[t]) = "prepare" => platform = "macos" /\ req[t].op = "spawn"
      /\ Entry(req[t]) \in {"enter", "pipe"} => (req[t].op = "spawn" => Forks)
    BY <1>1, Zenon DEF Entry, HasMutex, Callable, Forks, Request
<1>8. OnItsWay(t)'
    BY <1>1, <1>5, <1>6, <1>7, Zenon DEF OnItsWay, BeforeChild, Forks, Request
<1>9. Matches(t)' /\ child[t].st \notin Starting
    BY <1>1, <1>5, <1>6, <1>7, SMTT(60) DEF Holds, Matches, BeforeChild, NoChild, Starting
<1>10. CASE thread'[t].ruleset = thread[t].ruleset /\ UNCHANGED table
    BY <1>1, <1>5, <1>6, <1>7, <1>8, <1>9, <1>10, MoveOf, Zenon
<1>11. CASE /\ thread'[t].ruleset = fd /\ Free(table) # {}
            /\ table' = Install(table, fd, Ruleset(t), TRUE)
    <2>1. fd \in Free(table)
        BY <1>11, Zenon DEF TakesFree
    <2> HIDE DEF fd
    <2>2. fd \notin DOMAIN table /\ fd # Unset
        BY <2>1, SpawnAssumption DEF Free, Unset
    <2>3. /\ DOMAIN table' = DOMAIN table \union {fd}
          /\ table'[fd] = [obj |-> Ruleset(t), cloexec |-> TRUE]
          /\ \A x \in DOMAIN table : table'[x] = table[x]
        BY <1>11, <2>2, Zenon DEF Install
    <2>4. Forks => /\ Unset \notin DOMAIN table
                   /\ \A x \in DOMAIN table : "obj" \in DOMAIN table[x]
        BY Zenon DEF Inv, FilesOpen
    <2>5. ClosesOwn(t) /\ OnlyTables
        BY <2>2, <2>3, <2>4 DEF ClosesOwn, OnlyTables
    <2>6. Owns(t)'
        <3>1. /\ thread'[t].read = thread[t].read /\ thread'[t].write = thread[t].write
              /\ thread'[t].pc \notin {"cloexec", "fork"}
            BY <1>5, <1>7, ZenonT(60)
        <3>2. Forks' = Forks
            BY <1>6, Zenon DEF Forks
        <3>3. Forks => /\ OwnFd(thread[t].read, ReadEnd(t)) /\ OwnFd(thread[t].write, WriteEnd(t))
            BY <1>1, Zenon DEF Holds, Owns
        <3>4. Forks => /\ OwnFd(thread[t].read, ReadEnd(t))' /\ OwnFd(thread[t].write, WriteEnd(t))'
            BY <2>3, <3>1, <3>3, Zenon DEF OwnFd
        <3>5. OwnFd(thread[t].ruleset, Ruleset(t))'
            <4>1. thread'[t].ruleset = fd /\ fd \in DOMAIN table'
                BY <1>11, <2>3, Zenon
            <4>2. table'[fd].obj = Ruleset(t)
                BY <2>3
            <4>3. QED
                BY <4>1, <4>2, Zenon DEF OwnFd
        <3>6. QED
            BY <3>1, <3>2, <3>4, <3>5, Zenon DEF Owns
    <2>7. QED
        BY <1>1, <1>5, <1>6, <1>8, <1>9, <2>5, <2>6, TableStepOf, ZenonT(60)
<1>12. QED
    BY <1>5, <1>10, <1>11, Zenon

-----------------------------------------------------------------------------
(* Steps of the calling thread that create or remove a process.            *)

LEMMA ForkInv ==
    ASSUME Inv, NEW t \in Threads, Fork(t)
    PROVE  Inv'
<1>1. /\ Holds(t) /\ DOMAIN thread = Threads /\ DOMAIN thread[t] = ThreadFields
      /\ DOMAIN child = Threads /\ DOMAIN child[t] = ChildFields
    BY Zenon DEF Inv, Shape
<1>2. thread[t].pc = "fork" /\ child[t] = NoChild /\ Forks /\ req[t].op # "pipe"
    BY <1>1, Zenon DEF Fork, At, Holds, Matches, OnItsWay, BeforeChild
<1>3. PICK ret \in {"none", "error"} :
          /\ thread' = [thread EXCEPT ![t].saved = thread[t].mask, ![t].mask = Signals,
                                      ![t].pc = "forked", ![t].ret = ret]
          /\ child' = IF ret = "error" THEN child
                      ELSE [child EXCEPT ![t].st = "death", ![t].mask = Signals,
                               ![t].fds = Close(table, {thread[t].read})]
    BY Zenon DEF Fork
<1>4. /\ thread'[t].pc = "forked" /\ thread'[t].ret = ret
      /\ thread'[t].read = thread[t].read /\ thread'[t].write = thread[t].write
      /\ thread'[t].ruleset = thread[t].ruleset /\ DOMAIN thread'[t] = DOMAIN thread[t]
    BY <1>1, <1>3, Zenon DEF ThreadFields
<1>5. UNCHANGED <<platform, alive, table, req>>
    BY Zenon DEF Fork
<1>6. Apart(t)
    BY <1>1, <1>3, <1>5, Zenon DEF Apart
<1>7. OnItsWay(t)'
    BY <1>2, <1>4, <1>5, Zenon DEF OnItsWay, Forks, BeforeChild
<1>8. CASE ret = "error"
    <2>1. child' = child
        BY <1>3, <1>8, ZenonT(60)
    <2>2. Matches(t)'
        <3>1. child'[t] = NoChild /\ child'[t].st = "none" /\ child'[t].report = FALSE
            BY <1>2, <2>1 DEF NoChild
        <3>2. QED
            BY <1>4, <1>8, <3>1, Zenon DEF Matches, BeforeChild
    <2>3. HoldsPipe(t)' /\ Signalled(t)'
        BY <1>2, <2>1, SMTT(60) DEF HoldsPipe, Signalled, NoChild, Starting
    <2>4. QED
        BY <1>1, <1>4, <1>5, <1>6, <1>7, <2>1, <2>2, <2>3, ProcessStepOf, ZenonT(60)
<1>9. CASE ret = "none"
    <2> DEFINE fds == Close(table, {thread[t].read})
               w == thread[t].write
    <2>1. /\ child'[t].st = "death" /\ child'[t].tmp = <<>> /\ child'[t].fds = fds
          /\ child'[t].report = FALSE /\ DOMAIN child'[t] = ChildFields
        BY <1>1, <1>2, <1>3, <1>9, SMTT(60) DEF NoChild, ChildFields
    <2>2. Matches(t)'
        BY <1>4, <1>9, <2>1, Zenon DEF Matches, BeforeChild, Starting
    <2>3. /\ w # Unset /\ w \in DOMAIN table /\ table[w].obj = WriteEnd(t)
          /\ OwnFd(thread[t].read, ReadEnd(t)) /\ OwnFd(thread[t].ruleset, Ruleset(t))
        BY <1>1, <1>2, Zenon DEF Holds, Owns, OwnFd
    <2>4. /\ WriteEnd(t) # ReadEnd(t) /\ WriteEnd(t) # Ruleset(t)
          /\ \A x : WriteEnd(t) # File(x)
        BY Zenon DEF WriteEnd, ReadEnd, Ruleset, File
    <2>5. w \notin 0 .. 4
        BY <1>2, <2>3, <2>4, Zenon DEF Inv, FilesOpen
    <2>6. w # thread[t].read /\ w # thread[t].ruleset
        BY <2>3, <2>4, Zenon DEF OwnFd
    <2>7. w \in DOMAIN fds /\ fds[w].obj = WriteEnd(t)
        <3>1. /\ DOMAIN fds = DOMAIN table \ {thread[t].read}
              /\ \A x \in DOMAIN table \ {thread[t].read} : fds[x] = table[x]
            BY Closed, Zenon
        <3> HIDE DEF fds
        <3>2. QED
            BY <2>3, <2>6, <3>1, Zenon
    <2> HIDE DEF fds
    <2>8. HoldsPipe(t)'
        <3>1. /\ child'[t].tmp \in Seq(Nat) /\ Len(child'[t].tmp) = 0
            BY <2>1
        <3>2. \E x \in DOMAIN child'[t].fds :
                 /\ x \notin 0 .. 4 /\ child'[t].fds[x].obj = WriteEnd(t)
                 /\ \A i \in 1 .. Len(child'[t].tmp) : child'[t].tmp[i] # x
                 /\ x # thread'[t].ruleset
            BY <1>4, <2>1, <2>5, <2>6, <2>7, <3>1
        <3>3. QED
            BY <2>1, <3>1, <3>2, Zenon DEF HoldsPipe
    <2>9. Signalled(t)'
        BY <2>1, ZenonT(60) DEF Signalled, Starting
    <2>10. QED
        BY <1>4, <1>5, <1>6, <1>7, <2>1, <2>2, <2>8, <2>9, ProcessStepOf, Zenon
<1>10. QED
    BY <1>8, <1>9, Zenon

LEMMA WaitChildInv ==
    ASSUME Inv, NEW t \in Threads, WaitChild(t)
    PROVE  Inv'
<1>1. /\ Holds(t) /\ DOMAIN thread = Threads /\ DOMAIN thread[t] = ThreadFields
      /\ DOMAIN child = Threads /\ DOMAIN child[t] = ChildFields
    BY ZenonT(60) DEF Inv, Shape
<1>2. /\ thread'[t].pc = "return" /\ thread'[t].ret = thread[t].ret
      /\ thread'[t].read = thread[t].read /\ thread'[t].write = thread[t].write
      /\ thread'[t].ruleset = thread[t].ruleset /\ DOMAIN thread'[t] = DOMAIN thread[t]
    BY <1>1, Zenon DEF WaitChild, ThreadFields
<1>3. child'[t].st = "reaped" /\ child'[t].report = FALSE /\ DOMAIN child'[t] = ChildFields
    BY <1>1, Zenon DEF WaitChild, Gone, NoChild, ChildFields
<1>4. Apart(t) /\ UNCHANGED table
    BY <1>1, Zenon DEF WaitChild, Apart
<1>5. thread[t].ret = "error" /\ Forks /\ req[t].op # "pipe"
    BY <1>1, Zenon DEF WaitChild, At, Holds, Matches, OnItsWay
<1>6. OnItsWay(t)'
    BY <1>2, <1>4, <1>5, Zenon DEF OnItsWay, BeforeChild, Apart
<1>7. Matches(t)'
    BY <1>2, <1>3, <1>5, ZenonT(30) DEF Matches, BeforeChild
<1>8. HoldsPipe(t)' /\ Signalled(t)'
    BY <1>3, Zenon DEF HoldsPipe, Signalled, Starting
<1>9. QED
    BY <1>1, <1>2, <1>3, <1>4, <1>6, <1>7, <1>8, ProcessStepOf, Zenon

(* A call that starts its process in one step, as on macOS and on Windows. *)
LEMMA StartInv ==
    ASSUME Inv, NEW t \in Threads, NEW after \in {"cleanup", "return"}, ~Forks,
           thread[t].pc \in {"posix", "windows"}, after = "cleanup" => platform = "macos",
           UNCHANGED <<platform, alive, table, req>>,
           DOMAIN thread' = DOMAIN thread, DOMAIN thread'[t] = DOMAIN thread[t],
           \A u \in Threads \ {t} : thread'[u] = thread[u],
           thread'[t].read = thread[t].read, thread'[t].write = thread[t].write,
           thread'[t].ruleset = thread[t].ruleset, thread'[t].pc = after,
           DOMAIN child' = DOMAIN child, DOMAIN child'[t] = DOMAIN child[t],
           \A u \in Threads \ {t} : child'[u] = child[u],
           child'[t].report = child[t].report,
           \/ thread'[t].ret = "error" /\ child'[t] = child[t]
           \/ thread'[t].ret = "ok" /\ child'[t].st = "execd"
    PROVE  Inv'
<1>1. /\ Holds(t) /\ DOMAIN child = Threads /\ DOMAIN child[t] = ChildFields /\ req[t] \in Request
    BY Zenon DEF Inv, Shape, Asked
<1>2. child[t] = NoChild /\ child[t].st = "none" /\ child[t].report = FALSE /\ req[t].op = "spawn"
    <2>1. child[t] = NoChild
        BY <1>1, Zenon DEF Holds, Matches, BeforeChild
    <2>2. req[t].op = "spawn"
        BY <1>1, Zenon DEF Holds, OnItsWay, Request
    <2>3. NoChild.st = "none" /\ NoChild.report = FALSE
        BY Zenon DEF NoChild
    <2>4. QED
        BY <2>1, <2>2, <2>3, Zenon
<1>3. OnItsWay(t)'
    BY <1>2, Zenon DEF OnItsWay, BeforeChild, Forks
<1>4. platform # "linux"
    BY Zenon DEF Forks
<1>5. Apart(t)
    BY Zenon DEF Apart
<1>6. Matches(t)'
    BY <1>2, ZenonT(30) DEF Matches, BeforeChild
<1>7. HoldsPipe(t)' /\ Signalled(t)'
    BY <1>2, <1>4, Zenon DEF HoldsPipe, Signalled, Starting
<1>8. QED
    BY <1>1, <1>3, <1>5, <1>6, <1>7, ProcessStepOf, Zenon

LEMMA PosixSpawnInv ==
    ASSUME Inv, NEW t \in Threads, PosixSpawn(t)
    PROVE  Inv'
<1>1. /\ Holds(t) /\ DOMAIN thread = Threads /\ DOMAIN thread[t] = ThreadFields
      /\ DOMAIN child = Threads /\ DOMAIN child[t] = ChildFields
    BY Zenon DEF Inv, Shape
<1>2. thread[t].pc = "posix" /\ platform = "macos" /\ ~Forks
    BY <1>1, Zenon DEF PosixSpawn, At, Holds, OnItsWay, Forks
<1> DEFINE tmp == thread[t].tmp
           std == [i \in 1 .. 3 |-> table[tmp[i]].obj]
           fds == AfterExec(WithStd(Close(table, Range(tmp)), std))
           mask == thread[t].sigmask
<1>3. PICK ret \in {"ok", "error"} :
          /\ thread' = [thread EXCEPT ![t].cwd = "process", ![t].pc = "cleanup", ![t].ret = ret]
          /\ child' = IF ret = "error" THEN child
                      ELSE [child EXCEPT ![t].st = "execd", ![t].fds = fds, ![t].mask = mask]
    BY Zenon DEF PosixSpawn
<1> HIDE DEF fds, mask
<1>4. /\ DOMAIN thread' = DOMAIN thread /\ DOMAIN thread'[t] = DOMAIN thread[t]
      /\ \A u \in Threads \ {t} : thread'[u] = thread[u]
      /\ thread'[t].read = thread[t].read /\ thread'[t].write = thread[t].write
      /\ thread'[t].ruleset = thread[t].ruleset /\ thread'[t].pc = "cleanup"
      /\ thread'[t].ret = ret
    BY <1>1, <1>3, Zenon DEF ThreadFields
<1>5. /\ DOMAIN child' = DOMAIN child /\ DOMAIN child'[t] = DOMAIN child[t]
      /\ \A u \in Threads \ {t} : child'[u] = child[u]
      /\ child'[t].report = child[t].report
      /\ \/ ret = "error" /\ child'[t] = child[t]
         \/ ret = "ok" /\ child'[t].st = "execd"
    BY <1>1, <1>3, Zenon DEF ChildFields
<1>6. UNCHANGED <<platform, alive, table, req>>
    BY Zenon DEF PosixSpawn
<1>7. QED
    BY <1>2, <1>4, <1>5, <1>6, StartInv, Zenon

LEMMA SpawnWindowsInv ==
    ASSUME Inv, NEW t \in Threads, SpawnWindows(t)
    PROVE  Inv'
<1>1. /\ Holds(t) /\ DOMAIN thread = Threads /\ DOMAIN thread[t] = ThreadFields
      /\ DOMAIN child = Threads /\ DOMAIN child[t] = ChildFields
    BY Zenon DEF Inv, Shape
<1>2. thread[t].pc = "windows" /\ platform = "windows" /\ ~Forks
    BY <1>1, Zenon DEF SpawnWindows, At, Holds, OnItsWay, Forks
<1> DEFINE std == [i \in 1 .. 3 |-> table[req[t].std[i]].obj]
           fds == AfterExec(WithStd(table, std))
<1>3. PICK ret \in {"ok", "error"} :
          /\ thread' = [thread EXCEPT ![t].pc = "return", ![t].ret = ret]
          /\ child' = IF ret = "error" THEN child
                      ELSE [child EXCEPT ![t].st = "execd", ![t].fds = fds]
    BY Zenon DEF SpawnWindows
<1> HIDE DEF fds
<1>4. /\ DOMAIN thread' = DOMAIN thread /\ DOMAIN thread'[t] = DOMAIN thread[t]
      /\ \A u \in Threads \ {t} : thread'[u] = thread[u]
      /\ thread'[t].read = thread[t].read /\ thread'[t].write = thread[t].write
      /\ thread'[t].ruleset = thread[t].ruleset /\ thread'[t].pc = "return"
      /\ thread'[t].ret = ret
    BY <1>1, <1>3, Zenon DEF ThreadFields
<1>5. /\ DOMAIN child' = DOMAIN child /\ DOMAIN child'[t] = DOMAIN child[t]
      /\ \A u \in Threads \ {t} : child'[u] = child[u]
      /\ child'[t].report = child[t].report
      /\ \/ ret = "error" /\ child'[t] = child[t]
         \/ ret = "ok" /\ child'[t].st = "execd"
    BY <1>1, <1>3, Zenon DEF ChildFields
<1>6. UNCHANGED <<platform, alive, table, req>>
    BY Zenon DEF SpawnWindows
<1>7. QED
    BY <1>2, <1>4, <1>5, <1>6, StartInv, Zenon

LEMMA PosixInitFailsInv ==
    ASSUME Inv, NEW t \in Threads, PosixInitFails(t)
    PROVE  Inv'
<1>1. /\ Holds(t) /\ DOMAIN thread = Threads /\ DOMAIN thread[t] = ThreadFields
    BY Zenon DEF Inv, Shape
<1>2. thread[t].pc = "prepare" /\ platform = "macos" /\ ~Forks /\ req[t].op # "pipe"
    BY <1>1, Zenon DEF PosixInitFails, At, Holds, OnItsWay, Forks
<1>3. UNCHANGED <<platform, table, req, child>> /\ alive' \in BOOLEAN
    BY Zenon DEF PosixInitFails
<1>4. /\ DOMAIN thread' = Threads /\ DOMAIN thread'[t] = ThreadFields
      /\ thread'[t].pc = "cleanup" /\ thread'[t].ret = "error"
      /\ \A u \in Threads \ {t} : thread'[u] = thread[u]
    BY <1>1, Zenon DEF PosixInitFails, ThreadFields
<1>5. Shape'
    BY <1>3, <1>4, Zenon DEF Inv, Shape
<1>6. Asked'
    BY <1>3, Zenon DEF Inv, Asked, Callable
<1>7. FilesOpen' /\ ~Forks'
    BY <1>2, <1>3, Zenon DEF FilesOpen, Forks
<1>8. ASSUME NEW u \in Threads
      PROVE  Owns(u)' /\ Signalled(u)'
    BY <1>2, <1>3, <1>7, Zenon DEF Owns, Signalled
<1>9. ASSUME NEW u \in Threads, u # t
      PROVE  OnItsWay(u)' /\ Matches(u)' /\ HoldsPipe(u)'
    <2>1. Holds(u) /\ thread'[u] = thread[u]
        BY <1>4, <1>9, Zenon DEF Inv
    <2>2. OnItsWay(u)'
        BY <1>3, <2>1, Zenon DEF Holds, OnItsWay, Forks
    <2>3. Matches(u)'
        BY <1>3, <2>1, Zenon DEF Holds, Matches
    <2>4. HoldsPipe(u)'
        BY <1>3, <2>1, Zenon DEF Holds, HoldsPipe
    <2>5. QED
        BY <2>2, <2>3, <2>4, Zenon
<1>10. OnItsWay(t)' /\ Matches(t)' /\ HoldsPipe(t)'
    <2>1. child[t] = NoChild /\ NoChild.st = "none" /\ NoChild.report = FALSE
        <3>1. child[t] = NoChild
            BY <1>1, <1>2, Zenon DEF Holds, Matches, BeforeChild
        <3>2. QED
            BY <3>1, Zenon DEF NoChild
    <2>2. OnItsWay(t)'
        BY <1>2, <1>3, <1>4, Zenon DEF OnItsWay, BeforeChild
    <2>3. Matches(t)'
        BY <1>3, <1>4, <2>1, Zenon DEF Matches, BeforeChild
    <2>4. HoldsPipe(t)'
        BY <1>3, <2>1, Zenon DEF HoldsPipe, Starting
    <2>5. QED
        BY <2>2, <2>3, <2>4, Zenon
<1>11. QED
    BY <1>5, <1>6, <1>7, <1>8, <1>9, <1>10, Zenon DEF Inv, Holds

LEMMA ParentDiesInv ==
    ASSUME Inv, ParentDies
    PROVE  Inv'
<1>1. Shape /\ UNCHANGED <<platform, table, req, thread>> /\ alive' = FALSE
    BY Zenon DEF Inv, ParentDies
<1>2. ASSUME NEW t \in Threads
      PROVE  /\ DOMAIN child'[t] = ChildFields
             /\ child'[t].st = child[t].st /\ child'[t].fds = child[t].fds
             /\ child'[t].tmp = child[t].tmp /\ child'[t].armed = child[t].armed
             /\ child'[t].report = child[t].report
             /\ ~Live(t) => child'[t] = child[t]
             /\ child[t].armed /\ Live(t) =>
                   child'[t].pending = child[t].pending \union {req[t].pdeathsig}
    <2>1. DOMAIN child[t] = ChildFields
        BY <1>1, Zenon DEF Shape
    <2>2. child'[t] = IF child[t].armed /\ Live(t)
                      THEN [child[t] EXCEPT !.pending = @ \union {req[t].pdeathsig}]
                      ELSE child[t]
        BY Zenon DEF ParentDies
    <2>3. QED
        BY <2>1, <2>2, Zenon DEF ChildFields
<1>3. Shape'
    <2>1. DOMAIN child' = Threads
        BY Zenon DEF ParentDies
    <2>2. QED
        BY <1>1, <1>2, <2>1, Zenon DEF Shape
<1>4. Asked' /\ FilesOpen'
    BY <1>1, Zenon DEF Inv, Asked, Callable, FilesOpen, Forks
<1>5. ASSUME NEW t \in Threads
      PROVE  Holds(t)'
    <2>1. Holds(t)
        BY Zenon DEF Inv
    <2>2. OnItsWay(t)' /\ Owns(t)'
        BY <1>1, <2>1, Zenon DEF Holds, OnItsWay, Owns, OwnFd, Forks
    <2>3. child[t] = NoChild => child'[t] = NoChild
        BY <1>2 DEF Live, NoChild, Starting
    <2>4. Matches(t)'
        BY <1>1, <1>2, <2>1, <2>3, Zenon DEF Holds, Matches
    <2>5. HoldsPipe(t)'
        BY <1>1, <1>2, <2>1, ZenonT(60) DEF Holds, HoldsPipe
    <2>6. Signalled(t)'
        BY <1>1, <1>2, <2>1, Zenon DEF Holds, Signalled, Live
    <2>7. QED
        BY <2>2, <2>4, <2>5, <2>6, Zenon DEF Holds
<1>6. QED
    BY <1>3, <1>4, <1>5, Zenon DEF Inv

LEMMA InitInv ==
    ASSUME Init
    PROVE  Inv
<1>1. /\ platform \in {"linux", "haiku", "macos", "windows"} /\ alive = TRUE
      /\ table = OwnTable /\ thread = [t \in Threads |-> Idle]
      /\ child = [t \in Threads |-> NoChild]
    BY SpawnAssumption, Zenon DEF Init
<1>2. \A t \in Threads : req[t] \in Request /\ Callable(req[t])
    BY SpawnAssumption, Zenon DEF Init
<1>3. Shape
    BY <1>1, Zenon DEF Shape, Idle, NoChild, ThreadFields, ChildFields
<1>4. Asked
    BY <1>1, <1>2, Zenon DEF Asked
<1>5. FilesOpen
    BY <1>1 DEF FilesOpen, OwnTable, Unset
<1>6. ASSUME NEW t \in Threads
      PROVE  Holds(t)
    <2>1. /\ thread[t].pc = "idle" /\ thread[t].read = Unset /\ thread[t].write = Unset
          /\ thread[t].ruleset = Unset
        BY <1>1, Zenon DEF Idle
    <2>2. child[t] = NoChild /\ child[t].st = "none" /\ child[t].report = FALSE
        BY <1>1, Zenon DEF NoChild
    <2>3. OnItsWay(t)
        BY <2>1, Zenon DEF OnItsWay, BeforeChild
    <2>4. Matches(t)
        BY <2>1, <2>2, ZenonT(60) DEF Matches, BeforeChild
    <2>5. Owns(t)
        BY <2>1, Zenon DEF Owns, OwnFd
    <2>6. HoldsPipe(t) /\ Signalled(t)
        BY <2>2, Zenon DEF HoldsPipe, Signalled, Starting
    <2>7. QED
        BY <2>3, <2>4, <2>5, <2>6, Zenon DEF Holds
<1>7. QED
    BY <1>3, <1>4, <1>5, <1>6, Zenon DEF Inv

LEMMA NextInv ==
    ASSUME Inv, TakesFree, [Next]_vars
    PROVE  Inv'
<1>1. ASSUME NEW t \in Threads, ThreadStep(t)
      PROVE  Inv'
    BY <1>1, BeginInv, EnterSectionInv, MakePipeInv, SetCloexecInv, LeavePipeInv, ForkInv,
       ForkedInv, ReadReportInv, WaitChildInv, ReturnInv, PosixDupInv, PosixChdirInv,
       PosixFailsInv, PosixSpawnInv, PosixCleanupInv, SpawnWindowsInv, Zenon DEF ThreadStep
<1>2. ASSUME NEW t \in Threads, ChildStep(t)
      PROVE  Inv'
    BY <1>2, ChildDeathSignalInv, ChildCheckParentInv, ChildSetupInv, ChildDupInv,
       ChildDup2Inv, ChildRestrictInv, ChildExecInv, ChildEndsInv, ZenonT(60) DEF ChildStep
<1>3. ASSUME NEW t \in Threads, Fault(t)
      PROVE  Inv'
    BY <1>3, OutOfMemoryInv, ReadFailsInv, PosixInitFailsInv, ChildEndsInv, Zenon DEF Fault
<1>4. CASE UNCHANGED vars
    <2>1. UNCHANGED <<platform, alive, table, req, thread, child>>
        BY <1>4, Zenon DEF vars
    <2>2. Shape' /\ Asked' /\ FilesOpen'
        BY <2>1, Zenon DEF Inv, Shape, Asked, FilesOpen, Callable, Forks
    <2>3. ASSUME NEW t \in Threads
          PROVE  Holds(t)'
        BY <2>1, ZenonT(60) DEF Inv, Holds, OnItsWay, Matches, Owns, OwnFd, HoldsPipe, Signalled, Forks
    <2>4. QED
        BY <2>2, <2>3, Zenon DEF Inv
<1>5. QED
    BY <1>1, <1>2, <1>3, <1>4, ParentDiesInv, Zenon DEF Next

-----------------------------------------------------------------------------
(* Every step is one of SpawnService or leaves it alone.                   *)

(* What a step may make of one call and its process, as SpawnService has   *)
(* it.                                                                     *)
Simulates(t) ==
    LET before == CallState(t)
        after == CallState(t)'
        proc == ProcState(t)
        new == ProcState(t)'
    IN
    \/ after = before /\ new = proc
    \/ before = "idle" /\ after = "busy" /\ new = proc
    \/ before = "busy" /\ after = before /\ proc = "none" /\ new \in {"started", "doomed", "ended"}
    \/ after = before /\ proc = "started" /\ new = "ended"
    \/ before = "busy" /\ proc \in {"doomed", "ended"} /\ after = "failing" /\ new = "none"
    \/ before = "busy" /\ proc \in {"started", "ended"} /\ after = "ok" /\ new = proc
    \/ before \in {"busy", "failing"} /\ proc = "none" /\ after = "error" /\ new = proc

(* A step of one call that does what Simulates says is one of SpawnService *)
(* or leaves it alone.                                                     *)
LEMMA ServiceStep ==
    ASSUME NEW t \in Threads, Simulates(t),
           \A u \in Threads \ {t} : CallState(u)' = CallState(u) /\ ProcState(u)' = ProcState(u)
    PROVE  [Service!Next]_(Service!vars)
<1> DEFINE call == [u \in Threads |-> CallState(u)]
           proc == [u \in Threads |-> ProcState(u)]
<1>1. call' = [call EXCEPT ![t] = CallState(t)'] /\ proc' = [proc EXCEPT ![t] = ProcState(t)']
    BY Zenon
<1>2. /\ call[t] = CallState(t) /\ proc[t] = ProcState(t)
      /\ CallState(t)' = CallState(t) => UNCHANGED call
      /\ ProcState(t)' = ProcState(t) => UNCHANGED proc
    BY Zenon
<1>3. \/ UNCHANGED <<call, proc>>
      \/ Service!Begin(t) \/ Service!Start(t) \/ Service!Abort(t) \/ Service!End(t)
      \/ Service!Reap(t) \/ Service!Succeed(t) \/ Service!Fail(t)
    BY <1>1, <1>2, Zenon DEF Simulates, Service!Begin, Service!Start, Service!Abort, Service!End,
                      Service!Reap, Service!Succeed, Service!Fail
<1>4. QED
    BY <1>3, ZenonT(60) DEF Service!Next, Service!vars

(* A step that leaves all calls but t alone.                               *)
LEMMA OneCall ==
    ASSUME NEW t \in Threads, req' = req, Simulates(t),
           \A u \in Threads \ {t} : thread'[u] = thread[u] /\ child'[u] = child[u]
    PROVE  [Service!Next]_(Service!vars)
<1>1. ASSUME NEW u \in Threads \ {t}
      PROVE  CallState(u)' = CallState(u) /\ ProcState(u)' = ProcState(u)
    BY Zenon DEF CallState, ProcState
<1>2. QED
    BY <1>1, ServiceStep, Zenon

(* The thread goes from one place inside its call to another.              *)
LEMMA MoveSimulates ==
    ASSUME NEW t \in Threads, UNCHANGED <<req, child>>,
           thread[t].pc \notin {"idle", "done"}, thread'[t].pc \notin {"idle", "done"},
           \A u \in Threads \ {t} : thread'[u] = thread[u]
    PROVE  [Service!Next]_(Service!vars)
<1>1. Simulates(t)
    BY Zenon DEF Simulates, CallState, ProcState
<1>2. QED
    BY <1>1, OneCall, Zenon

LEMMA MovesSimulate ==
    ASSUME Inv, NEW t \in Threads,
           \/ OutOfMemory(t) \/ EnterSection(t) \/ MakePipe(t) \/ SetCloexec(t) \/ Forked(t)
           \/ ReadReport(t) \/ ReadFails(t) \/ PosixInitFails(t) \/ PosixDup(t)
           \/ PosixChdir(t) \/ PosixFails(t) \/ PosixCleanup(t)
    PROVE  [Service!Next]_(Service!vars)
<1> DEFINE Inside == /\ UNCHANGED <<req, child>>
                     /\ thread[t].pc \notin {"idle", "done"}
                     /\ thread'[t].pc \notin {"idle", "done"}
                     /\ \A u \in Threads \ {t} : thread'[u] = thread[u]
<1>1. DOMAIN thread = Threads /\ DOMAIN thread[t] = ThreadFields
    BY Zenon DEF Inv, Shape
<1>2. CASE OutOfMemory(t)
    <2>1. Entry(req[t]) \notin {"idle", "done"}
        BY Zenon DEF Entry
    <2>2. Inside
        BY <1>1, <1>2, <2>1, Zenon DEF OutOfMemory, At, ThreadFields
    <2>3. QED
        BY <2>2, MoveSimulates, Zenon
<1>3. CASE EnterSection(t) \/ MakePipe(t) \/ SetCloexec(t)
    <2>1. CASE EnterSection(t)
        BY <1>1, <2>1, MoveSimulates, Zenon DEF EnterSection, At, ThreadFields
    <2>2. CASE MakePipe(t)
        <3>1. PipeReady(t) \notin {"idle", "done"}
            BY Zenon DEF PipeReady
        <3>2. Inside
            BY <1>1, <2>2, <3>1 DEF MakePipe, At, ThreadFields
        <3>3. QED
            BY <3>2, MoveSimulates, Zenon
    <2>3. CASE SetCloexec(t)
        <3>1. PipeReady(t) \notin {"idle", "done"}
            BY Zenon DEF PipeReady
        <3>2. Inside
            BY <1>1, <2>3, <3>1, SMTT(60) DEF SetCloexec, At, ThreadFields
        <3>3. QED
            BY <3>2, MoveSimulates, Zenon
    <2>4. QED
        BY <1>3, <2>1, <2>2, <2>3, Zenon
<1>4. CASE Forked(t) \/ ReadReport(t) \/ ReadFails(t)
    <2>1. Inside
        BY <1>1, <1>4 DEF Forked, ReadReport, ReadFails, At, ThreadFields, RaiseAfter
    <2>2. QED
        BY <2>1, MoveSimulates, Zenon
<1>5. CASE PosixInitFails(t) \/ PosixDup(t) \/ PosixChdir(t) \/ PosixFails(t) \/ PosixCleanup(t)
    <2>1. Inside
        BY <1>1, <1>5, ZenonT(60) DEF PosixInitFails, PosixDup, PosixChdir, PosixFails, PosixCleanup, At,
                          ThreadFields
    <2>2. QED
        BY <2>1, MoveSimulates, Zenon
<1>6. QED
    BY <1>2, <1>3, <1>4, <1>5, Zenon

LEMMA BeginSimulates ==
    ASSUME Inv, NEW t \in Threads, Begin(t)
    PROVE  [Service!Next]_(Service!vars)
<1>1. /\ DOMAIN thread = Threads /\ DOMAIN thread[t] = ThreadFields /\ Holds(t)
      /\ req[t] \in Request
    BY Zenon DEF Inv, Shape, Asked
<1>2. /\ thread[t].pc = "idle" /\ UNCHANGED <<req, child>>
      /\ \A u \in Threads \ {t} : thread'[u] = thread[u]
    BY <1>1, Zenon DEF Begin, At
<1>3. thread'[t].pc \notin {"idle", "done"}
    <2> DEFINE mask == ChildSigmask(req[t], thread[t].mask)
               start == [thread[t] EXCEPT !.pc = Entry(req[t]), !.sigmask = mask]
               raise == [thread[t] EXCEPT !.pc = "return", !.ret = "error"]
               fd == Min(Free(table))
    <2>1. Entry(req[t]) \notin {"idle", "done"}
        BY Zenon DEF Entry
    <2>2. \E new \in {start, raise} : \/ thread' = [thread EXCEPT ![t] = new]
                                      \/ thread' = [thread EXCEPT ![t] = [new EXCEPT !.ruleset = fd]]
        BY Zenon DEF Begin
    <2> HIDE DEF mask, fd
    <2>3. \A new \in {start, raise} : /\ new.pc \notin {"idle", "done"}
                                      /\ [new EXCEPT !.ruleset = fd].pc \notin {"idle", "done"}
        BY <1>1, <2>1, Zenon DEF ThreadFields
    <2> HIDE DEF start, raise
    <2>4. QED
        BY <1>1, <2>2, <2>3, Zenon
<1>4. child[t].st = "none"
    <2>1. child[t] = NoChild
        BY <1>1, <1>2, Zenon DEF Holds, Matches, BeforeChild
    <2>2. QED
        BY <2>1, SMTT(60) DEF NoChild
<1>5. Simulates(t)
    BY <1>2, <1>3, <1>4, Zenon DEF Simulates, CallState, ProcState
<1>6. QED
    BY <1>2, <1>5, OneCall, Zenon

LEMMA ReturnSimulates ==
    ASSUME Inv, NEW t \in Threads, LeavePipe(t) \/ Return(t)
    PROVE  [Service!Next]_(Service!vars)
<1>1. /\ DOMAIN thread = Threads /\ DOMAIN thread[t] = ThreadFields /\ Holds(t)
      /\ req[t] \in Request
    BY Zenon DEF Inv, Shape, Asked
<1>2. UNCHANGED <<req, child>> /\ \A u \in Threads \ {t} : thread'[u] = thread[u]
    BY <1>1, Zenon DEF LeavePipe, Return
<1>3. CASE LeavePipe(t)
    <2>1. req[t].op = "pipe"
        BY <1>1, <1>3, Zenon DEF LeavePipe, At, Holds, OnItsWay
    <2>2. Simulates(t)
        BY <1>2, <2>1, Zenon DEF Simulates, CallState, ProcState
    <2>3. QED
        BY <1>2, <2>2, OneCall, Zenon
<1>4. CASE Return(t)
    <2>1. thread[t].pc = "return" /\ thread'[t].pc = "done" /\ thread'[t].ret = thread[t].ret
        BY <1>1, <1>4, Zenon DEF Return, At, ThreadFields
    <2>2. CASE req[t].op = "pipe"
        <3>1. Simulates(t)
            BY <1>2, <2>2, Zenon DEF Simulates, CallState, ProcState
        <3>2. QED
            BY <1>2, <3>1, OneCall, Zenon
    <2>3. CASE req[t].op = "spawn"
        <3>1. \/ thread[t].ret = "error" /\ child[t].st \in {"none", "reaped"}
              \/ /\ thread[t].ret = "ok" /\ child[t].st \in {"execd", "exited", "killed"}
                 /\ ~child[t].report
            BY <1>1, <2>1, <2>3, Zenon DEF Holds, Matches
        <3>2. /\ CallState(t) = IF child[t].st = "reaped" THEN "failing" ELSE "busy"
              /\ CallState(t)' = thread[t].ret /\ ProcState(t)' = ProcState(t)
            BY <1>2, <2>1, <2>3, Zenon DEF CallState, ProcState
        <3>3. ProcState(t) = IF thread[t].ret = "error" THEN "none"
                             ELSE IF child[t].st = "execd" THEN "started" ELSE "ended"
            BY <3>1, Zenon DEF ProcState, Starting
        <3>4. Simulates(t)
            BY <3>1, <3>2, <3>3, Zenon DEF Simulates
        <3>5. QED
            BY <1>2, <3>4, OneCall, Zenon
    <2>4. QED
        BY <1>1, <2>2, <2>3, Zenon DEF Request
<1>5. QED
    BY <1>3, <1>4, Zenon

(* A step of the thread that is inside its call, and its process.          *)
LEMMA ProcessSimulates ==
    ASSUME Inv, NEW t \in Threads,
           Fork(t) \/ WaitChild(t) \/ PosixSpawn(t) \/ SpawnWindows(t)
    PROVE  [Service!Next]_(Service!vars)
<1>1. /\ DOMAIN thread = Threads /\ DOMAIN thread[t] = ThreadFields /\ Holds(t)
      /\ DOMAIN child = Threads /\ DOMAIN child[t] = ChildFields /\ req[t] \in Request
    BY Zenon DEF Inv, Shape, Asked
<1>2. req' = req /\ thread[t].pc \in {"fork", "reap", "posix", "windows"}
    BY Zenon DEF Fork, WaitChild, PosixSpawn, SpawnWindows, At
<1>3. req[t].op = "spawn"
    BY <1>1, <1>2, Zenon DEF Holds, OnItsWay, Request
<1>4. ASSUME NEW st, child'[t].st = st, thread'[t].pc \notin {"idle", "done"},
             \A u \in Threads \ {t} : thread'[u] = thread[u] /\ child'[u] = child[u],
             \/ child[t].st = "none" /\ st \in {"none", "death", "execd"}
             \/ child[t].st \in {"exited", "killed"} /\ st = "reaped"
      PROVE  [Service!Next]_(Service!vars)
    <2>1. /\ CallState(t) = "busy"
          /\ CallState(t)' = IF st = "reaped" THEN "failing" ELSE "busy"
        BY <1>2, <1>3, <1>4, ZenonT(60) DEF CallState
    <2>2. ProcState(t)' = IF st = "execd" THEN "started" ELSE "none"
        BY <1>4, Zenon DEF ProcState, Starting
    <2>3. IF st = "reaped" THEN ProcState(t) \in {"doomed", "ended"} ELSE ProcState(t) = "none"
        BY <1>4, Zenon DEF ProcState, Starting
    <2>4. Simulates(t)
        BY <1>4, <2>1, <2>2, <2>3, Zenon DEF Simulates
    <2>5. QED
        BY <1>2, <1>4, <2>4, OneCall, Zenon
<1>5. /\ thread'[t].pc \notin {"idle", "done"}
      /\ \A u \in Threads \ {t} : thread'[u] = thread[u]
    <2>1. CASE Fork(t)
        BY <1>1, <2>1, SMTT(60) DEF Fork, ThreadFields
    <2>2. CASE WaitChild(t)
        BY <1>1, <2>2, Zenon DEF WaitChild, ThreadFields
    <2>3. CASE PosixSpawn(t)
        <3>1. PICK ret \in {"ok", "error"} :
                 thread' = [thread EXCEPT ![t].cwd = "process", ![t].pc = "cleanup", ![t].ret = ret]
            BY <2>3, Zenon DEF PosixSpawn
        <3>2. QED
            BY <1>1, <3>1, Zenon DEF ThreadFields
    <2>4. CASE SpawnWindows(t)
        <3>1. PICK ret \in {"ok", "error"} :
                 thread' = [thread EXCEPT ![t].pc = "return", ![t].ret = ret]
            BY <2>4, Zenon DEF SpawnWindows
        <3>2. QED
            BY <1>1, <3>1, Zenon DEF ThreadFields
    <2>5. QED
        BY <2>1, <2>2, <2>3, <2>4, Zenon
<1>6. CASE WaitChild(t)
    <2>1. /\ child[t].st \in {"exited", "killed"} /\ child'[t].st = "reaped"
          /\ \A u \in Threads \ {t} : child'[u] = child[u]
        BY <1>1, <1>6, Zenon DEF WaitChild, Gone, NoChild
    <2>2. QED
        BY <1>4, <1>5, <2>1, Zenon
<1>7. CASE Fork(t) \/ PosixSpawn(t) \/ SpawnWindows(t)
    <2>1. child[t].st = "none"
        <3>1. thread[t].pc \in {"fork", "posix", "windows"}
            BY <1>7, Zenon DEF Fork, PosixSpawn, SpawnWindows, At
        <3>2. child[t] = NoChild
            BY <1>1, <3>1, Zenon DEF Holds, Matches, BeforeChild
        <3>3. QED
            BY <3>2, SMTT(60) DEF NoChild
    <2>2. /\ child'[t].st \in {"none", "death", "execd"}
          /\ \A u \in Threads \ {t} : child'[u] = child[u]
        <3>1. CASE Fork(t)
            BY <1>1, <2>1, <3>1 DEF Fork, ChildFields
        <3>2. CASE PosixSpawn(t)
            <4> DEFINE tmp == thread[t].tmp
                       std == [i \in 1 .. 3 |-> table[tmp[i]].obj]
                       fds == AfterExec(WithStd(Close(table, Range(tmp)), std))
                       mask == thread[t].sigmask
            <4>1. \/ child' = child
                  \/ child' = [child EXCEPT ![t].st = "execd", ![t].fds = fds, ![t].mask = mask]
                BY <3>2, Zenon DEF PosixSpawn
            <4> HIDE DEF fds, mask
            <4>2. QED
                BY <1>1, <2>1, <4>1, ZenonT(60) DEF ChildFields
        <3>3. CASE SpawnWindows(t)
            <4> DEFINE std == [i \in 1 .. 3 |-> table[req[t].std[i]].obj]
                       fds == AfterExec(WithStd(table, std))
            <4>1. child' = child \/ child' = [child EXCEPT ![t].st = "execd", ![t].fds = fds]
                BY <3>3, Zenon DEF SpawnWindows
            <4> HIDE DEF fds
            <4>2. QED
                BY <1>1, <2>1, <4>1, ZenonT(60) DEF ChildFields
        <3>4. QED
            BY <1>7, <3>1, <3>2, <3>3, Zenon
    <2>3. QED
        BY <1>4, <1>5, <2>1, <2>2, Zenon
<1>8. QED
    BY <1>6, <1>7, Zenon

(* A child that has not executed the program: its call is waiting for it.  *)
LEMMA ChildSimulates ==
    ASSUME Inv, NEW t \in Threads, Live(t), UNCHANGED ThreadVars,
           \A u \in Threads \ {t} : child'[u] = child[u],
           child'[t].report \in BOOLEAN,
           \/ child[t].st \in Starting /\ child'[t].st \in Starting \union {"execd"}
           \/ child[t].st \in Starting /\ child'[t].st \in {"exited", "killed"}
           \/ child[t].st = "execd" /\ child'[t].st \in {"exited", "killed"} /\ ~child'[t].report
    PROVE  [Service!Next]_(Service!vars)
<1>1. Holds(t) /\ req[t] \in Request
    BY Zenon DEF Inv, Asked
<1>2. req' = req /\ thread' = thread
    BY Zenon DEF ThreadVars
<1>3. child[t].st \notin {"none", "reaped"} /\ child'[t].st \notin {"none", "reaped"}
    BY Zenon DEF Live, Starting
<1>4. CallState(t)' = CallState(t)
    BY <1>2, <1>3, Zenon DEF CallState
<1>5. CASE child[t].st = "execd"
    <2>1. ProcState(t) = "started" /\ ProcState(t)' = "ended"
        BY <1>5, Zenon DEF ProcState, Starting
    <2>2. Simulates(t)
        BY <1>4, <2>1, Zenon DEF Simulates
    <2>3. QED
        BY <1>2, <2>2, OneCall, Zenon
<1>6. CASE child[t].st \in Starting
    <2>1. thread[t].pc \in {"forked", "read", "reap"}
        <3>1. thread[t].pc \notin BeforeChild
            BY <1>1, <1>3, SMTT(60) DEF Holds, Matches, NoChild
        <3>2. thread[t].pc \notin {"return", "cleanup", "done"}
            BY <1>1, <1>6, Zenon DEF Holds, Matches, Starting
        <3>3. QED
            BY <1>1, <3>1, <3>2, Zenon DEF Holds, OnItsWay
    <2>2. req[t].op = "spawn"
        BY <1>1, <2>1, Zenon DEF Holds, OnItsWay, Request
    <2>3. CallState(t) = "busy"
        BY <1>3, <2>1, <2>2, Zenon DEF CallState
    <2>4. ProcState(t) = "none"
        BY <1>6, Zenon DEF ProcState, Starting
    <2>5. ProcState(t)' \in {"none", "started", "doomed", "ended"}
        BY Zenon DEF ProcState
    <2>6. Simulates(t)
        BY <1>4, <2>3, <2>4, <2>5, Zenon DEF Simulates
    <2>7. QED
        BY <1>2, <2>6, OneCall, Zenon
<1>7. QED
    BY <1>5, <1>6, Zenon DEF Live

LEMMA ChildStepSimulates ==
    ASSUME Inv, NEW t \in Threads, ChildStep(t) \/ ChildEnds(t)
    PROVE  [Service!Next]_(Service!vars)
<1>1. /\ DOMAIN child = Threads /\ DOMAIN child[t] = ChildFields
      /\ child[t].report \in BOOLEAN /\ UNCHANGED ThreadVars
    <2>1. DOMAIN child = Threads /\ DOMAIN child[t] = ChildFields /\ Holds(t)
        BY Zenon DEF Inv, Shape
    <2>2. UNCHANGED ThreadVars
        BY Zenon DEF ChildStep, ChildDeathSignal, ChildCheckParent, ChildSetup, ChildDup,
                     ChildDup2, ChildRestrict, ChildExec, ChildSignalled, ChildEnds
    <2>3. QED
        BY <2>1, <2>2, ZenonT(60) DEF Holds, Matches
<1>2. ASSUME NEW st \in {"exited", "killed"}, NEW report \in BOOLEAN, Live(t),
             report => child[t].st \in Starting,
             child' = [child EXCEPT ![t] = Gone(st, report)]
      PROVE  [Service!Next]_(Service!vars)
    <2>1. /\ child'[t].st = st /\ child'[t].report = report
          /\ \A u \in Threads \ {t} : child'[u] = child[u]
        BY <1>1, <1>2, Zenon DEF Gone, NoChild
    <2>2. child[t].st \in Starting \/ child[t].st = "execd"
        BY <1>2, Zenon DEF Live
    <2>3. QED
        BY <1>1, <1>2, <2>1, <2>2, ChildSimulates, Zenon
<1>3. CASE ChildEnds(t) \/ ChildSignalled(t)
    <2>1. PICK st \in {"exited", "killed"} :
              Live(t) /\ child' = [child EXCEPT ![t] = Gone(st, FALSE)]
        BY <1>3, Zenon DEF ChildEnds, ChildSignalled
    <2>2. QED
        BY <1>2, <2>1, Zenon
<1>4. CASE child[t].st \in Starting /\ Failure(t)
    BY <1>2, <1>4, Zenon DEF Failure, Live
<1>5. ASSUME child[t].st \in Starting, child'[t].st \in Starting \union {"execd"},
             child'[t].report = child[t].report,
             \A u \in Threads \ {t} : child'[u] = child[u]
      PROVE  [Service!Next]_(Service!vars)
    BY <1>1, <1>5, ChildSimulates, ZenonT(60) DEF Live
<1>6. CASE ChildDeathSignal(t)
    <2>1. child[t].st = "death"
        BY <1>6, Zenon DEF ChildDeathSignal, Step
    <2>2. CASE Failure(t)
        BY <1>4, <2>1, <2>2, Zenon DEF Starting
    <2>3. CASE ~Failure(t)
        BY <1>1, <1>5, <1>6, <2>1, <2>3 DEF ChildDeathSignal, ChildFields, Starting
    <2>4. QED
        BY <2>2, <2>3, Zenon
<1>7. CASE ChildCheckParent(t)
    <2>1. child[t].st = "ppid"
        BY <1>7, Zenon DEF ChildCheckParent, Step
    <2>2. CASE Failure(t)
        BY <1>4, <2>1, <2>2, Zenon DEF Starting
    <2>3. CASE ~Failure(t)
        BY <1>1, <1>5, <1>7, <2>1, <2>3 DEF ChildCheckParent, ChildFields, Starting
    <2>4. QED
        BY <2>2, <2>3, Zenon
<1>8. CASE ChildSetup(t)
    <2>1. child[t].st = "setup" /\ child[t].st \in Starting
        BY <1>8, Zenon DEF ChildSetup, Step, Starting
    <2> DEFINE fds == IF req[t].cwd = "fd" THEN Close(child[t].fds, {CwdFd}) ELSE child[t].fds
    <2>2. Failure(t) \/ child' = [child EXCEPT ![t].st = "dup", ![t].fds = fds]
        BY <1>8, Zenon DEF ChildSetup
    <2> HIDE DEF fds
    <2>3. CASE child' = [child EXCEPT ![t].st = "dup", ![t].fds = fds]
        BY <1>1, <1>5, <2>1, <2>3, Zenon DEF ChildFields, Starting
    <2>4. QED
        BY <1>4, <2>1, <2>2, <2>3, Zenon
<1>9. CASE ChildDup(t)
    <2>1. child[t].st = "dup" /\ child[t].st \in Starting
        BY <1>9, Zenon DEF ChildDup, Step, Starting
    <2> DEFINE i == Len(child[t].tmp) + 1
               fd == SafeDup(child[t].fds)
               duped == Install(child[t].fds, fd, child[t].fds[req[t].std[i]].obj, FALSE)
               tmp == Append(child[t].tmp, fd)
               st == IF i = 3 THEN "dup2" ELSE child[t].st
               fds == IF i = 3 THEN Close(duped, Range(req[t].std)) ELSE duped
    <2>2. Failure(t) \/ child' = [child EXCEPT ![t].tmp = tmp, ![t].st = st, ![t].fds = fds]
        BY <1>1, <1>9, Zenon DEF ChildDup
    <2>3. st \in Starting
        BY <2>1, Zenon DEF Starting
    <2> HIDE DEF tmp, st, fds
    <2>4. CASE child' = [child EXCEPT ![t].tmp = tmp, ![t].st = st, ![t].fds = fds]
        BY <1>1, <1>5, <2>1, <2>3, <2>4, Zenon DEF ChildFields
    <2>5. QED
        BY <1>4, <2>1, <2>2, <2>4, ZenonT(60)
<1>10. CASE ChildDup2(t)
    <2>1. child[t].st = "dup2" /\ child[t].st \in Starting
        BY <1>10, Zenon DEF ChildDup2, Step, Starting
    <2> DEFINE first == Head(child[t].tmp)
               fd == 3 - Len(child[t].tmp)
               tmp == Tail(child[t].tmp)
               st == IF fd = 2 THEN "restrict" ELSE child[t].st
               fds == Close(Install(child[t].fds, fd, child[t].fds[first].obj, FALSE), {first})
    <2>2. Failure(t) \/ child' = [child EXCEPT ![t].tmp = tmp, ![t].st = st, ![t].fds = fds]
        BY <1>1, <1>10, Zenon DEF ChildDup2
    <2>3. st \in Starting
        BY <2>1, Zenon DEF Starting
    <2> HIDE DEF tmp, st, fds
    <2>4. CASE child' = [child EXCEPT ![t].tmp = tmp, ![t].st = st, ![t].fds = fds]
        BY <1>1, <1>5, <2>1, <2>3, <2>4, Zenon DEF ChildFields
    <2>5. QED
        BY <1>4, <2>1, <2>2, <2>4, ZenonT(60)
<1>11. CASE ChildRestrict(t)
    <2>1. child[t].st = "restrict" /\ child[t].st \in Starting
        BY <1>11, Zenon DEF ChildRestrict, Step, Starting
    <2> DEFINE fds == IF req[t].landlock THEN Close(child[t].fds, {thread[t].ruleset})
                      ELSE child[t].fds
               mask == thread[t].sigmask
    <2>2. Failure(t) \/ child' = [child EXCEPT ![t].st = "exec", ![t].fds = fds, ![t].mask = mask]
        BY <1>11, Zenon DEF ChildRestrict
    <2> HIDE DEF fds, mask
    <2>3. CASE child' = [child EXCEPT ![t].st = "exec", ![t].fds = fds, ![t].mask = mask]
        BY <1>1, <1>5, <2>1, <2>3, Zenon DEF ChildFields, Starting
    <2>4. QED
        BY <1>4, <2>1, <2>2, <2>3, Zenon
<1>12. CASE ChildExec(t)
    <2>1. child[t].st = "exec" /\ child[t].st \in Starting
        BY <1>12, Zenon DEF ChildExec, Step, Starting
    <2> DEFINE fds == AfterExec(child[t].fds)
    <2>2. Failure(t) \/ child' = [child EXCEPT ![t].st = "execd", ![t].fds = fds]
        BY <1>12, Zenon DEF ChildExec
    <2> HIDE DEF fds
    <2>3. CASE child' = [child EXCEPT ![t].st = "execd", ![t].fds = fds]
        BY <1>1, <1>5, <2>1, <2>3, Zenon DEF ChildFields
    <2>4. QED
        BY <1>4, <2>1, <2>2, <2>3, Zenon
<1>13. QED
    BY <1>3, <1>6, <1>7, <1>8, <1>9, <1>10, <1>11, <1>12, Zenon DEF ChildStep

LEMMA ParentDiesSimulates ==
    ASSUME Inv, ParentDies
    PROVE  [Service!Next]_(Service!vars)
<1>1. UNCHANGED <<req, thread>>
    BY Zenon DEF ParentDies
<1>2. ASSUME NEW t \in Threads
      PROVE  child'[t].st = child[t].st /\ child'[t].report = child[t].report
    <2>1. DOMAIN child[t] = ChildFields
        BY Zenon DEF Inv, Shape
    <2>2. \/ child'[t] = child[t]
          \/ child'[t] = [child[t] EXCEPT !.pending = child[t].pending \union {req[t].pdeathsig}]
        BY Zenon DEF ParentDies
    <2>3. QED
        BY <2>1, <2>2, Zenon DEF ChildFields
<1>3. ASSUME NEW t \in Threads
      PROVE  CallState(t)' = CallState(t) /\ ProcState(t)' = ProcState(t)
    BY <1>1, <1>2, Zenon DEF CallState, ProcState
<1>4. UNCHANGED Service!vars
    BY <1>3, Zenon DEF Service!vars
<1>5. QED
    BY <1>4, Zenon

LEMMA NextSimulates ==
    ASSUME Inv, [Next]_vars
    PROVE  [Service!Next]_(Service!vars)
<1>1. ASSUME NEW t \in Threads, ThreadStep(t)
      PROVE  [Service!Next]_(Service!vars)
    BY <1>1, BeginSimulates, MovesSimulate, ReturnSimulates, ProcessSimulates, Zenon
       DEF ThreadStep
<1>2. ASSUME NEW t \in Threads, ChildStep(t)
      PROVE  [Service!Next]_(Service!vars)
    BY <1>2, ChildStepSimulates, Zenon
<1>3. ASSUME NEW t \in Threads, Fault(t)
      PROVE  [Service!Next]_(Service!vars)
    BY <1>3, MovesSimulate, ChildStepSimulates, Zenon DEF Fault
<1>4. CASE UNCHANGED vars
    <2>1. UNCHANGED <<req, thread, child>>
        BY <1>4, Zenon DEF vars
    <2>2. ASSUME NEW t \in Threads
          PROVE  CallState(t)' = CallState(t) /\ ProcState(t)' = ProcState(t)
        BY <2>1, Zenon DEF CallState, ProcState
    <2>3. UNCHANGED Service!vars
        BY <2>2, Zenon DEF Service!vars
    <2>4. QED
        BY <2>3, Zenon
<1>5. QED
    BY <1>1, <1>2, <1>3, <1>4, ParentDiesSimulates, Zenon DEF Next
=============================================================================
