--------------------------- MODULE SpawnChildren ---------------------------
(***************************************************************************)
(* The steps of the children keep the second part of the invariant of      *)
(* Spawn, and with those of the calls every step does.                     *)
(***************************************************************************)
EXTENDS SpawnDescriptors

(* Sequences of numbers.                                                   *)
LEMMA EmptySequence ==
    ASSUME NEW q \in Seq(Nat)
    PROVE  Len(q) \in Nat /\ (Len(q) = 0 <=> q = <<>>)
OBVIOUS

LEMMA FirstAndRest ==
    ASSUME NEW q \in Seq(Nat), q # <<>>
    PROVE  /\ Head(q) = q[1] /\ Tail(q) \in Seq(Nat) /\ Len(Tail(q)) = Len(q) - 1
           /\ \A i \in 1 .. Len(q) - 1 : Tail(q)[i] = q[i + 1]
OBVIOUS

-----------------------------------------------------------------------------
(* Steps of a child.                                                       *)

LEMMA CallersStay ==
    ASSUME DInv, UNCHANGED <<platform, table, mutex, req, thread>>,
           \A u \in Threads : Process(u)'
    PROVE  DInv'
<1>1. Accounted'
    BY Zenon DEF DInv, Accounted, Holding
<1>2. ASSUME NEW u \in Threads
      PROVE  Caller(u)'
    <2>1. OpenOf(u) /\ SoFar(u) /\ Restores(u)
        BY Zenon DEF DInv, Caller
    <2>2. OpenOf(u)'
        BY <2>1, Zenon DEF OpenOf, Holding
    <2>3. SoFar(u)'
        BY <2>1, Zenon DEF SoFar
    <2>4. Restores(u)'
        BY <2>1, Zenon DEF Restores, RestoredMask, HasMutex
    <2>5. QED
        BY <2>2, <2>3, <2>4, Zenon DEF Caller
<1>3. QED
    BY <1>1, <1>2, Zenon DEF DInv

LEMMA ChildStepD ==
    ASSUME DInv, NEW t \in Threads, UNCHANGED ThreadVars,
           \A u \in Threads \ {t} : child'[u] = child[u],
           Sound(child'[t], req[t], platform)
    PROVE  DInv'
<1>1. UNCHANGED <<platform, table, mutex, req, thread>>
    BY Zenon DEF ThreadVars
<1>2. QED
    BY <1>1, OneProcess, CallersStay, Zenon

(* The call of a child that has not executed the program yet.              *)
LEMMA ParentOfChild ==
    ASSUME Inv, DInv, NEW t \in Threads, child[t].st \in Starting
    PROVE  /\ DOMAIN child = Threads /\ DOMAIN child[t] = ChildFields
           /\ Sound(child[t], req[t], platform) /\ req[t] \in Request
           /\ HoldsPipe(t) /\ OpenOf(t)
           /\ thread[t].sigmask = ChildSigmask(req[t], OwnMask)
<1>1. /\ DOMAIN child = Threads /\ DOMAIN child[t] = ChildFields
      /\ Process(t) /\ req[t] \in Request /\ OpenOf(t) /\ Restores(t) /\ Matches(t) /\ OnItsWay(t)
    BY OfCall, Zenon
<1>2. HoldsPipe(t)
    BY Zenon DEF Inv, Holds
<1>3. thread[t].pc \in {"forked", "read", "reap"}
    BY <1>1 DEF Matches, OnItsWay, Starting, NoChild, BeforeChild
<1>4. thread[t].sigmask = ChildSigmask(req[t], OwnMask)
    BY <1>1, <1>3 DEF Restores
<1>5. QED
    BY <1>1, <1>2, <1>4, Zenon DEF Process

LEMMA EndD ==
    ASSUME Inv, DInv, NEW t \in Threads, UNCHANGED ThreadVars,
           NEW st \in {"exited", "killed"}, NEW report,
           child' = [child EXCEPT ![t] = Gone(st, report)]
    PROVE  DInv'
<1>1. DOMAIN child = Threads
    BY OfCall, Zenon
<1>2. child'[t] = Gone(st, report) /\ \A u \in Threads \ {t} : child'[u] = child[u]
    BY <1>1, Zenon
<1>3. Sound(child'[t], req[t], platform)
    BY <1>2, GoneSound
<1>4. QED
    BY <1>2, <1>3, ChildStepD, Zenon

LEMMA FailureD ==
    ASSUME Inv, DInv, NEW t \in Threads, UNCHANGED ThreadVars, Failure(t)
    PROVE  DInv'
BY EndD, Zenon DEF Failure

LEMMA ChildEndsD ==
    ASSUME Inv, DInv, NEW t \in Threads, ChildSignalled(t) \/ ChildEnds(t)
    PROVE  DInv'
<1>1. /\ UNCHANGED ThreadVars
      /\ \E st \in {"exited", "killed"} : child' = [child EXCEPT ![t] = Gone(st, FALSE)]
    BY Zenon DEF ChildSignalled, ChildEnds
<1>2. QED
    BY <1>1, EndD, Zenon

(* The steps before the duplicates: the child closes at most the directory *)
(* it was given.                                                           *)
LEMMA EarlySound ==
    ASSUME NEW c, NEW d, NEW r, NEW p, Sound(c, r, p),
           c.st \in {"death", "ppid", "setup"}, d.st \in {"ppid", "setup", "dup"},
           c.tmp = <<>>, d.tmp = <<>>,
           \A x \in DOMAIN d.fds : x \in DOMAIN c.fds /\ d.fds[x] = c.fds[x],
           \A x \in DOMAIN c.fds : x = CwdFd \/ x \in DOMAIN d.fds,
           d.pending \subseteq Signals \union {"KILL"},
           d.armed \/ d.st = "ppid" => r.pdeathsig # "none"
    PROVE  Sound(d, r, p)
<1>1. /\ DOMAIN c.fds \subseteq 0 .. MaxFd
      /\ \A fd \in DOMAIN c.fds : fd \in 0 .. 2 \/ c.fds[fd].cloexec
      /\ \A fd \in 0 .. 3 : fd \in DOMAIN c.fds /\ c.fds[fd].obj = File(fd)
    BY DEF Sound, Starting
<1>2. DOMAIN d.fds \subseteq 0 .. MaxFd
    BY <1>1, Zenon
<1>3. \A fd \in DOMAIN d.fds : fd \in 0 .. 2 \/ d.fds[fd].cloexec
    BY <1>1, Zenon
<1>4. \A fd \in 0 .. 3 : fd \in DOMAIN d.fds /\ d.fds[fd].obj = File(fd)
    <2>1. \A fd \in 0 .. 3 : fd # CwdFd
        BY DEF CwdFd
    <2>2. QED
        BY <1>1, <2>1, Zenon
<1>5. Duplicates(d.fds, d.tmp, r.std, 0)
    BY DEF Duplicates
<1>6. QED
    BY <1>2, <1>3, <1>4, <1>5 DEF Sound, Starting

LEMMA ChildDeathSignalD ==
    ASSUME Inv, DInv, NEW t \in Threads, ChildDeathSignal(t)
    PROVE  DInv'
<1>1. child[t].st = "death" /\ UNCHANGED ThreadVars
    BY Zenon DEF ChildDeathSignal, Step
<1>2. /\ DOMAIN child = Threads /\ DOMAIN child[t] = ChildFields
      /\ Sound(child[t], req[t], platform) /\ req[t] \in Request /\ HoldsPipe(t)
    BY <1>1, ParentOfChild, Zenon DEF Starting
<1>3. CASE Failure(t)
    BY <1>1, <1>3, FailureD, Zenon
<1>4. CASE /\ req[t].pdeathsig # "none"
           /\ child' = [child EXCEPT ![t].armed = TRUE, ![t].st = "ppid"]
    <2>1. /\ child'[t].st = "ppid" /\ child'[t].fds = child[t].fds /\ child'[t].tmp = child[t].tmp
          /\ child'[t].pending = child[t].pending
          /\ \A u \in Threads \ {t} : child'[u] = child[u]
        BY <1>2, <1>4, Zenon DEF ChildFields
    <2>2. child[t].tmp = <<>> /\ child[t].pending \subseteq Signals \union {"KILL"}
        BY <1>1, <1>2 DEF HoldsPipe, Starting, Sound
    <2>3. /\ \A x \in DOMAIN child'[t].fds :
                x \in DOMAIN child[t].fds /\ child'[t].fds[x] = child[t].fds[x]
          /\ \A x \in DOMAIN child[t].fds : x = CwdFd \/ x \in DOMAIN child'[t].fds
        BY <2>1, Zenon
    <2>4. Sound(child'[t], req[t], platform)
        <3>1. req[t].pdeathsig # "none"
            BY <1>4, Zenon
        <3>2. QED
            BY <1>1, <1>2, <2>1, <2>2, <2>3, <3>1, EarlySound
    <2>5. QED
        BY <1>1, <2>1, <2>4, ChildStepD, Zenon
<1>5. CASE child' = [child EXCEPT ![t].st = "setup"]
    <2>1. /\ child'[t].st = "setup" /\ child'[t].fds = child[t].fds /\ child'[t].tmp = child[t].tmp
          /\ child'[t].pending = child[t].pending /\ child'[t].armed = child[t].armed
          /\ \A u \in Threads \ {t} : child'[u] = child[u]
        BY <1>2, <1>5, Zenon DEF ChildFields
    <2>2. /\ child[t].tmp = <<>> /\ child[t].pending \subseteq Signals \union {"KILL"}
          /\ child[t].armed => req[t].pdeathsig # "none"
        BY <1>1, <1>2 DEF HoldsPipe, Starting, Sound
    <2>3. Sound(child'[t], req[t], platform)
        BY <1>1, <1>2, <2>1, <2>2, EarlySound
    <2>4. QED
        BY <1>1, <2>1, <2>3, ChildStepD, Zenon
<1>6. QED
    BY <1>3, <1>4, <1>5, Zenon DEF ChildDeathSignal

LEMMA ChildCheckParentD ==
    ASSUME Inv, DInv, NEW t \in Threads, ChildCheckParent(t)
    PROVE  DInv'
<1>1. child[t].st = "ppid" /\ UNCHANGED ThreadVars
    BY Zenon DEF ChildCheckParent, Step
<1>2. /\ DOMAIN child = Threads /\ DOMAIN child[t] = ChildFields
      /\ Sound(child[t], req[t], platform) /\ req[t] \in Request /\ HoldsPipe(t)
    BY <1>1, ParentOfChild, Zenon DEF Starting
<1>3. CASE Failure(t)
    BY <1>1, <1>3, FailureD, Zenon
<1>4. CASE child' = [child EXCEPT ![t].st = "setup",
                                  ![t].pending = @ \union SignalIfOrphan(t)]
    <2>1. /\ child'[t].st = "setup" /\ child'[t].fds = child[t].fds /\ child'[t].tmp = child[t].tmp
          /\ child'[t].pending = child[t].pending \union SignalIfOrphan(t)
          /\ child'[t].armed = child[t].armed
          /\ \A u \in Threads \ {t} : child'[u] = child[u]
        BY <1>2, <1>4, Zenon DEF ChildFields
    <2>2. /\ child[t].tmp = <<>> /\ child[t].pending \subseteq Signals \union {"KILL"}
          /\ req[t].pdeathsig # "none"
        BY <1>1, <1>2 DEF HoldsPipe, Starting, Sound
    <2>3. req[t].pdeathsig \in Signals \union {"KILL"}
        BY <1>2, <2>2 DEF Request, Signals
    <2>4. child'[t].pending \subseteq Signals \union {"KILL"}
        BY <2>1, <2>2, <2>3, Zenon DEF SignalIfOrphan
    <2>5. Sound(child'[t], req[t], platform)
        BY <1>1, <1>2, <2>1, <2>2, <2>4, EarlySound
    <2>6. QED
        BY <1>1, <2>1, <2>5, ChildStepD, Zenon
<1>5. QED
    BY <1>3, <1>4, Zenon DEF ChildCheckParent

LEMMA ChildSetupD ==
    ASSUME Inv, DInv, NEW t \in Threads, ChildSetup(t)
    PROVE  DInv'
<1>1. child[t].st = "setup" /\ UNCHANGED ThreadVars
    BY Zenon DEF ChildSetup, Step
<1>2. /\ DOMAIN child = Threads /\ DOMAIN child[t] = ChildFields
      /\ Sound(child[t], req[t], platform) /\ req[t] \in Request /\ HoldsPipe(t)
    BY <1>1, ParentOfChild, Zenon DEF Starting
<1>3. CASE Failure(t)
    BY <1>1, <1>3, FailureD, Zenon
<1>4. CASE child' = [child EXCEPT ![t].st = "dup",
                        ![t].fds = IF req[t].cwd = "fd" THEN Close(@, {CwdFd}) ELSE @]
    <2>1. /\ child'[t].st = "dup" /\ child'[t].tmp = child[t].tmp
          /\ child'[t].fds = IF req[t].cwd = "fd" THEN Close(child[t].fds, {CwdFd}) ELSE child[t].fds
          /\ child'[t].pending = child[t].pending /\ child'[t].armed = child[t].armed
          /\ \A u \in Threads \ {t} : child'[u] = child[u]
        BY <1>2, <1>4, Zenon DEF ChildFields
    <2>2. /\ child[t].tmp = <<>> /\ child[t].pending \subseteq Signals \union {"KILL"}
          /\ child[t].armed => req[t].pdeathsig # "none"
        BY <1>1, <1>2 DEF HoldsPipe, Starting, Sound
    <2>3. /\ \A x \in DOMAIN child'[t].fds :
                x \in DOMAIN child[t].fds /\ child'[t].fds[x] = child[t].fds[x]
          /\ \A x \in DOMAIN child[t].fds : x = CwdFd \/ x \in DOMAIN child'[t].fds
        BY <2>1, Zenon DEF Close, Restrict
    <2>4. Sound(child'[t], req[t], platform)
        BY <1>1, <1>2, <2>1, <2>2, <2>3, EarlySound, ZenonT(60)
    <2>5. QED
        BY <1>1, <2>1, <2>4, ChildStepD, Zenon
<1>5. QED
    BY <1>3, <1>4, Zenon DEF ChildSetup

(* One duplicate more.                                                     *)
LEMMA OneMoreDuplicate ==
    ASSUME NEW fds, NEW q \in Seq(Nat), NEW std, Duplicates(fds, q, std, 0),
           NEW fd \in Nat, fd \notin DOMAIN fds, fd \notin 0 .. 3, NEW new,
           DOMAIN new = DOMAIN fds \union {fd}, \A x \in DOMAIN fds : new[x] = fds[x],
           new[fd].obj = File(std[Len(q) + 1])
    PROVE  Duplicates(new, Append(q, fd), std, 0)
<1> DEFINE r == Append(q, fd)
           i == Len(q) + 1
<1>1. /\ Len(r) = i /\ r[i] = fd /\ \A j \in 1 .. Len(q) : r[j] = q[j]
    BY RangeAppend, Zenon
<1>2. Len(q) \in Nat
    OBVIOUS
<1>3. \A j \in 1 .. i : j \in 1 .. Len(q) \/ j = i
    BY <1>2
<1>4. \A j \in 1 .. Len(q) : /\ q[j] \in DOMAIN fds /\ q[j] \notin 0 .. 3
                             /\ fds[q[j]].obj = File(std[j + 0])
                             /\ \A k \in 1 .. Len(q) : q[j] = q[k] => j = k
    BY Zenon DEF Duplicates
<1>5. std[i + 0] = std[i]
    BY <1>2
<1> HIDE DEF r, i
<1>6. ASSUME NEW j \in 1 .. i
      PROVE  /\ r[j] \in DOMAIN new /\ r[j] \notin 0 .. 3
             /\ new[r[j]].obj = File(std[j + 0])
             /\ \A k \in 1 .. i : r[j] = r[k] => j = k
    <2>1. CASE j = i
        <3>1. \A k \in 1 .. Len(q) : r[k] # fd
            BY <1>1, <1>4, Zenon
        <3>2. r[j] = fd /\ r[j] \in DOMAIN new /\ r[j] \notin 0 .. 3
            BY <1>1, <2>1, Zenon
        <3>3. new[r[j]].obj = File(std[j + 0])
            BY <1>5, <2>1, <3>2, Zenon DEF i
        <3>4. \A k \in 1 .. i : r[j] = r[k] => j = k
            BY <1>3, <2>1, <3>1, <3>2, Zenon
        <3>5. QED
            BY <3>2, <3>3, <3>4, Zenon
    <2>2. CASE j \in 1 .. Len(q)
        <3>1. r[j] = q[j] /\ r[j] \in DOMAIN fds /\ r[j] # fd /\ new[r[j]] = fds[q[j]]
            BY <1>1, <1>4, <2>2, Zenon
        <3>2. ASSUME NEW k \in 1 .. i, r[j] = r[k]
              PROVE  j = k
            <4>1. k # i
                BY <1>1, <3>1, <3>2, Zenon
            <4>2. k \in 1 .. Len(q) /\ q[j] = q[k]
                BY <1>1, <1>3, <3>1, <3>2, <4>1, Zenon
            <4>3. QED
                BY <1>4, <2>2, <4>2, Zenon
        <3>3. QED
            BY <1>4, <2>2, <3>1, <3>2, Zenon
    <2>3. QED
        BY <1>3, <2>1, <2>2, Zenon
<1>7. QED
    BY <1>1, <1>6, Zenon DEF Duplicates, r, i

LEMMA DupSound ==
    ASSUME NEW c, NEW d, NEW r \in Request, NEW p, Sound(c, r, p), c.st = "dup",
           c.tmp \in Seq(Nat), Len(c.tmp) <= 2, NEW fd \in Nat, fd \in Free(c.fds), fd \notin 0 .. 2,
           NEW duped, duped = Install(c.fds, fd, c.fds[r.std[Len(c.tmp) + 1]].obj, FALSE),
           d.tmp = Append(c.tmp, fd), d.pending = c.pending, d.armed = c.armed,
           \/ Len(c.tmp) < 2 /\ d.st = "dup" /\ d.fds = duped
           \/ Len(c.tmp) = 2 /\ d.st = "dup2" /\ d.fds = Close(duped, Range(r.std))
    PROVE  Sound(d, r, p)
<1> DEFINE i == Len(c.tmp) + 1
<1>1. /\ DOMAIN c.fds \subseteq 0 .. MaxFd
      /\ \A x \in DOMAIN c.fds : \/ x \in 0 .. 2 \/ c.fds[x].cloexec
                                 \/ \E j \in 1 .. Len(c.tmp) : x = c.tmp[j]
      /\ \A x \in 0 .. 3 : x \in DOMAIN c.fds /\ c.fds[x].obj = File(x)
      /\ Duplicates(c.fds, c.tmp, r.std, 0)
      /\ c.pending \subseteq Signals \union {"KILL"}
      /\ c.armed => r.pdeathsig # "none"
    BY SMTT(60) DEF Sound, Starting
<1>2. fd \notin DOMAIN c.fds /\ fd \notin 0 .. 3 /\ fd \in 0 .. MaxFd
    BY <1>1, Zenon DEF Free
<1>3. Len(c.tmp) \in Nat /\ i \in 1 .. 3 /\ \A j \in 1 .. Len(c.tmp) : j \in 1 .. i
    BY SMTT(60)
<1>4. /\ Len(d.tmp) = i /\ d.tmp[i] = fd
      /\ \A j \in 1 .. Len(c.tmp) : d.tmp[j] = c.tmp[j]
    <2>1. /\ Len(Append(c.tmp, fd)) = i /\ Append(c.tmp, fd)[i] = fd
          /\ \A j \in 1 .. Len(c.tmp) : Append(c.tmp, fd)[j] = c.tmp[j]
        BY RangeAppend, Zenon
    <2>2. QED
        BY <2>1, SMTT(60)
<1>5. \A j \in 1 .. 3 : r.std[j] \in 0 .. 3
    BY Zenon DEF Request
<1>6. /\ DOMAIN duped = DOMAIN c.fds \union {fd}
      /\ duped[fd] = Inherited(File(r.std[i]))
      /\ \A x \in DOMAIN c.fds : duped[x] = c.fds[x]
    <2>1. c.fds[r.std[i]].obj = File(r.std[i])
        BY <1>1, <1>3, <1>5, Zenon
    <2>2. QED
        BY <1>2, <2>1, Zenon DEF Install, Inherited
<1>7. Duplicates(duped, d.tmp, r.std, 0)
    <2>1. duped[fd].obj = File(r.std[i])
        BY <1>6, InheritedFlag, Zenon
    <2>2. Duplicates(duped, Append(c.tmp, fd), r.std, 0)
        BY <1>1, <1>2, <1>6, <2>1, OneMoreDuplicate, ZenonT(60)
    <2>3. QED
        BY <2>2, ZenonT(60)
<1> HIDE DEF i
<1>8. \A x \in DOMAIN duped : \/ x \in 0 .. 2 \/ duped[x].cloexec
                              \/ \E j \in 1 .. Len(d.tmp) : x = d.tmp[j]
    <2>1. i \in 1 .. i
        BY <1>3, SMTT(60)
    <2>2. ASSUME NEW x \in DOMAIN c.fds
          PROVE  \/ x \in 0 .. 2 \/ duped[x].cloexec \/ \E j \in 1 .. Len(d.tmp) : x = d.tmp[j]
        <3>1. CASE \E j \in 1 .. Len(c.tmp) : x = c.tmp[j]
            BY <1>3, <1>4, <3>1, Zenon
        <3>2. CASE x \in 0 .. 2 \/ c.fds[x].cloexec
            BY <1>6, <3>2, Zenon
        <3>3. QED
            BY <1>1, <3>1, <3>2, Zenon
    <2>3. QED
        BY <1>4, <1>6, <2>1, <2>2, Zenon
<1>9. DOMAIN duped \subseteq 0 .. MaxFd
    BY <1>1, <1>2, <1>6, Zenon
<1>10. CASE Len(c.tmp) < 2 /\ d.st = "dup" /\ d.fds = duped
    <2>1. \A x \in 0 .. 3 : x \in DOMAIN d.fds /\ d.fds[x].obj = File(x)
        <3>1. TAKE x \in 0 .. 3
        <3>2. x \in DOMAIN c.fds /\ c.fds[x].obj = File(x)
            BY <1>1, Zenon
        <3>3. x \in DOMAIN duped /\ duped[x] = c.fds[x]
            BY <1>6, <3>2, Zenon
        <3>4. d.fds = duped
            BY <1>10, Zenon
        <3>5. QED
            BY <3>2, <3>3, <3>4, ZenonT(60)
    <2>2. /\ d.st \notin {"dup2", "restrict", "exec"} /\ d.st \notin {"restrict", "exec"}
          /\ d.st # "ppid" /\ d.st # "exec" /\ d.st # "execd"
        BY <1>10
    <2>3. QED
        BY <1>1, <1>7, <1>8, <1>9, <1>10, <2>1, <2>2, ZenonT(60) DEF Sound
<1>11. CASE Len(c.tmp) = 2 /\ d.st = "dup2" /\ d.fds = Close(duped, Range(r.std))
    <2>1. Range(r.std) \subseteq 0 .. 3
        <3>1. DOMAIN r.std = 1 .. 3
            BY Zenon DEF Request
        <3>2. QED
            BY <1>5, <3>1, ZenonT(60) DEF Range
    <2>2. /\ DOMAIN d.fds = DOMAIN duped \ Range(r.std)
          /\ \A x \in DOMAIN d.fds : d.fds[x] = duped[x]
        BY <1>11, Zenon DEF Close, Restrict
    <2>3. \A j \in 1 .. Len(d.tmp) : d.tmp[j] \in DOMAIN d.fds /\ d.fds[d.tmp[j]] = duped[d.tmp[j]]
        BY <1>7, <2>1, <2>2, Zenon DEF Duplicates
    <2>4. Duplicates(d.fds, d.tmp, r.std, 0)
        BY <1>7, <2>3, ZenonT(30) DEF Duplicates
    <2>5. 3 - Len(d.tmp) = 0 /\ 0 .. 0 - 1 = {}
        BY <1>4, <1>11 DEF i
    <2>6. DOMAIN d.fds \subseteq 0 .. MaxFd
        BY <1>9, <2>2, Zenon
    <2>7. \A x \in DOMAIN d.fds : \/ x \in 0 .. 2 \/ d.fds[x].cloexec
                                  \/ \E j \in 1 .. Len(d.tmp) : x = d.tmp[j]
        BY <1>8, <2>2, Zenon
    <2>8. QED
        BY <1>1, <1>11, <2>4, <2>5, <2>6, <2>7, ZenonT(60) DEF Sound, Starting
<1>12. QED
    BY <1>10, <1>11, Zenon

LEMMA ChildDupD ==
    ASSUME Inv, DInv, TakesFree, NEW t \in Threads, ChildDup(t)
    PROVE  DInv'
<1> DEFINE c == child[t]
           i == Len(c.tmp) + 1
           fd == SafeDup(c.fds)
           duped == Install(c.fds, fd, c.fds[req[t].std[i]].obj, FALSE)
<1>1. child[t].st = "dup" /\ UNCHANGED ThreadVars
    BY Zenon DEF ChildDup, Step
<1>2. /\ DOMAIN child = Threads /\ DOMAIN child[t] = ChildFields
      /\ Sound(child[t], req[t], platform) /\ req[t] \in Request /\ HoldsPipe(t)
    BY <1>1, ParentOfChild, Zenon DEF Starting
<1>3. CASE Failure(t)
    BY <1>1, <1>3, FailureD, Zenon
<1>4. CASE /\ DupTargets(c.fds) # {}
           /\ child' = [child EXCEPT
                 ![t].tmp = Append(@, fd),
                 ![t].st = IF i = 3 THEN "dup2" ELSE @,
                 ![t].fds = IF i = 3 THEN Close(duped, Range(req[t].std)) ELSE duped]
    <2>1. c.tmp \in Seq(Nat) /\ Len(c.tmp) <= 2
        BY <1>1, <1>2 DEF HoldsPipe, Starting
    <2> HIDE DEF fd, duped, i
    <2>2. /\ child'[t].tmp = Append(c.tmp, fd)
          /\ child'[t].st = IF i = 3 THEN "dup2" ELSE c.st
          /\ child'[t].fds = IF i = 3 THEN Close(duped, Range(req[t].std)) ELSE duped
          /\ child'[t].pending = c.pending /\ child'[t].armed = c.armed
          /\ \A u \in Threads \ {t} : child'[u] = child[u]
        BY <1>2, <1>4, Zenon DEF ChildFields
    <2>3. \/ Len(c.tmp) < 2 /\ child'[t].st = "dup" /\ child'[t].fds = duped
          \/ /\ Len(c.tmp) = 2 /\ child'[t].st = "dup2"
             /\ child'[t].fds = Close(duped, Range(req[t].std))
        <3>1. Len(c.tmp) \in Nat
            BY <2>1, EmptySequence, Zenon
        <3>2. (i = 3 <=> Len(c.tmp) = 2) /\ (Len(c.tmp) = 2 \/ Len(c.tmp) < 2)
            <4>1. \A n \in Nat : n <= 2 => (n + 1 = 3 <=> n = 2) /\ (n = 2 \/ n < 2)
                OBVIOUS
            <4>2. QED
                BY <2>1, <3>1, <4>1, Zenon DEF i
        <3>3. QED
            BY <1>1, <2>2, <3>2, Zenon
    <2>4. fd \in Free(c.fds) /\ fd \in Nat /\ fd \notin 0 .. 2
        BY <1>4, SafeDupIsFree, Zenon DEF fd
    <2>5. Sound(child'[t], req[t], platform)
        <3>1. duped = Install(c.fds, fd, c.fds[req[t].std[Len(c.tmp) + 1]].obj, FALSE)
            BY Zenon DEF duped, i
        <3>2. QED
            BY <1>1, <1>2, <2>1, <2>2, <2>3, <2>4, <3>1, DupSound, ZenonT(60)
    <2>6. QED
        BY <1>1, <2>2, <2>5, ChildStepD, Zenon
<1>5. QED
    BY <1>3, <1>4, Zenon DEF ChildDup

LEMMA RestOf ==
    ASSUME NEW q \in Seq(Nat), NEW n \in 1 .. 3, n = Len(q)
    PROVE  /\ q # <<>> /\ Head(q) = q[1] /\ Len(Tail(q)) = n - 1
           /\ \A j \in 1 .. n - 1 : Tail(q)[j] = q[j + 1]
           /\ n = 1 => Tail(q) = <<>>
<1>1. Len(q) # 0
    OBVIOUS
<1>2. q # <<>>
    BY <1>1, EmptySequence, Zenon
<1>3. /\ Tail(q) \in Seq(Nat) /\ Len(Tail(q)) = n - 1
      /\ \A j \in 1 .. n - 1 : Tail(q)[j] = q[j + 1]
    BY <1>2, FirstAndRest
<1>4. Head(q) = q[1]
    BY <1>2
<1>5. ASSUME n = 1
      PROVE  Tail(q) = <<>>
    <2>1. Len(Tail(q)) = 0
        BY <1>3, <1>5
    <2>2. QED
        BY <1>3, <2>1, EmptySequence, Zenon
<1>6. QED
    BY <1>2, <1>3, <1>4, <1>5, Zenon

LEMMA Countdown ==
    \A n \in 1 .. 3 :
        /\ 3 - n \in 0 .. 2 /\ 3 - n \in 0 .. MaxFd
        /\ 3 - (n - 1) = (3 - n) + 1 /\ ((3 - n) + 1) - 1 = 3 - n
        /\ \A j \in 1 .. n : j = 1 \/ (j - 1 \in 1 .. n - 1 /\ (j - 1) + 1 = j)
    BY SpawnAssumption

(* What installing the first of n duplicates makes of a table.             *)
FirstInstalled(fds, q, std, n, new) ==
    /\ DOMAIN new = (DOMAIN fds \union {3 - n}) \ {Head(q)}
    /\ \A x \in DOMAIN new : x # 3 - n => new[x] = fds[x]
    /\ Duplicates(new, Tail(q), std, (3 - n) + 1)
    /\ \A fd \in 0 .. 3 - n : /\ fd \in DOMAIN new /\ ~new[fd].cloexec
                              /\ new[fd].obj = File(std[fd + 1])

(* One duplicate is installed and closed.                                  *)
LEMMA OneDuplicateInstalled ==
    ASSUME NEW fds, NEW q \in Seq(Nat), NEW std, NEW n \in 1 .. 3, n = Len(q),
           Duplicates(fds, q, std, 3 - n),
           \A fd \in 0 .. (3 - n) - 1 : /\ fd \in DOMAIN fds /\ ~fds[fd].cloexec
                                        /\ fds[fd].obj = File(std[fd + 1]),
           NEW new, new = Close(Install(fds, 3 - n, fds[Head(q)].obj, FALSE), {Head(q)})
    PROVE  FirstInstalled(fds, q, std, n, new)
<1> DEFINE k == 3 - n
           h == Head(q)
           r == Tail(q)
<1>1. q # <<>> /\ h = q[1] /\ 1 \in 1 .. n /\ k \in 0 .. 2 /\ k + 1 = 1 + k
    BY RestOf, SMTT(60)
<1>2. Len(r) = n - 1 /\ \A j \in 1 .. n - 1 : r[j] = q[j + 1]
    BY RestOf, Zenon
<1>3. \A i \in 1 .. n : /\ q[i] \in DOMAIN fds /\ q[i] \notin 0 .. 3
                        /\ fds[q[i]].obj = File(std[i + k])
                        /\ \A j \in 1 .. n : q[i] = q[j] => i = j
    BY Zenon DEF Duplicates
<1>4. h \in DOMAIN fds /\ h \notin 0 .. 3 /\ fds[h].obj = File(std[k + 1])
    BY <1>1, <1>3, Zenon
<1>5. k # h /\ \A x \in 0 .. k : x # h /\ x \in 0 .. 3
    BY <1>1, <1>4
<1>6. \A x \in 0 .. k : x \in 0 .. k - 1 \/ x = k
    BY <1>1
<1>7. \A j \in 1 .. n - 1 : j + 1 \in 1 .. n /\ j + 1 # 1 /\ (j + 1) + k = j + (k + 1)
    BY <1>1
<1>8. \A i, j \in 1 .. n - 1 : i + 1 = j + 1 => i = j
    OBVIOUS
<1>9. 3 - n = k
    OBVIOUS
<1> HIDE DEF k, h, r
<1>10. /\ DOMAIN new = (DOMAIN fds \union {k}) \ {h} /\ new[k] = Inherited(File(std[k + 1]))
       /\ \A x \in DOMAIN new : x # k => new[x] = fds[x]
    <2> DEFINE mid == Install(fds, k, fds[h].obj, FALSE)
    <2>1. new = Close(mid, {h})
        BY <1>9, Zenon DEF h
    <2>2. /\ DOMAIN mid = DOMAIN fds \union {k} /\ mid[k] = Inherited(File(std[k + 1]))
          /\ \A x \in DOMAIN fds : x # k => mid[x] = fds[x]
        BY <1>4, Zenon DEF Install, Inherited
    <2> HIDE DEF mid
    <2>3. /\ DOMAIN new = DOMAIN mid \ {h} /\ \A x \in DOMAIN mid \ {h} : new[x] = mid[x]
        BY <2>1, Zenon DEF Close, Restrict
    <2>4. QED
        BY <1>5, <2>2, <2>3, Zenon
<1>11. \A fd \in 0 .. k : fd \in DOMAIN new /\ ~new[fd].cloexec /\ new[fd].obj = File(std[fd + 1])
    <2>1. TAKE fd \in 0 .. k
    <2>2. CASE fd = k
        <3>1. k \in DOMAIN new
            BY <1>5, <1>10, Zenon
        <3>2. ~new[k].cloexec /\ new[k].obj = File(std[k + 1])
            <4> DEFINE f == File(std[k + 1])
            <4>1. new[k] = Inherited(f)
                BY <1>10, Zenon
            <4> HIDE DEF f
            <4>2. ~new[k].cloexec /\ new[k].obj = f
                BY <4>1, InheritedFlag, Zenon
            <4>3. QED
                BY <4>2, Zenon DEF f
        <3>3. QED
            BY <2>2, <3>1, <3>2, Zenon
    <2>3. CASE fd \in 0 .. k - 1 /\ fd # k
        <3>1. /\ fd \in DOMAIN fds /\ ~fds[fd].cloexec /\ fds[fd].obj = File(std[fd + 1])
            BY <1>9, <2>3, Zenon
        <3>2. fd \in DOMAIN new /\ new[fd] = fds[fd]
            BY <1>5, <1>10, <2>1, <2>3, <3>1, Zenon
        <3>3. QED
            BY <3>1, <3>2, Zenon
    <2>4. QED
        BY <1>6, <2>2, <2>3, Zenon
<1>12. Duplicates(new, r, std, k + 1)
    <2>1. ASSUME NEW i \in 1 .. n - 1
          PROVE  /\ r[i] \in DOMAIN new /\ r[i] \notin 0 .. 3
                 /\ new[r[i]].obj = File(std[i + (k + 1)])
                 /\ \A j \in 1 .. n - 1 : r[i] = r[j] => i = j
        <3>1. r[i] = q[i + 1] /\ i + 1 \in 1 .. n /\ i + 1 # 1
            BY <1>2, <1>7, Zenon
        <3>2. r[i] \in DOMAIN fds /\ r[i] \notin 0 .. 3 /\ r[i] # h
            BY <1>1, <1>3, <3>1, Zenon
        <3>3. r[i] # k
            BY <1>1, <3>2, SMTT(60)
        <3>4. r[i] \in DOMAIN new /\ new[r[i]] = fds[r[i]]
            BY <1>10, <3>2, <3>3, Zenon
        <3>5. fds[r[i]].obj = File(std[i + (k + 1)])
            BY <1>3, <1>7, <3>1, Zenon
        <3>6. ASSUME NEW j \in 1 .. n - 1, r[i] = r[j]
              PROVE  i = j
            BY <1>2, <1>3, <1>7, <1>8, <3>1, <3>6, ZenonT(60)
        <3>7. QED
            BY <3>2, <3>4, <3>5, <3>6, Zenon
    <2>2. QED
        BY <1>2, <2>1, Zenon DEF Duplicates
<1>13. QED
    BY <1>1, <1>2, <1>9, <1>10, <1>11, <1>12, Zenon DEF h, r, FirstInstalled

LEMMA Dup2Sound ==
    ASSUME NEW c, NEW d, NEW r, NEW p, Sound(c, r, p), c.st = "dup2",
           c.tmp \in Seq(Nat), NEW n \in 1 .. 3, n = Len(c.tmp),
           d.fds = Close(Install(c.fds, 3 - n, c.fds[Head(c.tmp)].obj, FALSE), {Head(c.tmp)}),
           d.tmp = Tail(c.tmp), d.pending = c.pending, d.armed = c.armed,
           d.st = IF n = 1 THEN "restrict" ELSE "dup2"
    PROVE  Sound(d, r, p)
<1>1. /\ DOMAIN c.fds \subseteq 0 .. MaxFd
      /\ \A x \in DOMAIN c.fds : \/ x \in 0 .. 2 \/ c.fds[x].cloexec
                                 \/ \E j \in 1 .. n : x = c.tmp[j]
      /\ \A x \in 0 .. (3 - n) - 1 : /\ x \in DOMAIN c.fds /\ ~c.fds[x].cloexec
                                     /\ c.fds[x].obj = File(r.std[x + 1])
      /\ Duplicates(c.fds, c.tmp, r.std, 3 - n)
      /\ c.pending \subseteq Signals \union {"KILL"}
      /\ c.armed => r.pdeathsig # "none"
    BY ZenonT(60) DEF Sound, Starting
<1>2. /\ Len(d.tmp) = n - 1 /\ Head(c.tmp) = c.tmp[1]
      /\ \A j \in 1 .. n - 1 : d.tmp[j] = c.tmp[j + 1]
      /\ DOMAIN d.fds = (DOMAIN c.fds \union {3 - n}) \ {Head(c.tmp)}
      /\ \A x \in DOMAIN d.fds : x # 3 - n => d.fds[x] = c.fds[x]
      /\ Duplicates(d.fds, d.tmp, r.std, (3 - n) + 1)
      /\ \A x \in 0 .. 3 - n : /\ x \in DOMAIN d.fds /\ ~d.fds[x].cloexec
                               /\ d.fds[x].obj = File(r.std[x + 1])
    <2>1. FirstInstalled(c.fds, c.tmp, r.std, n, d.fds)
        BY <1>1, OneDuplicateInstalled, Zenon
    <2>2. /\ Len(Tail(c.tmp)) = n - 1 /\ Head(c.tmp) = c.tmp[1]
          /\ \A j \in 1 .. n - 1 : Tail(c.tmp)[j] = c.tmp[j + 1]
        BY RestOf, Zenon
    <2>3. Duplicates(d.fds, Tail(c.tmp), r.std, (3 - n) + 1)
        BY <2>1, Zenon DEF FirstInstalled
    <2>4. Tail(c.tmp) = d.tmp
        BY Zenon
    <2>5. Duplicates(d.fds, d.tmp, r.std, (3 - n) + 1)
        BY <2>3, <2>4, Zenon
    <2>6. Len(d.tmp) = n - 1 /\ \A j \in 1 .. n - 1 : d.tmp[j] = c.tmp[j + 1]
        BY <2>2, <2>4, Zenon
    <2>7. QED
        BY <2>1, <2>2, <2>5, <2>6, Zenon DEF FirstInstalled
<1>3. /\ 3 - n \in 0 .. 2 /\ 3 - n \in 0 .. MaxFd
      /\ 3 - (n - 1) = (3 - n) + 1 /\ ((3 - n) + 1) - 1 = 3 - n
      /\ \A j \in 1 .. n : j = 1 \/ (j - 1 \in 1 .. n - 1 /\ (j - 1) + 1 = j)
    BY Countdown, Zenon
<1>4. DOMAIN d.fds \subseteq 0 .. MaxFd
    BY <1>1, <1>2, <1>3, Zenon
<1>5. \A x \in DOMAIN d.fds : \/ x \in 0 .. 2 \/ d.fds[x].cloexec
                              \/ \E j \in 1 .. Len(d.tmp) : x = d.tmp[j]
    <2>1. SUFFICES ASSUME NEW x \in DOMAIN d.fds, x \notin 0 .. 2, ~d.fds[x].cloexec
                   PROVE  \E j \in 1 .. n - 1 : x = d.tmp[j]
        BY <1>2, ZenonT(60)
    <2>2. x # Head(c.tmp) /\ x \in DOMAIN c.fds /\ d.fds[x] = c.fds[x]
        BY <1>2, <1>3, <2>1, Zenon
    <2>3. PICK j \in 1 .. n : x = c.tmp[j]
        BY <1>1, <2>1, <2>2, Zenon
    <2>4. j - 1 \in 1 .. n - 1 /\ d.tmp[j - 1] = x
        <3>1. j # 1
            BY <1>2, <2>2, <2>3, Zenon
        <3>2. j - 1 \in 1 .. n - 1 /\ (j - 1) + 1 = j
            BY <1>3, <3>1, Zenon
        <3>3. d.tmp[j - 1] = c.tmp[(j - 1) + 1]
            BY <1>2, <3>2, Zenon
        <3>4. QED
            BY <2>3, <3>2, <3>3, Zenon
    <2>5. QED
        BY <2>4, Zenon
<1>6. d.st = "restrict" => d.tmp = <<>>
    <2>1. c.tmp # <<>> /\ (n = 1 => Tail(c.tmp) = <<>>)
        BY RestOf, Zenon
    <2>2. QED
        BY <2>1, Zenon
<1>7. d.st \in {"restrict", "dup2"}
    BY Zenon
<1> DEFINE k == 3 - Len(d.tmp)
<1>8. k = (3 - n) + 1 /\ k - 1 = 3 - n
    BY <1>2, <1>3, Zenon
<1> HIDE DEF k
<1>9. /\ \A x \in 0 .. k - 1 : /\ x \in DOMAIN d.fds /\ ~d.fds[x].cloexec
                               /\ d.fds[x].obj = File(r.std[x + 1])
      /\ Duplicates(d.fds, d.tmp, r.std, k)
    BY <1>2, <1>8, Zenon
<1>10. /\ d.st \notin {"death", "ppid", "setup", "dup"} /\ d.st # "exec" /\ d.st # "execd"
       /\ d.st # "ppid"
    BY <1>7
<1>11. /\ d.pending \subseteq Signals \union {"KILL"}
       /\ d.armed => r.pdeathsig # "none"
    BY <1>1, Zenon
<1>12. QED
    BY <1>4, <1>5, <1>6, <1>9, <1>10, <1>11, ZenonT(60) DEF Sound, k

LEMMA ChildDup2D ==
    ASSUME Inv, DInv, NEW t \in Threads, ChildDup2(t)
    PROVE  DInv'
<1> DEFINE c == child[t]
           n == Len(c.tmp)
           fds == Close(Install(c.fds, 3 - n, c.fds[Head(c.tmp)].obj, FALSE), {Head(c.tmp)})
<1>1. c.st = "dup2" /\ UNCHANGED ThreadVars
    BY Zenon DEF ChildDup2, Step
<1>2. /\ DOMAIN child = Threads /\ DOMAIN child[t] = ChildFields
      /\ Sound(c, req[t], platform) /\ HoldsPipe(t)
    BY <1>1, ParentOfChild, Zenon DEF Starting
<1>3. CASE Failure(t)
    BY <1>1, <1>3, FailureD, Zenon
<1>4. CASE child' = [child EXCEPT ![t].tmp = Tail(@),
                                  ![t].st = IF 3 - n = 2 THEN "restrict" ELSE @,
                                  ![t].fds = fds]
    <2>1. c.tmp \in Seq(Nat) /\ n \in 1 .. 3
        BY <1>1, <1>2, Zenon DEF HoldsPipe, Starting
    <2> HIDE DEF n, fds
    <2>2. 3 - n = 2 <=> n = 1
        BY <2>1
    <2>3. /\ child'[t].tmp = Tail(c.tmp) /\ child'[t].fds = fds
          /\ child'[t].st = IF 3 - n = 2 THEN "restrict" ELSE c.st
          /\ child'[t].pending = c.pending /\ child'[t].armed = c.armed
          /\ \A u \in Threads \ {t} : child'[u] = child[u]
        BY <1>2, <1>4, Zenon DEF ChildFields
    <2>4. child'[t].st = IF n = 1 THEN "restrict" ELSE "dup2"
        BY <1>1, <2>2, <2>3, Zenon
    <2>5. n = Len(c.tmp)
        BY Zenon DEF n
    <2>6. child'[t].fds = Close(Install(c.fds, 3 - n, c.fds[Head(c.tmp)].obj, FALSE), {Head(c.tmp)})
        BY <2>3, Zenon DEF fds
    <2>7. Sound(child'[t], req[t], platform)
        BY <1>1, <1>2, <2>1, <2>3, <2>4, <2>5, <2>6, Dup2Sound, Zenon
    <2>8. QED
        BY <1>1, <2>3, <2>7, ChildStepD, Zenon
<1>5. QED
    BY <1>3, <1>4, Zenon DEF ChildDup2

(* Before the exec the standard descriptors are those asked for, and every *)
(* other one is closed by it.                                              *)
LEMMA RestrictSound ==
    ASSUME NEW c, NEW d, NEW r, NEW p, Sound(c, r, p), c.st = "restrict", d.st = "exec",
           \A x \in DOMAIN d.fds : x \in DOMAIN c.fds /\ d.fds[x] = c.fds[x],
           \A x \in DOMAIN c.fds : x \in 0 .. 2 => x \in DOMAIN d.fds,
           d.tmp = c.tmp, d.pending = c.pending, d.armed = c.armed,
           d.mask = ChildSigmask(r, OwnMask)
    PROVE  Sound(d, r, p)
<1>1. /\ DOMAIN c.fds \subseteq 0 .. MaxFd /\ c.tmp = <<>>
      /\ \A x \in DOMAIN c.fds : \/ x \in 0 .. 2 \/ c.fds[x].cloexec
                                 \/ \E j \in 1 .. Len(c.tmp) : x = c.tmp[j]
      /\ \A x \in 0 .. (3 - Len(c.tmp)) - 1 : /\ x \in DOMAIN c.fds /\ ~c.fds[x].cloexec
                                              /\ c.fds[x].obj = File(r.std[x + 1])
      /\ c.pending \subseteq Signals \union {"KILL"}
      /\ c.armed => r.pdeathsig # "none"
    BY ZenonT(60) DEF Sound, Starting
<1>2. Len(c.tmp) = 0
    BY <1>1
<1>3. \A x \in 0 .. (3 - Len(c.tmp)) - 1 : x \in 0 .. 2
    BY <1>2
<1>4. \A x \in 0 .. (3 - Len(d.tmp)) - 1 : /\ x \in DOMAIN d.fds /\ ~d.fds[x].cloexec
                                           /\ d.fds[x].obj = File(r.std[x + 1])
    BY <1>1, <1>3, ZenonT(60)
<1>5. \A x \in DOMAIN d.fds : \/ x \in 0 .. 2 \/ d.fds[x].cloexec
                              \/ \E j \in 1 .. Len(d.tmp) : x = d.tmp[j]
    <2>1. \A x \in DOMAIN c.fds : x \in 0 .. 2 \/ c.fds[x].cloexec
        BY <1>1, <1>2
    <2>2. \A x \in DOMAIN d.fds : x \in 0 .. 2 \/ d.fds[x].cloexec
        BY <2>1, Zenon
    <2>3. QED
        BY <2>2, Zenon
<1>6. Duplicates(d.fds, d.tmp, r.std, 3 - Len(d.tmp))
    BY <1>2 DEF Duplicates
<1>7. DOMAIN d.fds \subseteq 0 .. MaxFd /\ d.tmp = <<>>
    BY <1>1, Zenon
<1>8. d.st \notin {"death", "ppid", "setup", "dup"} /\ d.st # "execd" /\ d.st # "ppid"
    OBVIOUS
<1>9. QED
    BY <1>1, <1>4, <1>5, <1>6, <1>7, <1>8, ZenonT(60) DEF Sound

LEMMA ExecSound ==
    ASSUME NEW c, NEW d, NEW r, NEW p, Sound(c, r, p), c.st = "exec", d.st = "execd",
           d.fds = AfterExec(c.fds), d.pending = c.pending, d.armed = c.armed, d.mask = c.mask
    PROVE  Sound(d, r, p)
<1>1. /\ DOMAIN c.fds \subseteq 0 .. MaxFd /\ c.tmp = <<>> /\ c.mask = ChildSigmask(r, OwnMask)
      /\ \A x \in DOMAIN c.fds : \/ x \in 0 .. 2 \/ c.fds[x].cloexec
                                 \/ \E j \in 1 .. Len(c.tmp) : x = c.tmp[j]
      /\ \A x \in 0 .. (3 - Len(c.tmp)) - 1 : /\ x \in DOMAIN c.fds /\ ~c.fds[x].cloexec
                                              /\ c.fds[x].obj = File(r.std[x + 1])
      /\ c.pending \subseteq Signals \union {"KILL"}
      /\ c.armed => r.pdeathsig # "none"
    BY ZenonT(60) DEF Sound, Starting
<1>2. Len(c.tmp) = 0
    BY <1>1
<1>3. /\ \A x \in 0 .. 2 : x \in 0 .. (3 - Len(c.tmp)) - 1
      /\ \A j \in 1 .. Len(c.tmp) : FALSE
    BY <1>2
<1>4. /\ DOMAIN d.fds = {x \in DOMAIN c.fds : ~c.fds[x].cloexec}
      /\ \A x \in DOMAIN d.fds : d.fds[x] = c.fds[x]
    BY ExecKeeps, ZenonT(60)
<1>5. DOMAIN d.fds = 0 .. 2
    BY <1>1, <1>3, <1>4, Zenon
<1>6. \A x \in 0 .. 2 : d.fds[x].obj = File(r.std[x + 1])
    <2>1. TAKE x \in 0 .. 2
    <2>2. c.fds[x].obj = File(r.std[x + 1]) /\ d.fds[x] = c.fds[x]
        BY <1>1, <1>3, <1>4, <1>5, Zenon
    <2>3. QED
        BY <2>2, Zenon
<1>7. DOMAIN d.fds \subseteq 0 .. MaxFd
    BY <1>1, <1>4, Zenon
<1>8. /\ d.st \notin Starting /\ d.st # "ppid" /\ d.st \notin {"dup2", "restrict", "exec"}
      /\ d.st \notin {"death", "ppid", "setup", "dup"}
    BY DEF Starting
<1>9. QED
    BY <1>1, <1>5, <1>6, <1>7, <1>8, ZenonT(60) DEF Sound

LEMMA ChildRestrictD ==
    ASSUME Inv, DInv, NEW t \in Threads, ChildRestrict(t)
    PROVE  DInv'
<1> DEFINE c == child[t]
           rules == thread[t].ruleset
<1>1. c.st = "restrict" /\ UNCHANGED ThreadVars
    BY Zenon DEF ChildRestrict, Step
<1>2. /\ DOMAIN child = Threads /\ DOMAIN child[t] = ChildFields
      /\ Sound(c, req[t], platform) /\ OpenOf(t)
      /\ thread[t].sigmask = ChildSigmask(req[t], OwnMask)
    BY <1>1, ParentOfChild, Zenon DEF Starting
<1>3. CASE Failure(t)
    BY <1>1, <1>3, FailureD, Zenon
<1>4. CASE child' = [child EXCEPT ![t].st = "exec",
                        ![t].fds = IF req[t].landlock THEN Close(@, {rules}) ELSE @,
                        ![t].mask = thread[t].sigmask]
    <2>1. rules \notin 0 .. 2
        <3>1. rules = Unset \/ Holding(t, rules)
            BY Zenon DEF Holding
        <3>2. rules = Unset \/ rules \notin 0 .. 4
            BY <1>2, <3>1, Zenon DEF OpenOf
        <3>3. QED
            BY <3>2 DEF Unset
    <2> HIDE DEF rules
    <2>2. /\ child'[t].st = "exec" /\ child'[t].tmp = c.tmp /\ child'[t].mask = thread[t].sigmask
          /\ child'[t].fds = IF req[t].landlock THEN Close(c.fds, {rules}) ELSE c.fds
          /\ child'[t].pending = c.pending /\ child'[t].armed = c.armed
          /\ \A u \in Threads \ {t} : child'[u] = child[u]
        BY <1>2, <1>4, Zenon DEF ChildFields
    <2>3. /\ \A x \in DOMAIN child'[t].fds : x \in DOMAIN c.fds /\ child'[t].fds[x] = c.fds[x]
          /\ \A x \in DOMAIN c.fds : x \in 0 .. 2 => x \in DOMAIN child'[t].fds
        BY <2>1, <2>2, Zenon DEF Close, Restrict
    <2>4. Sound(child'[t], req[t], platform)
        BY <1>1, <1>2, <2>2, <2>3, RestrictSound, Zenon
    <2>5. QED
        BY <1>1, <2>2, <2>4, ChildStepD, Zenon
<1>5. QED
    BY <1>3, <1>4, Zenon DEF ChildRestrict

LEMMA ChildExecD ==
    ASSUME Inv, DInv, NEW t \in Threads, ChildExec(t)
    PROVE  DInv'
<1>1. child[t].st = "exec" /\ UNCHANGED ThreadVars
    BY Zenon DEF ChildExec, Step
<1>2. /\ DOMAIN child = Threads /\ DOMAIN child[t] = ChildFields
      /\ Sound(child[t], req[t], platform)
    BY <1>1, ParentOfChild, Zenon DEF Starting
<1>3. CASE Failure(t)
    BY <1>1, <1>3, FailureD, Zenon
<1>4. CASE child' = [child EXCEPT ![t].st = "execd", ![t].fds = AfterExec(@)]
    <2>1. /\ child'[t].st = "execd" /\ child'[t].fds = AfterExec(child[t].fds)
          /\ child'[t].pending = child[t].pending /\ child'[t].armed = child[t].armed
          /\ child'[t].mask = child[t].mask
          /\ \A u \in Threads \ {t} : child'[u] = child[u]
        BY <1>2, <1>4, Zenon DEF ChildFields
    <2>2. Sound(child'[t], req[t], platform)
        BY <1>1, <1>2, <2>1, ExecSound, Zenon
    <2>3. QED
        BY <1>1, <2>1, <2>2, ChildStepD, Zenon
<1>5. QED
    BY <1>3, <1>4, ZenonT(60) DEF ChildExec

LEMMA SignalSound ==
    ASSUME NEW c, NEW d, NEW r \in Request, NEW p, Sound(c, r, p), DOMAIN c = ChildFields,
           c.armed, d = [c EXCEPT !.pending = @ \union {r.pdeathsig}]
    PROVE  Sound(d, r, p)
<1>1. /\ d.st = c.st /\ d.fds = c.fds /\ d.tmp = c.tmp /\ d.armed = c.armed /\ d.mask = c.mask
      /\ d.pending = c.pending \union {r.pdeathsig}
    BY Zenon DEF ChildFields
<1>2. r.pdeathsig # "none" /\ c.pending \subseteq Signals \union {"KILL"}
    BY Zenon DEF Sound
<1>3. r.pdeathsig \in Signals \union {"KILL"}
    BY <1>2 DEF Request, Signals
<1>4. d.pending \subseteq Signals \union {"KILL"}
    BY <1>1, <1>2, <1>3, Zenon
<1>5. QED
    BY <1>1, <1>4 DEF Sound

LEMMA ParentDiesD ==
    ASSUME Inv, DInv, ParentDies
    PROVE  DInv'
<1>1. UNCHANGED <<platform, table, mutex, req, thread>>
    BY Zenon DEF ParentDies
<1>2. ASSUME NEW t \in Threads
      PROVE  Process(t)'
    <2>1. /\ DOMAIN child[t] = ChildFields /\ Process(t) /\ req[t] \in Request
        BY OfCall, Zenon
    <2>2. child'[t] = IF child[t].armed /\ Live(t)
                      THEN [child[t] EXCEPT !.pending = @ \union {req[t].pdeathsig}]
                      ELSE child[t]
        BY Zenon DEF ParentDies
    <2>3. CASE child'[t] = child[t]
        BY <1>1, <2>1, <2>3, Zenon DEF Process
    <2>4. CASE /\ child'[t] = [child[t] EXCEPT !.pending = @ \union {req[t].pdeathsig}]
               /\ child[t].armed
        <3>1. Sound(child[t], req[t], platform)
            BY <2>1, Zenon DEF Process
        <3>2. Sound(child'[t], req[t], platform)
            BY <2>1, <2>4, <3>1, SignalSound, Zenon
        <3>3. QED
            BY <1>1, <3>2, Zenon DEF Process
    <2>5. QED
        BY <2>2, <2>3, <2>4, Zenon
<1>3. QED
    BY <1>1, <1>2, CallersStay, Zenon

LEMMA InitD ==
    ASSUME Init
    PROVE  DInv
<1>1. /\ table = OwnTable /\ thread = [t \in Threads |-> Idle] /\ mutex = Nobody
      /\ child = [t \in Threads |-> NoChild]
    BY Zenon DEF Init
<1>2. Accounted
    <2>1. DOMAIN table = 0 .. 4 /\ \A fd \in 0 .. 4 : table[fd].cloexec \in BOOLEAN
        <3>1. DOMAIN table = 0 .. 4
            BY <1>1, Zenon DEF OwnTable
        <3>2. \A fd \in 0 .. 4 : (fd > 2) \in BOOLEAN
            OBVIOUS
        <3>3. QED
            BY <1>1, <3>1, <3>2, OwnObjects, Zenon
    <2>2. 0 .. 4 \subseteq 0 .. MaxFd
        BY SpawnAssumption
    <2>3. \A t \in Threads : \A fd : ~Holding(t, fd)
        <3>1. TAKE t \in Threads
        <3>2. TAKE fd
        <3>3. thread[t].read = Unset /\ thread[t].write = Unset /\ thread[t].ruleset = Unset
            BY <1>1, Zenon DEF Idle
        <3>4. thread[t].tmp = <<>>
            BY <1>1 DEF Idle
        <3>5. fd \notin Range(thread[t].tmp)
            BY <3>4 DEF Range
        <3>6. QED
            BY <3>3, <3>5, Zenon DEF Holding
    <2>4. QED
        BY <1>1, <2>1, <2>2, <2>3, Zenon DEF Accounted
<1>3. ASSUME NEW t \in Threads
      PROVE  Caller(t)
    <2>1. thread[t] = Idle
        BY <1>1, Zenon
    <2>2. /\ thread[t].pc = "idle" /\ thread[t].read = Unset /\ thread[t].write = Unset
          /\ thread[t].ruleset = Unset /\ thread[t].tmp = <<>> /\ thread[t].mask = OwnMask
          /\ thread[t].cwd = "process" /\ thread[t].ret = "none" /\ thread[t].sigmask = {}
        BY <2>1 DEF Idle
    <2>3. Range(thread[t].tmp) = {} /\ thread[t].tmp \in Seq(Nat) /\ Len(thread[t].tmp) = 0
        BY <2>2 DEF Range
    <2>4. OpenOf(t)
        BY <2>2, <2>3 DEF OpenOf, Holding
    <2>5. SoFar(t)
        BY <2>2, <2>3 DEF SoFar, WithoutPipe, WithPipe
    <2>6. mutex # t
        BY <1>1, SpawnAssumption, Zenon
    <2>7. Restores(t)
        BY <2>2, <2>6, SpawnAssumption DEF Restores, InSection
    <2>8. QED
        BY <2>4, <2>5, <2>7, Zenon DEF Caller
<1>4. ASSUME NEW t \in Threads
      PROVE  Process(t)
    <2>1. child[t] = NoChild
        BY <1>1, Zenon
    <2>2. /\ child[t].st = "none" /\ DOMAIN child[t].fds = {} /\ child[t].pending = {}
          /\ child[t].armed = FALSE
        BY <2>1 DEF NoChild
    <2>3. QED
        BY <2>2, SMTT(60) DEF Process, Sound, Starting
<1>5. QED
    BY <1>1, <1>2, <1>3, <1>4, Zenon DEF DInv

LEMMA NextD ==
    ASSUME Inv, DInv, TakesFree, [Next]_vars
    PROVE  DInv'
<1>1. ASSUME NEW t \in Threads, ThreadStep(t)
      PROVE  DInv'
    BY <1>1, BeginD, EnterSectionD, MakePipeD, SetCloexecD, LeavePipeD, ForkD, ForkedD, ReadD,
       WaitChildD, ReturnD, PosixDupD, PosixMovesD, PosixSpawnD, PosixCleanupD, SpawnWindowsD,
       Zenon DEF ThreadStep
<1>2. ASSUME NEW t \in Threads, ChildStep(t)
      PROVE  DInv'
    BY <1>2, ChildDeathSignalD, ChildCheckParentD, ChildSetupD, ChildDupD, ChildDup2D,
       ChildRestrictD, ChildExecD, ChildEndsD, ZenonT(60) DEF ChildStep
<1>3. ASSUME NEW t \in Threads, Fault(t)
      PROVE  DInv'
    BY <1>3, OutOfMemoryD, ReadD, PosixMovesD, ChildEndsD, ZenonT(60) DEF Fault
<1>4. CASE UNCHANGED vars
    <2>1. UNCHANGED <<platform, table, mutex, req, thread, child>>
        BY <1>4, Zenon DEF vars
    <2>2. \A t \in Threads : Process(t)'
        BY <2>1, Zenon DEF DInv, Process
    <2>3. QED
        BY <2>1, <2>2, CallersStay, Zenon
<1>5. QED
    BY <1>1, <1>2, <1>3, <1>4, ParentDiesD, Zenon DEF Next
=============================================================================
