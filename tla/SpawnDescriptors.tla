-------------------------- MODULE SpawnDescriptors --------------------------
(***************************************************************************)
(* The steps of the calls keep the second part of the invariant of Spawn:  *)
(* a call closes what it opened, marks its descriptors before anybody can  *)
(* fork, and restores the mask.                                            *)
(***************************************************************************)
EXTENDS SpawnInvariant, TLAPS

-----------------------------------------------------------------------------
(* Steps of a call, and what they must show.                               *)

(* What Inv says about the thread and the request of a call.               *)
LEMMA OfCall ==
    ASSUME Inv, DInv, NEW t \in Threads
    PROVE  /\ DOMAIN thread = Threads /\ DOMAIN child = Threads
           /\ DOMAIN thread[t] = ThreadFields /\ DOMAIN child[t] = ChildFields
           /\ platform \in {"linux", "haiku", "macos", "windows"}
           /\ req[t] \in Request /\ Callable(req[t]) /\ OnItsWay(t) /\ Matches(t)
           /\ OpenOf(t) /\ SoFar(t) /\ Restores(t) /\ Process(t)
BY Zenon DEF Inv, Shape, Asked, Holds, DInv, Caller

(* A process that a step leaves alone.                                     *)
LEMMA SameProcess ==
    ASSUME NEW u \in Threads, Process(u), UNCHANGED <<platform, req>>, child'[u] = child[u]
    PROVE  Process(u)'
BY Zenon DEF Process

(* A step of t closes what t holds and opens what t holds from then on.    *)
OnlyOwn(t) ==
    /\ \A fd \in DOMAIN table :
          Holding(t, fd) \/ (fd \in DOMAIN table' /\ table'[fd] = table[fd])
    /\ \A fd \in DOMAIN table' :
          Holding(t, fd)' \/ (fd \in DOMAIN table /\ ~Holding(t, fd))
    /\ \A fd : Holding(t, fd)' => Holding(t, fd) \/ fd \notin DOMAIN table
    /\ \A fd \in DOMAIN table' : fd \in 0 .. MaxFd /\ table'[fd].cloexec \in BOOLEAN

(* The other calls go on as before, and t takes or gives back the mutex    *)
(* without taking it from another call.                                    *)
LeavesOthers(t) ==
    /\ UNCHANGED <<platform, req>>
    /\ \A u \in Threads \ {t} : thread'[u] = thread[u] /\ (mutex' = u <=> mutex = u)
    /\ mutex' \in Threads \union {Nobody}

LEMMA CallerStep ==
    ASSUME DInv, NEW t \in Threads, LeavesOthers(t), OnlyOwn(t), Caller(t)',
           \A u \in Threads : Process(u)'
    PROVE  DInv'
<1>1. \A u \in Threads \ {t} : \A fd : Holding(u, fd)' <=> Holding(u, fd)
    BY Zenon DEF LeavesOthers, Holding
<1>2. \A u \in Threads : \A fd : Holding(u, fd) => fd \in DOMAIN table /\ fd \notin 0 .. 4
    BY Zenon DEF DInv, Caller, OpenOf
<1>3. \A u \in Threads \ {t} : \A fd : ~(Holding(t, fd) /\ Holding(u, fd))
    BY Zenon DEF DInv, Accounted
<1>4. Accounted'
    <2>1. \A fd \in DOMAIN table' : fd \in 0 .. MaxFd /\ table'[fd].cloexec \in BOOLEAN
        BY Zenon DEF OnlyOwn
    <2>2. \A fd \in 0 .. 4 : fd \in DOMAIN table' /\ table'[fd] = OwnTable[fd]
        <3>1. \A fd \in 0 .. 4 : fd \in DOMAIN table /\ table[fd] = OwnTable[fd]
            BY Zenon DEF DInv, Accounted
        <3>2. QED
            BY <1>2, <3>1, Zenon DEF OnlyOwn
    <2>3. \A fd \in DOMAIN table' : fd \in 0 .. 4 \/ \E u \in Threads : Holding(u, fd)'
        <3>1. TAKE fd \in DOMAIN table'
        <3>2. Holding(t, fd)' \/ (fd \in DOMAIN table /\ ~Holding(t, fd))
            BY <3>1, Zenon DEF OnlyOwn
        <3>3. fd \in DOMAIN table => (fd \in 0 .. 4 \/ \E u \in Threads : Holding(u, fd))
            BY Zenon DEF DInv, Accounted
        <3>4. QED
            BY <1>1, <3>2, <3>3, Zenon
    <2>4. \A u, v \in Threads : u # v => \A fd : ~(Holding(u, fd)' /\ Holding(v, fd)')
        <3>1. SUFFICES ASSUME NEW u \in Threads, NEW v \in Threads, u # v, NEW fd
                       PROVE  ~(Holding(u, fd)' /\ Holding(v, fd)')
            BY Zenon
        <3>2. ~(Holding(u, fd) /\ Holding(v, fd))
            BY <3>1, Zenon DEF DInv, Accounted
        <3>3. Holding(t, fd)' => Holding(t, fd) \/ fd \notin DOMAIN table
            BY Zenon DEF OnlyOwn
        <3>4. CASE u = t
            BY <1>1, <1>2, <3>1, <3>2, <3>3, <3>4, Zenon
        <3>5. CASE v = t
            BY <1>1, <1>2, <3>1, <3>2, <3>3, <3>5, Zenon
        <3>6. CASE u # t /\ v # t
            BY <1>1, <3>2, <3>6, Zenon
        <3>7. QED
            BY <3>4, <3>5, <3>6, Zenon
    <2>5. QED
        BY <2>1, <2>2, <2>3, <2>4, Zenon DEF Accounted
<1>5. ASSUME NEW u \in Threads \ {t}
      PROVE  Caller(u)'
    <2>1. OpenOf(u) /\ SoFar(u) /\ Restores(u)
        BY <1>5, Zenon DEF DInv, Caller
    <2>2. /\ thread'[u] = thread[u] /\ (mutex' = u <=> mutex = u)
          /\ platform' = platform /\ req' = req
        BY <1>5, Zenon DEF LeavesOthers
    <2>3. \A fd : Holding(u, fd) => fd \in DOMAIN table' /\ table'[fd] = table[fd]
        BY <1>2, <1>3, <1>5, Zenon DEF OnlyOwn
    <2>4. OpenOf(u)'
        <3>1. \A fd : Holding(u, fd)' => fd \in DOMAIN table' /\ fd \notin 0 .. 4
            BY <1>1, <1>2, <1>5, <2>3, Zenon
        <3>2. /\ thread[u].read # Unset => table'[thread[u].read] = table[thread[u].read]
              /\ thread[u].write # Unset => table'[thread[u].write] = table[thread[u].write]
              /\ thread[u].ruleset # Unset =>
                    table'[thread[u].ruleset] = table[thread[u].ruleset]
            BY <2>3, Zenon DEF Holding
        <3>3. \A i \in 1 .. Len(thread[u].tmp) : table'[thread[u].tmp[i]] = table[thread[u].tmp[i]]
            <4>1. thread[u].tmp \in Seq(Nat)
                BY <2>1, Zenon DEF SoFar
            <4>2. TAKE i \in 1 .. Len(thread[u].tmp)
            <4>3. thread[u].tmp[i] \in Range(thread[u].tmp) /\ thread[u].tmp[i] # Unset
                BY <4>1, <4>2 DEF Range, Unset
            <4>4. QED
                BY <2>3, <4>3, Zenon DEF Holding
        <3>4. \A i \in 1 .. Len(thread[u].tmp) : table'[thread[u].tmp[i]].obj = File(req[u].std[i])
            BY <2>1, <3>3, Zenon DEF OpenOf
        <3>5. /\ thread[u].read # Unset => thread[u].read \notin {thread[u].write, thread[u].ruleset}
              /\ thread[u].write # Unset => thread[u].write # thread[u].ruleset
            BY <2>1, Zenon DEF OpenOf
        <3>6. thread[u].read # Unset =>
                 /\ table'[thread[u].read] \in {Closing(ReadEnd(u)), Inherited(ReadEnd(u))}
                 /\ thread[u].pc # "cloexec" => table'[thread[u].read] = Closing(ReadEnd(u))
            BY <2>1, <3>2, Zenon DEF OpenOf
        <3>7. thread[u].write # Unset =>
                 /\ table'[thread[u].write] \in {Closing(WriteEnd(u)), Inherited(WriteEnd(u))}
                 /\ thread[u].pc # "cloexec" => table'[thread[u].write] = Closing(WriteEnd(u))
            BY <2>1, <3>2, Zenon DEF OpenOf
        <3>8. thread[u].ruleset # Unset => table'[thread[u].ruleset] = Closing(Ruleset(u))
            BY <2>1, <3>2, Zenon DEF OpenOf
        <3>9. QED
            BY <2>2, <3>1, <3>4, <3>5, <3>6, <3>7, <3>8, Zenon DEF OpenOf
    <2>5. SoFar(u)'
        BY <2>1, <2>2, Zenon DEF SoFar
    <2>6. Restores(u)'
        BY <2>1, <2>2, ZenonT(60) DEF Restores, RestoredMask, HasMutex
    <2>7. QED
        BY <2>4, <2>5, <2>6, Zenon DEF Caller
<1>6. QED
    BY <1>4, <1>5, Zenon DEF DInv, LeavesOthers

(* A step of t that opens and closes nothing.                              *)
LEMMA SameTable ==
    ASSUME DInv, NEW t \in Threads, UNCHANGED table,
           thread'[t].read = thread[t].read, thread'[t].write = thread[t].write,
           thread'[t].ruleset = thread[t].ruleset, thread'[t].tmp = thread[t].tmp
    PROVE  /\ OnlyOwn(t) /\ \A fd : Holding(t, fd)' <=> Holding(t, fd)
           /\ req' = req /\ (thread[t].pc # "cloexec" \/ thread'[t].pc = "cloexec") => OpenOf(t)'
<1>1. \A fd : Holding(t, fd)' <=> Holding(t, fd)
    BY Zenon DEF Holding
<1>2. OnlyOwn(t)
    BY <1>1, Zenon DEF OnlyOwn, DInv, Accounted
<1>3. ASSUME req' = req, thread[t].pc # "cloexec" \/ thread'[t].pc = "cloexec"
      PROVE  OpenOf(t)'
    BY <1>1, <1>3, ZenonT(60) DEF OpenOf, DInv, Caller
<1>4. QED
    BY <1>1, <1>2, <1>3, Zenon

LEMMA MoveStep ==
    ASSUME DInv, NEW t \in Threads, LeavesOthers(t), UNCHANGED table,
           thread'[t].read = thread[t].read, thread'[t].write = thread[t].write,
           thread'[t].ruleset = thread[t].ruleset, thread'[t].tmp = thread[t].tmp,
           thread[t].pc # "cloexec", SoFar(t)', Restores(t)',
           \A u \in Threads : Process(u)'
    PROVE  DInv'
BY SameTable, CallerStep, Zenon DEF LeavesOthers, Caller

-----------------------------------------------------------------------------
(* Steps that only move a call.                                            *)

(* The call of t goes to another place, perhaps with a result.             *)
Moves(t) ==
    /\ UNCHANGED <<platform, req, table>>
    /\ DOMAIN thread' = Threads /\ \A u \in Threads \ {t} : thread'[u] = thread[u]
    /\ thread'[t].read = thread[t].read /\ thread'[t].write = thread[t].write
    /\ thread'[t].ruleset = thread[t].ruleset /\ thread'[t].tmp = thread[t].tmp
    /\ thread'[t].mask = thread[t].mask /\ thread'[t].saved = thread[t].saved
    /\ thread'[t].sigmask = thread[t].sigmask
    /\ thread'[t].ret \in {"none", "ok", "error"}

(* From where to where.                                                    *)
Routes ==
    {<<"enter", "pipe">>, <<"enter", "return">>, <<"pipe", "return">>, <<"leave", "done">>,
     <<"read", "return">>, <<"read", "reap">>, <<"reap", "return">>,
     <<"prepare", "return">>, <<"prepare", "posix">>, <<"prepare", "cleanup">>,
     <<"posix", "cleanup">>, <<"windows", "return">>}

LEMMA MovesStep ==
    ASSUME Inv, DInv, NEW t \in Threads, Moves(t),
           NEW from, NEW to, <<from, to>> \in Routes,
           thread[t].pc = from, thread'[t].pc = to,
           to # "posix" => thread'[t].cwd = "process",
           to = "posix" => Len(thread[t].tmp) = 3,
           from = "prepare" /\ to = "return" => thread[t].tmp = <<>>,
           to = "done" => thread'[t].ret = "ok",
           from \in {"enter", "pipe"} /\ to = "return" => thread'[t].ret = "error",
           \A u \in Threads \ {t} : mutex' = u <=> mutex = u,
           mutex' \in Threads \union {Nobody},
           mutex' = t <=> HasMutex /\ to \in InSection,
           \A u \in Threads : Process(u)'
    PROVE  DInv'
<1>1. /\ OnItsWay(t) /\ SoFar(t) /\ Restores(t) /\ req[t] \in Request /\ Callable(req[t])
    BY OfCall, Zenon
<1>2. SoFar(t)'
    BY <1>1, SMTT(30) DEF Routes, SoFar, Moves, OnItsWay, WithoutPipe, WithPipe, BeforeChild, Callable
<1>3. Restores(t)'
    <2>1. /\ to \in BeforeChild \union {"cleanup", "done"} => thread'[t].mask = OwnMask
          /\ to \in {"forked", "read", "reap"} => thread'[t].saved = OwnMask
          /\ to \notin {"idle", "cleanup", "return", "done"} =>
                thread'[t].sigmask = ChildSigmask(req[t], OwnMask)
        BY <1>1 DEF Routes, Moves, Restores, BeforeChild
    <2>5. to \notin {"enter", "cloexec"}
        BY DEF Routes
    <2>2. to = "return" => RestoredMask(t)' = OwnMask
        BY <1>1 DEF Routes, Moves, Restores, SoFar, BeforeChild, WithoutPipe, RestoredMask
    <2>3. /\ thread'[t].mask \subseteq Signals /\ thread'[t].sigmask \subseteq Signals
          /\ thread'[t].ret \in {"none", "ok", "error"} /\ HasMutex' = HasMutex /\ req' = req
        BY <1>1, Zenon DEF Moves, Restores, HasMutex
    <2>4. QED
        BY <2>1, <2>2, <2>3, <2>5, Zenon DEF Restores
<1>4. LeavesOthers(t)
    BY Zenon DEF LeavesOthers, Moves
<1>5. from # "cloexec"
    BY DEF Routes
<1>6. QED
    BY <1>2, <1>3, <1>4, <1>5, MoveStep, Zenon DEF Moves

(* Giving back the mutex, and not touching it.                             *)
LEMMA LeavesMutex ==
    ASSUME DInv, NEW t \in Threads, Leave(t)
    PROVE  /\ \A u \in Threads \ {t} : mutex' = u <=> mutex = u
           /\ mutex' \in Threads \union {Nobody} /\ mutex' # t
BY SpawnAssumption, Zenon DEF Leave, DInv

LEMMA SameMutex ==
    ASSUME DInv, UNCHANGED mutex
    PROVE  /\ \A u \in Threads : mutex' = u <=> mutex = u
           /\ mutex' \in Threads \union {Nobody}
BY Zenon DEF DInv

LEMMA SameProcesses ==
    ASSUME DInv, UNCHANGED <<platform, req, child>>
    PROVE  \A u \in Threads : Process(u)'
BY SameProcess, Zenon DEF DInv

(* A call that goes to another place with a result.                        *)
LEMMA MovesWithResult ==
    ASSUME NEW t \in Threads, DOMAIN thread = Threads, DOMAIN thread[t] = ThreadFields,
           NEW to, NEW ret \in {"none", "ok", "error"}, UNCHANGED <<platform, req, table>>,
           thread' = [thread EXCEPT ![t].pc = to, ![t].ret = ret]
    PROVE  /\ Moves(t) /\ thread'[t].pc = to /\ thread'[t].ret = ret
           /\ thread'[t].cwd = thread[t].cwd
BY Zenon DEF Moves, ThreadFields

LEMMA EnterSectionD ==
    ASSUME Inv, DInv, NEW t \in Threads, EnterSection(t)
    PROVE  DInv'
<1>1. /\ DOMAIN thread = Threads /\ DOMAIN thread[t] = ThreadFields
      /\ OnItsWay(t) /\ Matches(t) /\ Restores(t) /\ req[t] \in Request
    BY OfCall, Zenon
<1>2. Moves(t) /\ thread[t].pc = "enter" /\ thread'[t].pc = "pipe" /\ thread'[t].cwd = "process"
    BY <1>1, Zenon DEF EnterSection, At, Moves, Restores, ThreadFields
<1>3. <<"enter", "pipe">> \in Routes
    BY Zenon DEF Routes
<1>4. HasMutex /\ "pipe" \in InSection /\ mutex' = t /\ mutex = Nobody
    BY <1>1, <1>2, Zenon DEF Restores, InSection, EnterSection, MayEnter
<1>5. \A u \in Threads \ {t} : mutex' = u <=> mutex = u
    BY <1>4, SpawnAssumption, Zenon
<1>6. \A u \in Threads : Process(u)'
    BY SameProcesses, Zenon DEF EnterSection
<1>7. QED
    BY <1>2, <1>3, <1>4, <1>5, <1>6, MovesStep, Zenon

LEMMA LeavePipeD ==
    ASSUME Inv, DInv, NEW t \in Threads, LeavePipe(t)
    PROVE  DInv'
<1>1. /\ DOMAIN thread = Threads /\ DOMAIN thread[t] = ThreadFields /\ Restores(t)
    BY OfCall, Zenon
<1>2. /\ Moves(t) /\ thread[t].pc = "leave" /\ thread'[t].pc = "done"
      /\ thread'[t].cwd = "process" /\ thread'[t].ret = "ok"
    BY <1>1, Zenon DEF LeavePipe, At, Moves, Restores, ThreadFields
<1>3. <<"leave", "done">> \in Routes /\ "done" \notin InSection
    BY Zenon DEF Routes, InSection
<1>4. \A u \in Threads : Process(u)'
    BY SameProcesses, Zenon DEF LeavePipe
<1>5. QED
    BY <1>2, <1>3, <1>4, MovesStep, LeavesMutex, Zenon DEF LeavePipe

LEMMA OutOfMemoryD ==
    ASSUME Inv, DInv, NEW t \in Threads, OutOfMemory(t)
    PROVE  DInv'
<1>1. /\ DOMAIN thread = Threads /\ DOMAIN thread[t] = ThreadFields /\ Restores(t)
      /\ platform \in {"linux", "haiku", "macos", "windows"}
    BY OfCall, Zenon
<1>2. /\ Moves(t) /\ thread[t].pc = Entry(req[t]) /\ thread'[t].pc = "return"
      /\ thread'[t].cwd = "process" /\ thread[t].tmp = <<>> /\ thread'[t].ret = "error"
    BY <1>1, ZenonT(30) DEF OutOfMemory, At, Moves, Restores, ThreadFields, Entry
<1>3. /\ Entry(req[t]) \in {"prepare", "enter", "pipe"}
      /\ Entry(req[t]) = "pipe" => ~HasMutex
    BY <1>1, Zenon DEF OutOfMemory, Entry, HasMutex
<1>4. /\ <<Entry(req[t]), "return">> \in Routes /\ "return" \notin InSection
      /\ ~(HasMutex /\ thread[t].pc \in InSection)
    BY <1>2, <1>3 DEF Routes, InSection
<1>5. \A u \in Threads : Process(u)'
    BY SameProcesses, Zenon DEF OutOfMemory
<1>6. mutex' # t
    BY <1>1, <1>4, Zenon DEF Restores, OutOfMemory
<1>7. QED
    BY <1>2, <1>4, <1>5, <1>6, MovesStep, SameMutex, Zenon DEF OutOfMemory

LEMMA ReadD ==
    ASSUME Inv, DInv, NEW t \in Threads, ReadReport(t) \/ ReadFails(t)
    PROVE  DInv'
<1>1. /\ DOMAIN thread = Threads /\ DOMAIN thread[t] = ThreadFields /\ Restores(t)
    BY OfCall, Zenon
<1>2. /\ Moves(t) /\ thread[t].pc = "read" /\ thread'[t].pc \in {"return", "reap"}
      /\ thread'[t].cwd = "process"
    <2>1. UNCHANGED <<platform, req, table>> /\ thread[t].pc = "read"
        BY Zenon DEF ReadReport, ReadFails, At
    <2>2. thread[t].cwd = "process"
        BY <1>1, <2>1 DEF Restores
    <2>3. CASE thread' = [thread EXCEPT ![t].pc = "return", ![t].ret = "ok"]
        BY <1>1, <2>1, <2>2, <2>3, MovesWithResult, Zenon
    <2>4. CASE thread' = [thread EXCEPT ![t].pc = "reap", ![t].ret = "error"]
        BY <1>1, <2>1, <2>2, <2>4, MovesWithResult, ZenonT(60)
    <2>5. QED
        BY <2>3, <2>4, Zenon DEF ReadReport, ReadFails, RaiseAfter
<1>3. /\ <<"read", thread'[t].pc>> \in Routes /\ thread'[t].pc \notin InSection
      /\ "read" \notin InSection
    BY <1>2, Zenon DEF Routes, InSection
<1>4. \A u \in Threads : Process(u)'
    BY SameProcesses, Zenon DEF ReadReport, ReadFails
<1>5. mutex' # t /\ UNCHANGED mutex
    BY <1>1, <1>2, <1>3, Zenon DEF Restores, ReadReport, ReadFails
<1>6. thread'[t].pc # "posix" /\ thread'[t].pc # "done"
    BY <1>2
<1>7. QED
    BY <1>2, <1>3, <1>4, <1>5, <1>6, MovesStep, SameMutex, Zenon

LEMMA GoneSound ==
    ASSUME NEW st \in {"exited", "killed", "reaped"}, NEW report, NEW r, NEW p
    PROVE  Sound(Gone(st, report), r, p)
<1> DEFINE c == Gone(st, report)
<1>1. /\ c.st = st /\ c.fds = <<>> /\ c.pending = {} /\ c.armed = FALSE
    BY Zenon DEF Gone, NoChild
<1>2. DOMAIN c.fds = {}
    BY <1>1
<1>3. QED
    BY <1>1, <1>2, Zenon DEF Sound, Starting

(* A step that changes at most the process of t.                           *)
LEMMA OneProcess ==
    ASSUME DInv, NEW t \in Threads, UNCHANGED <<platform, req>>,
           \A u \in Threads \ {t} : child'[u] = child[u],
           Sound(child'[t], req[t], platform)
    PROVE  \A u \in Threads : Process(u)'
<1>1. TAKE u \in Threads
<1>2. CASE u = t
    BY <1>2, Zenon DEF Process
<1>3. CASE u # t
    BY <1>3, SameProcess, Zenon DEF DInv
<1>4. QED
    BY <1>2, <1>3, Zenon

LEMMA WaitChildD ==
    ASSUME Inv, DInv, NEW t \in Threads, WaitChild(t)
    PROVE  DInv'
<1>1. /\ DOMAIN thread = Threads /\ DOMAIN thread[t] = ThreadFields /\ Restores(t)
      /\ DOMAIN child = Threads
    BY OfCall, Zenon
<1>2. /\ Moves(t) /\ thread[t].pc = "reap" /\ thread'[t].pc = "return"
      /\ thread'[t].cwd = "process"
    BY <1>1, Zenon DEF WaitChild, At, Moves, Restores, ThreadFields
<1>3. <<"reap", "return">> \in Routes /\ "return" \notin InSection /\ "reap" \notin InSection
    BY Zenon DEF Routes, InSection
<1>4. \A u \in Threads : Process(u)'
    <2>1. child'[t] = Gone("reaped", FALSE) /\ \A u \in Threads \ {t} : child'[u] = child[u]
        BY <1>1, Zenon DEF WaitChild
    <2>2. Sound(child'[t], req[t], platform)
        BY <2>1, GoneSound, Zenon
    <2>3. QED
        BY <2>1, <2>2, OneProcess, Zenon DEF WaitChild
<1>5. mutex' # t /\ UNCHANGED mutex
    BY <1>1, <1>2, <1>3, Zenon DEF Restores, WaitChild
<1>6. QED
    BY <1>2, <1>3, <1>4, <1>5, MovesStep, SameMutex, Zenon

LEMMA PosixMovesD ==
    ASSUME Inv, DInv, NEW t \in Threads, PosixChdir(t) \/ PosixFails(t) \/ PosixInitFails(t)
    PROVE  DInv'
<1>1. /\ DOMAIN thread = Threads /\ DOMAIN thread[t] = ThreadFields /\ Restores(t)
    BY OfCall, Zenon
<1>2. /\ Moves(t) /\ thread[t].pc = "prepare" /\ thread'[t].pc \in {"posix", "cleanup"}
      /\ thread'[t].pc # "posix" => thread'[t].cwd = "process"
      /\ thread'[t].pc = "posix" => Len(thread[t].tmp) = 3
    <2>1. CASE PosixChdir(t)
        BY <1>1, <2>1, Zenon DEF PosixChdir, At, Moves, Restores, ThreadFields
    <2>2. ASSUME UNCHANGED <<platform, req, table>>, thread[t].pc = "prepare",
                 thread' = [thread EXCEPT ![t].pc = "cleanup", ![t].ret = "error"]
          PROVE  Moves(t) /\ thread'[t].pc = "cleanup" /\ thread'[t].cwd = "process"
        <3>1. thread[t].cwd = "process"
            BY <1>1, <2>2 DEF Restores
        <3>2. QED
            BY <1>1, <2>2, <3>1, MovesWithResult, ZenonT(60)
    <2>3. CASE PosixFails(t)
        BY <2>2, <2>3 DEF PosixFails, At
    <2>4. CASE PosixInitFails(t)
        BY <2>2, <2>4 DEF PosixInitFails, At
    <2>5. QED
        BY <2>1, <2>3, <2>4, Zenon
<1>3. /\ <<"prepare", thread'[t].pc>> \in Routes /\ thread'[t].pc \notin InSection
      /\ "prepare" \notin InSection /\ thread'[t].pc \notin {"return", "done"}
    BY <1>2, Zenon DEF Routes, InSection
<1>4. \A u \in Threads : Process(u)'
    BY SameProcesses, Zenon DEF PosixChdir, PosixFails, PosixInitFails
<1>5. mutex' # t /\ UNCHANGED mutex
    BY <1>1, <1>2, <1>3, Zenon DEF Restores, PosixChdir, PosixFails, PosixInitFails
<1>6. QED
    BY <1>2, <1>3, <1>4, <1>5, MovesStep, SameMutex, Zenon

-----------------------------------------------------------------------------
(* Steps that open or close descriptors of the caller.                     *)

LEMMA ClosingFlag ==
    ASSUME NEW obj
    PROVE  Closing(obj).cloexec \in BOOLEAN /\ Closing(obj).cloexec /\ Closing(obj).obj = obj
BY DEF Closing

LEMMA OpensOwn ==
    ASSUME DInv, NEW t \in Threads, NEW S, S \subseteq Free(table),
           DOMAIN table' = DOMAIN table \union S,
           \A x \in DOMAIN table : table'[x] = table[x],
           \A x \in S : table'[x].cloexec \in BOOLEAN,
           \A x : Holding(t, x)' <=> Holding(t, x) \/ x \in S
    PROVE  OnlyOwn(t)
<1>1. \A x \in S : x \notin DOMAIN table /\ x \in 0 .. MaxFd
    BY Zenon DEF Free
<1>2. \A x \in DOMAIN table : x \in 0 .. MaxFd /\ table[x].cloexec \in BOOLEAN
    BY Zenon DEF DInv, Accounted
<1>3. \A x \in DOMAIN table' : x \in 0 .. MaxFd /\ table'[x].cloexec \in BOOLEAN
    BY <1>1, <1>2, Zenon
<1>4. \A x \in DOMAIN table' : Holding(t, x)' \/ (x \in DOMAIN table /\ ~Holding(t, x))
    BY Zenon
<1>5. \A x : Holding(t, x)' => Holding(t, x) \/ x \notin DOMAIN table
    BY <1>1, Zenon
<1>6. QED
    BY <1>3, <1>4, <1>5, Zenon DEF OnlyOwn

LEMMA ClosesHeld ==
    ASSUME DInv, NEW t \in Threads, NEW S, table' = Close(table, S),
           \A x \in S : x = Unset \/ Holding(t, x),
           \A x : Holding(t, x)' <=> Holding(t, x) /\ x \notin S
    PROVE  /\ OnlyOwn(t) /\ DOMAIN table' = DOMAIN table \ S
           /\ \A x \in DOMAIN table \ S : table'[x] = table[x]
<1>1. /\ DOMAIN table' = DOMAIN table \ S
      /\ \A x \in DOMAIN table \ S : table'[x] = table[x]
    BY Zenon DEF Close, Restrict
<1>2. \A x \in DOMAIN table : /\ x \in 0 .. MaxFd /\ table[x].cloexec \in BOOLEAN
                              /\ x # Unset
    <2>1. \A x \in DOMAIN table : x \in 0 .. MaxFd /\ table[x].cloexec \in BOOLEAN
        BY Zenon DEF DInv, Accounted
    <2>2. Unset \notin 0 .. MaxFd
        BY SpawnAssumption DEF Unset
    <2>3. QED
        BY <2>1, <2>2, Zenon
<1>3. OnlyOwn(t)
    BY <1>1, <1>2, Zenon DEF OnlyOwn
<1>4. QED
    BY <1>1, <1>3, Zenon

(* The mask of the child lists signals that can be blocked.                *)
LEMMA SigmaskType ==
    ASSUME NEW r \in Request
    PROVE  ChildSigmask(r, OwnMask) \subseteq Signals
<1>1. /\ r.signals \subseteq Signals /\ OwnMask \subseteq Signals
      /\ r.command \in {"default", "setmask", "block", "unblock"}
    BY SpawnAssumption, Zenon DEF Request
<1>2. QED
    BY <1>1 DEF ChildSigmask

LEMMA BeginD ==
    ASSUME Inv, DInv, TakesFree, NEW t \in Threads, Begin(t)
    PROVE  DInv'
<1> DEFINE r == req[t]
           start == [thread[t] EXCEPT !.pc = Entry(r), !.sigmask = ChildSigmask(r, thread[t].mask)]
           raise == [thread[t] EXCEPT !.pc = "return", !.ret = "error"]
           fd == Min(Free(table))
           Like(new) ==
             /\ DOMAIN new = ThreadFields /\ new.tmp = <<>> /\ new.cwd = "process"
             /\ new.read = Unset /\ new.write = Unset /\ new.mask = OwnMask
             /\ new.ret \in {"none", "ok", "error"}
             /\ \/ new.pc = Entry(r) /\ new.sigmask = ChildSigmask(r, OwnMask)
                \/ new.pc = "return" /\ new.ret = "error" /\ new.sigmask \subseteq Signals
<1>1. /\ DOMAIN thread = Threads /\ DOMAIN thread[t] = ThreadFields /\ SoFar(t) /\ Restores(t)
      /\ platform \in {"linux", "haiku", "macos", "windows"} /\ r \in Request /\ Callable(r)
    BY OfCall, Zenon
<1>2. UNCHANGED <<platform, req, mutex, child>> /\ thread[t].pc = "idle"
    BY Zenon DEF Begin, At
<1>3. /\ thread[t].tmp = <<>> /\ thread[t].cwd = "process" /\ thread[t].read = Unset
      /\ thread[t].write = Unset /\ thread[t].mask = OwnMask /\ thread[t].ruleset = Unset
      /\ thread[t].sigmask \subseteq Signals /\ thread[t].ret \in {"none", "ok", "error"}
    BY <1>1, <1>2 DEF SoFar, Restores, WithoutPipe, BeforeChild
<1>4. \A new \in {start, raise} : Like(new) /\ new.ruleset = Unset
    <2>1. Like(start) /\ start.ruleset = Unset
        BY <1>1, <1>3, Zenon DEF ThreadFields
    <2>2. Like(raise) /\ raise.ruleset = Unset
        BY <1>1, <1>3, Zenon DEF ThreadFields
    <2>3. QED
        BY <2>1, <2>2, Zenon
<1>5. ASSUME NEW new, Like(new)
      PROVE  LET with == [new EXCEPT !.ruleset = fd] IN Like(with) /\ with.ruleset = fd
    BY <1>5, Zenon DEF ThreadFields
<1>6. \/ /\ \E new \in {start, raise} : thread' = [thread EXCEPT ![t] = new]
         /\ UNCHANGED table
      \/ /\ r.landlock /\ Free(table) # {} /\ table' = Install(table, fd, Ruleset(t), TRUE)
         /\ \E new \in {start, raise} :
               thread' = [thread EXCEPT ![t] = [new EXCEPT !.ruleset = fd]]
    BY Zenon DEF Begin
<1> HIDE DEF start, raise
<1>7. /\ Like(thread'[t]) /\ \A u \in Threads \ {t} : thread'[u] = thread[u]
      /\ \/ thread'[t].ruleset = Unset /\ UNCHANGED table
         \/ /\ thread'[t].ruleset = fd /\ Free(table) # {} /\ r.landlock
            /\ table' = Install(table, fd, Ruleset(t), TRUE)
    <2> HIDE DEF Like
    <2>1. CASE \E new \in {start, raise} : thread' = [thread EXCEPT ![t] = new] /\ UNCHANGED table
        BY <1>1, <1>4, <2>1, Zenon
    <2>2. CASE /\ Free(table) # {} /\ table' = Install(table, fd, Ruleset(t), TRUE) /\ r.landlock
               /\ \E new \in {start, raise} :
                     thread' = [thread EXCEPT ![t] = [new EXCEPT !.ruleset = fd]]
        <3>1. PICK new \in {start, raise} : thread' = [thread EXCEPT ![t] = [new EXCEPT !.ruleset = fd]]
            BY <2>2, ZenonT(30)
        <3>2. Like([new EXCEPT !.ruleset = fd]) /\ [new EXCEPT !.ruleset = fd].ruleset = fd
            BY <1>4, <1>5, Zenon
        <3>3. QED
            BY <1>1, <2>2, <3>1, <3>2, Zenon
    <2>3. QED
        BY <1>6, <2>1, <2>2, Zenon
<1>8. /\ thread'[t].pc \in {"windows", "prepare", "enter", "pipe", "return"}
      /\ thread'[t].pc = "enter" => HasMutex
      /\ thread'[t].pc = "pipe" => ~HasMutex
      /\ thread'[t].pc = "return" => thread'[t].ret = "error"
    <2>1. /\ Entry(r) \in {"windows", "prepare", "enter", "pipe"}
          /\ Entry(r) = "enter" => HasMutex
          /\ Entry(r) = "pipe" => ~HasMutex
          /\ Entry(r) # "return"
        BY <1>1, Zenon DEF Entry, HasMutex
    <2>2. QED
        BY <1>7, <2>1, Zenon
<1>9. Restores(t)'
    <2>1. mutex' # t /\ ~(HasMutex' /\ thread'[t].pc \in InSection) /\ HasMutex' = HasMutex
        BY <1>1, <1>2, <1>8 DEF Restores, InSection, HasMutex
    <2>2. RestoredMask(t)' = OwnMask /\ req' = req /\ OwnMask \subseteq Signals
        BY <1>2, <1>7, SpawnAssumption, Zenon DEF RestoredMask
    <2>3. /\ thread'[t].sigmask \subseteq Signals
          /\ thread'[t].pc # "return" => thread'[t].sigmask = ChildSigmask(r, OwnMask)
        BY <1>1, <1>7, SigmaskType, Zenon
    <2>4. QED
        BY <1>7, <1>8, <2>1, <2>2, <2>3, ZenonT(30) DEF Restores
<1>10. SoFar(t)'
    BY <1>1, <1>2, <1>7, <1>8, ZenonT(60) DEF SoFar, WithoutPipe, WithPipe
<1>11. LeavesOthers(t)
    BY <1>2, <1>7, SameMutex, Zenon DEF LeavesOthers
<1>12. \A u \in Threads : Process(u)'
    BY <1>2, SameProcesses, Zenon
<1>13. CASE thread'[t].ruleset = Unset /\ UNCHANGED table
    BY <1>2, <1>3, <1>7, <1>9, <1>10, <1>11, <1>12, <1>13, MoveStep
<1>14. CASE /\ thread'[t].ruleset = fd /\ Free(table) # {}
            /\ table' = Install(table, fd, Ruleset(t), TRUE)
    <2>1. fd \in Free(table)
        BY <1>14, Zenon DEF TakesFree
    <2> HIDE DEF fd
    <2>2. fd # Unset
        BY <2>1, SpawnAssumption DEF Free, Unset
    <2>3. \A x : ~Holding(t, x) /\ (Holding(t, x)' <=> x = fd)
        <3>1. Range(<<>>) = {}
            BY DEF Range
        <3>2. QED
            BY <1>3, <1>7, <1>14, <2>2, <3>1, Zenon DEF Holding
    <2>4. /\ OnlyOwn(t) /\ table'[fd] = Closing(Ruleset(t))
          /\ DOMAIN table' = DOMAIN table \union {fd} /\ fd \notin DOMAIN table
        <3>1. fd \notin DOMAIN table
            BY <2>1, Zenon DEF Free
        <3>2. /\ DOMAIN table' = DOMAIN table \union {fd}
              /\ table'[fd] = Closing(Ruleset(t))
              /\ \A x \in DOMAIN table : table'[x] = table[x]
            BY <1>14, <3>1, Zenon DEF Install, Closing
        <3>3. \A x \in {fd} : table'[x].cloexec \in BOOLEAN
            BY <3>2, ClosingFlag, Zenon
        <3>4. {fd} \subseteq Free(table) /\ \A x : Holding(t, x)' <=> Holding(t, x) \/ x \in {fd}
            BY <2>1, <2>3, Zenon
        <3>5. QED
            BY <3>1, <3>2, <3>3, <3>4, OpensOwn, Zenon
    <2>5. OpenOf(t)'
        <3>1. \A x \in 0 .. 4 : x \in DOMAIN table
            BY Zenon DEF DInv, Accounted
        <3>2. \A x : Holding(t, x)' => x \in DOMAIN table' /\ x \notin 0 .. 4
            BY <2>3, <2>4, <3>1, Zenon
        <3>3. 1 .. Len(thread'[t].tmp) = {}
            BY <1>7
        <3>4. QED
            BY <1>7, <1>14, <2>4, <3>2, <3>3, Zenon DEF OpenOf
    <2>6. QED
        BY <1>9, <1>10, <1>11, <1>12, <2>4, <2>5, CallerStep, Zenon DEF Caller
<1>15. QED
    BY <1>7, <1>13, <1>14, Zenon

(* A step of t that opens or closes descriptors.                           *)
LEMMA TableStep ==
    ASSUME DInv, NEW t \in Threads, LeavesOthers(t), OnlyOwn(t), UNCHANGED child,
           OpenOf(t)', SoFar(t)', Restores(t)'
    PROVE  DInv'
<1>1. \A u \in Threads : Process(u)'
    BY SameProcesses, Zenon DEF LeavesOthers
<1>2. QED
    BY <1>1, CallerStep, Zenon DEF Caller

(* A step of t after which t holds less, and what it still holds is as it  *)
(* was.                                                                    *)
LEMMA HoldsLess ==
    ASSUME DInv, NEW t \in Threads, req' = req,
           thread'[t].read \in {thread[t].read, Unset},
           thread'[t].write \in {thread[t].write, Unset},
           thread'[t].ruleset \in {thread[t].ruleset, Unset},
           thread'[t].tmp \in {thread[t].tmp, <<>>},
           \/ thread[t].pc # "cloexec"
           \/ thread'[t].read = Unset /\ thread'[t].write = Unset,
           \A x : Holding(t, x)' => Holding(t, x) /\ x \in DOMAIN table' /\ table'[x] = table[x]
    PROVE  OpenOf(t)'
<1>1. OpenOf(t) /\ SoFar(t)
    BY Zenon DEF DInv, Caller
<1>2. \A fd : Holding(t, fd)' => fd \in DOMAIN table' /\ fd \notin 0 .. 4
    BY <1>1, Zenon DEF OpenOf
<1>3. /\ thread'[t].read # Unset => table'[thread'[t].read] = table[thread[t].read]
      /\ thread'[t].write # Unset => table'[thread'[t].write] = table[thread[t].write]
      /\ thread'[t].ruleset # Unset => table'[thread'[t].ruleset] = table[thread[t].ruleset]
    <2>1. \A x : x # Unset /\ x \in {thread'[t].read, thread'[t].write, thread'[t].ruleset} =>
                    table'[x] = table[x]
        BY Zenon DEF Holding
    <2>2. QED
        BY <2>1, Zenon
<1>4. \A i \in 1 .. Len(thread'[t].tmp) : table'[thread'[t].tmp[i]].obj = File(req[t].std[i])
    <2>1. CASE thread'[t].tmp = <<>>
        BY <2>1
    <2>2. CASE thread'[t].tmp = thread[t].tmp
        <3>1. \A i \in 1 .. Len(thread[t].tmp) :
                 thread[t].tmp[i] \in Range(thread[t].tmp) /\ thread[t].tmp[i] # Unset
            BY <1>1, SMTT(60) DEF SoFar, Range, Unset
        <3>2. \A x \in Range(thread[t].tmp) : x # Unset => table'[x] = table[x]
            BY <2>2, Zenon DEF Holding
        <3>3. \A i \in 1 .. Len(thread[t].tmp) : table[thread[t].tmp[i]].obj = File(req[t].std[i])
            BY <1>1, Zenon DEF OpenOf
        <3>4. QED
            BY <2>2, <3>1, <3>2, <3>3
    <2>3. QED
        BY <2>1, <2>2, Zenon
<1>5. /\ thread'[t].read # Unset => thread'[t].read \notin {thread'[t].write, thread'[t].ruleset}
      /\ thread'[t].write # Unset => thread'[t].write # thread'[t].ruleset
    BY <1>1, Zenon DEF OpenOf
<1>6. /\ thread'[t].read # Unset =>
            /\ table'[thread'[t].read] \in {Closing(ReadEnd(t)), Inherited(ReadEnd(t))}
            /\ thread'[t].pc # "cloexec" => table'[thread'[t].read] = Closing(ReadEnd(t))
    BY <1>1, <1>3, Zenon DEF OpenOf
<1>7. /\ thread'[t].write # Unset =>
            /\ table'[thread'[t].write] \in {Closing(WriteEnd(t)), Inherited(WriteEnd(t))}
            /\ thread'[t].pc # "cloexec" => table'[thread'[t].write] = Closing(WriteEnd(t))
    BY <1>1, <1>3, Zenon DEF OpenOf
<1>8. thread'[t].ruleset # Unset => table'[thread'[t].ruleset] = Closing(Ruleset(t))
    BY <1>1, <1>3, Zenon DEF OpenOf
<1>9. QED
    BY <1>2, <1>4, <1>5, <1>6, <1>7, <1>8, Zenon DEF OpenOf

LEMMA ClosingStep ==
    ASSUME DInv, NEW t \in Threads, NEW S, table' = Close(table, S), LeavesOthers(t), UNCHANGED child,
           \A x \in S : x = Unset \/ Holding(t, x),
           \A x : Holding(t, x)' <=> Holding(t, x) /\ x \notin S,
           thread'[t].read \in {thread[t].read, Unset},
           thread'[t].write \in {thread[t].write, Unset},
           thread'[t].ruleset \in {thread[t].ruleset, Unset},
           thread'[t].tmp \in {thread[t].tmp, <<>>},
           \/ thread[t].pc # "cloexec"
           \/ thread'[t].read = Unset /\ thread'[t].write = Unset,
           SoFar(t)', Restores(t)'
    PROVE  DInv'
<1>1. /\ OnlyOwn(t) /\ DOMAIN table' = DOMAIN table \ S
      /\ \A x \in DOMAIN table \ S : table'[x] = table[x]
    BY ClosesHeld, Zenon
<1>2. \A x : Holding(t, x)' => Holding(t, x) /\ x \in DOMAIN table' /\ table'[x] = table[x]
    BY <1>1, Zenon DEF DInv, Caller, OpenOf
<1>3. OpenOf(t)'
    BY <1>2, HoldsLess, Zenon DEF LeavesOthers
<1>4. QED
    BY <1>1, <1>3, TableStep, Zenon

(* A call without duplicates.                                              *)
LEMMA HoldsNoDuplicate ==
    ASSUME NEW t, thread[t].tmp = <<>>
    PROVE  \A x : Holding(t, x) <=>
              x # Unset /\ x \in {thread[t].read, thread[t].write, thread[t].ruleset}
<1>1. Range(<<>>) = {}
    BY DEF Range
<1>2. QED
    BY <1>1, Zenon DEF Holding

LEMMA HoldsNoDuplicateNext ==
    ASSUME NEW t, thread'[t].tmp = <<>>
    PROVE  \A x : Holding(t, x)' <=>
              x # Unset /\ x \in {thread'[t].read, thread'[t].write, thread'[t].ruleset}
<1>1. Range(<<>>) = {}
    BY DEF Range
<1>2. QED
    BY <1>1, Zenon DEF Holding

LEMMA ForkedD ==
    ASSUME Inv, DInv, NEW t \in Threads, Forked(t)
    PROVE  DInv'
<1> DEFINE w == thread[t].write
<1>1. /\ DOMAIN thread = Threads /\ DOMAIN thread[t] = ThreadFields
      /\ OpenOf(t) /\ SoFar(t) /\ Restores(t) /\ Matches(t) /\ OnItsWay(t)
    BY OfCall, Zenon
<1>2. /\ thread[t].pc = "forked" /\ UNCHANGED <<platform, req, child>> /\ Leave(t)
      /\ table' = Close(table, {w})
    BY Zenon DEF Forked, At, ClosedAfterFork
<1>3. /\ thread'[t] = [thread[t] EXCEPT !.write = Unset,
                          !.pc = IF thread[t].ret = "error" THEN "return" ELSE "read"]
      /\ \A u \in Threads \ {t} : thread'[u] = thread[u]
    BY <1>1, Zenon DEF Forked
<1>4. /\ thread'[t].write = Unset /\ thread'[t].read = thread[t].read
      /\ thread'[t].ruleset = thread[t].ruleset /\ thread'[t].tmp = thread[t].tmp
      /\ thread'[t].pc \in {"return", "read"} /\ thread'[t].cwd = thread[t].cwd
      /\ thread'[t].mask = thread[t].mask /\ thread'[t].saved = thread[t].saved
      /\ thread'[t].sigmask = thread[t].sigmask /\ thread'[t].ret = thread[t].ret
    BY <1>1, <1>3, Zenon DEF ThreadFields
<1>5. /\ thread[t].tmp = <<>> /\ thread[t].read # Unset /\ w # Unset /\ w # thread[t].read
      /\ w # thread[t].ruleset /\ req[t].op # "pipe"
    BY <1>1, <1>2 DEF SoFar, WithPipe, OpenOf, OnItsWay
<1>6. SoFar(t)'
    BY <1>1, <1>2, <1>4, <1>5 DEF SoFar, WithPipe, WithoutPipe
<1>7. LeavesOthers(t)
    BY <1>2, <1>3, LeavesMutex, Zenon DEF LeavesOthers
<1>8. Restores(t)'
    <2>1. mutex' # t /\ HasMutex' = HasMutex
        BY <1>2, LeavesMutex, Zenon DEF HasMutex
    <2>2. RestoredMask(t)' = OwnMask
        BY <1>1, <1>2, <1>4, <1>5, Zenon DEF RestoredMask, Restores
    <2>3. QED
        BY <1>1, <1>2, <1>4, <2>1, <2>2 DEF Restores, BeforeChild, InSection
<1>9. /\ \A x \in {w} : x = Unset \/ Holding(t, x)
      /\ \A x : Holding(t, x)' <=> Holding(t, x) /\ x \notin {w}
    <2>1. \A x : Holding(t, x) <=> x # Unset /\ x \in {thread[t].read, w, thread[t].ruleset}
        BY <1>5, HoldsNoDuplicate, Zenon
    <2>2. \A x : Holding(t, x)' <=> x # Unset /\ x \in {thread[t].read, Unset, thread[t].ruleset}
        BY <1>4, <1>5, HoldsNoDuplicateNext, Zenon
    <2>3. QED
        BY <1>5, <2>1, <2>2
<1>10. thread[t].pc # "cloexec"
    BY <1>2
<1>11. QED
    BY <1>2, <1>4, <1>6, <1>7, <1>8, <1>9, <1>10, ClosingStep, Zenon

LEMMA ReturnD ==
    ASSUME Inv, DInv, NEW t \in Threads, Return(t)
    PROVE  DInv'
<1> DEFINE r == thread[t].read
           s == thread[t].ruleset
<1>1. /\ DOMAIN thread = Threads /\ DOMAIN thread[t] = ThreadFields
      /\ OpenOf(t) /\ SoFar(t) /\ Restores(t)
    BY OfCall, Zenon
<1>2. /\ thread[t].pc = "return" /\ UNCHANGED <<platform, req, mutex, child>>
      /\ table' = Close(table, {r, s})
    BY Zenon DEF Return, At
<1>3. /\ thread'[t] = [thread[t] EXCEPT !.mask = RestoredMask(t), !.read = Unset,
                                        !.ruleset = Unset, !.pc = "done"]
      /\ \A u \in Threads \ {t} : thread'[u] = thread[u]
    BY <1>1, Zenon DEF Return
<1>4. /\ thread'[t].write = thread[t].write /\ thread'[t].read = Unset
      /\ thread'[t].ruleset = Unset /\ thread'[t].tmp = thread[t].tmp
      /\ thread'[t].pc = "done" /\ thread'[t].cwd = thread[t].cwd
      /\ thread'[t].mask = RestoredMask(t)
      /\ thread'[t].sigmask = thread[t].sigmask /\ thread'[t].ret = thread[t].ret
    BY <1>1, <1>3, Zenon DEF ThreadFields
<1>5. thread[t].tmp = <<>> /\ thread[t].write = Unset
    BY <1>1, <1>2 DEF SoFar
<1>6. SoFar(t)'
    BY <1>1, <1>2, <1>4, <1>5 DEF SoFar, WithPipe, WithoutPipe
<1>7. LeavesOthers(t)
    BY <1>2, <1>3, SameMutex, Zenon DEF LeavesOthers
<1>8. Restores(t)'
    <2>1. mutex' # t /\ HasMutex' = HasMutex
        BY <1>1, <1>2 DEF HasMutex, Restores, InSection
    <2>2. thread'[t].mask = OwnMask /\ OwnMask \subseteq Signals
        BY <1>1, <1>2, <1>4, SpawnAssumption, Zenon DEF Restores
    <2>3. QED
        BY <1>1, <1>2, <1>4, <2>1, <2>2 DEF Restores, BeforeChild, InSection
<1>9. /\ \A x \in {r, s} : x = Unset \/ Holding(t, x)
      /\ \A x : Holding(t, x)' <=> Holding(t, x) /\ x \notin {r, s}
    <2>1. \A x : Holding(t, x) <=> x # Unset /\ x \in {r, Unset, s}
        BY <1>5, HoldsNoDuplicate, Zenon
    <2>2. \A x : Holding(t, x)' <=> x # Unset /\ x \in {Unset, Unset, Unset}
        BY <1>4, <1>5, HoldsNoDuplicateNext, Zenon
    <2>3. QED
        BY <1>5, <2>1, <2>2
<1>10. thread[t].pc # "cloexec"
    BY <1>2
<1> HIDE DEF r, s
<1>11. QED
    BY <1>2, <1>4, <1>6, <1>7, <1>8, <1>9, <1>10, ClosingStep, Zenon

LEMMA PosixCleanupD ==
    ASSUME Inv, DInv, NEW t \in Threads, PosixCleanup(t)
    PROVE  DInv'
<1> DEFINE S == Range(thread[t].tmp)
<1>1. /\ DOMAIN thread = Threads /\ DOMAIN thread[t] = ThreadFields
      /\ OpenOf(t) /\ SoFar(t) /\ Restores(t) /\ OnItsWay(t) /\ Callable(req[t])
      /\ req[t] \in Request
    BY OfCall, Zenon
<1>2. /\ thread[t].pc = "cleanup" /\ UNCHANGED <<platform, req, mutex, child>>
      /\ table' = Close(table, S)
    BY Zenon DEF PosixCleanup, At
<1>3. /\ thread'[t] = [thread[t] EXCEPT !.tmp = <<>>, !.pc = "return"]
      /\ \A u \in Threads \ {t} : thread'[u] = thread[u]
    BY <1>1, Zenon DEF PosixCleanup
<1>4. /\ thread'[t].write = thread[t].write /\ thread'[t].read = thread[t].read
      /\ thread'[t].ruleset = thread[t].ruleset /\ thread'[t].tmp = <<>>
      /\ thread'[t].pc = "return" /\ thread'[t].cwd = thread[t].cwd
      /\ thread'[t].mask = thread[t].mask
      /\ thread'[t].sigmask = thread[t].sigmask /\ thread'[t].ret = thread[t].ret
    BY <1>1, <1>3, Zenon DEF ThreadFields
<1>5. /\ thread[t].read = Unset /\ thread[t].write = Unset /\ thread[t].ruleset = Unset
      /\ req[t].op # "pipe"
    BY <1>1, <1>2 DEF SoFar, WithoutPipe, OnItsWay, Callable, Request
<1>6. SoFar(t)'
    BY <1>1, <1>2, <1>4, <1>5 DEF SoFar, WithPipe, WithoutPipe
<1>7. LeavesOthers(t)
    BY <1>2, <1>3, SameMutex, Zenon DEF LeavesOthers
<1>8. Restores(t)'
    <2>1. mutex' # t /\ HasMutex' = HasMutex
        BY <1>1, <1>2 DEF HasMutex, Restores, InSection
    <2>2. thread'[t].mask = OwnMask /\ RestoredMask(t)' = OwnMask
        BY <1>1, <1>2, <1>4, <1>5, Zenon DEF Restores, RestoredMask
    <2>3. QED
        BY <1>1, <1>2, <1>4, <2>1, <2>2 DEF Restores, BeforeChild, InSection
<1>9. /\ \A x \in S : x = Unset \/ Holding(t, x)
      /\ \A x : Holding(t, x)' <=> Holding(t, x) /\ x \notin S
    <2>1. \A x : ~Holding(t, x)'
        BY <1>4, <1>5, HoldsNoDuplicateNext, ZenonT(60)
    <2>2. QED
        BY <1>5, <2>1, Zenon DEF Holding
<1>10. thread[t].pc # "cloexec"
    BY <1>2
<1> HIDE DEF S
<1>11. QED
    BY <1>2, <1>4, <1>6, <1>7, <1>8, <1>9, <1>10, ClosingStep, Zenon

(* Both branches of MakePipe and SetCloexec that fail.                     *)
LEMMA PipeFailsD ==
    ASSUME Inv, DInv, NEW t \in Threads, thread[t].pc = "pipe", Leave(t),
           UNCHANGED <<platform, req, table, child>>,
           thread' = [thread EXCEPT ![t].pc = "return", ![t].ret = "error"]
    PROVE  DInv'
<1>1. /\ DOMAIN thread = Threads /\ DOMAIN thread[t] = ThreadFields /\ Restores(t)
    BY OfCall, Zenon
<1>2. /\ Moves(t) /\ thread'[t].pc = "return" /\ thread'[t].cwd = "process"
      /\ thread'[t].ret = "error"
    BY <1>1, MovesWithResult, ZenonT(60) DEF Restores
<1>3. <<"pipe", "return">> \in Routes /\ "return" \notin InSection
    BY Zenon DEF Routes, InSection
<1>4. \A u \in Threads : Process(u)'
    BY SameProcesses, Zenon
<1>5. QED
    BY <1>2, <1>3, <1>4, MovesStep, LeavesMutex, Zenon

(* What the places after the pipe was made ask of a call.                  *)
LEMMA PipeMade ==
    ASSUME Inv, DInv, NEW t \in Threads, thread[t].pc \in {"pipe", "cloexec"},
           UNCHANGED <<platform, req, mutex>>,
           \A u \in Threads \ {t} : thread'[u] = thread[u],
           thread'[t].pc \in {"cloexec", PipeReady(t)},
           thread'[t].pc = "cloexec" => HasMutex,
           thread'[t].read \in Nat, thread'[t].write \in Nat,
           thread'[t].ruleset = thread[t].ruleset, thread'[t].tmp = thread[t].tmp,
           thread'[t].cwd = thread[t].cwd, thread'[t].mask = thread[t].mask,
           thread'[t].sigmask = thread[t].sigmask, thread'[t].ret = thread[t].ret
    PROVE  SoFar(t)' /\ Restores(t)' /\ LeavesOthers(t) /\ thread[t].tmp = <<>>
<1>1. /\ SoFar(t) /\ Restores(t) /\ OnItsWay(t) /\ Callable(req[t]) /\ req[t] \in Request
      /\ platform \in {"linux", "haiku", "macos", "windows"}
    BY OfCall, Zenon
<1>2. thread'[t].pc \in {"cloexec", "leave", "fork"}
    BY Zenon DEF PipeReady
<1>3. thread'[t].read # Unset /\ thread'[t].write # Unset
    BY DEF Unset
<1>4. thread[t].tmp = <<>> /\ platform # "windows"
    BY <1>1 DEF SoFar, OnItsWay, Callable, Request, Forks
<1>5. SoFar(t)'
    BY <1>1, <1>2, <1>3, <1>4 DEF SoFar, WithPipe, WithoutPipe
<1>6. Restores(t)'
    <2>1. HasMutex' = HasMutex
        BY Zenon DEF HasMutex
    <2>2. mutex' = t <=> HasMutex
        BY <1>1 DEF Restores, InSection
    <2>3. thread'[t].mask = OwnMask /\ thread'[t].sigmask = ChildSigmask(req[t], OwnMask)
        BY <1>1 DEF Restores, BeforeChild
    <2>4. QED
        BY <1>1, <1>2, <2>1, <2>2, <2>3, SMTT(60) DEF Restores, BeforeChild, InSection
<1>7. LeavesOthers(t)
    BY SameMutex, Zenon DEF LeavesOthers
<1>8. QED
    BY <1>4, <1>5, <1>6, <1>7, Zenon

LEMMA MakePipeD ==
    ASSUME Inv, DInv, TakesFree, NEW t \in Threads, MakePipe(t)
    PROVE  DInv'
<1>1. /\ DOMAIN thread = Threads /\ DOMAIN thread[t] = ThreadFields
      /\ OpenOf(t) /\ SoFar(t) /\ Restores(t) /\ OnItsWay(t) /\ Callable(req[t])
      /\ req[t] \in Request /\ platform \in {"linux", "haiku", "macos", "windows"}
    BY OfCall, Zenon
<1>2. thread[t].pc = "pipe" /\ UNCHANGED <<platform, req, child>>
    BY Zenon DEF MakePipe, At
<1>3. CASE /\ Cardinality(Free(table)) >= 2 /\ UNCHANGED mutex
           /\ table' = Install(Install(table, LowestTwo(table)[1], ReadEnd(t), platform = "linux"),
                               LowestTwo(table)[2], WriteEnd(t), platform = "linux")
           /\ thread' = [thread EXCEPT ![t].read = LowestTwo(table)[1],
                            ![t].write = LowestTwo(table)[2],
                            ![t].pc = IF platform = "linux" THEN PipeReady(t) ELSE "cloexec"]
    <2> DEFINE r == LowestTwo(table)[1]
               w == LowestTwo(table)[2]
               mid == Install(table, r, ReadEnd(t), platform = "linux")
               End(obj) == [obj |-> obj, cloexec |-> platform = "linux"]
    <2>1. r \in Free(table) /\ w \in Free(table) /\ r # w
        BY <1>3, Zenon DEF TakesFree
    <2>2. /\ r \notin DOMAIN table /\ w \notin DOMAIN table /\ r \in Nat /\ w \in Nat
          /\ r # Unset /\ w # Unset
        BY <2>1, SpawnAssumption DEF Free, Unset
    <2> HIDE DEF End
    <2>3. /\ DOMAIN table' = DOMAIN mid \union {w} /\ table'[w] = End(WriteEnd(t))
          /\ \A x \in DOMAIN mid : x # w => table'[x] = mid[x]
        <3>1. table' = Install(mid, w, WriteEnd(t), platform = "linux")
            BY <1>3, Zenon
        <3> HIDE DEF mid, w
        <3>2. QED
            BY <3>1, Zenon DEF Install, End
    <2>4. /\ thread'[t].read = r /\ thread'[t].write = w
          /\ thread'[t].ruleset = thread[t].ruleset /\ thread'[t].tmp = thread[t].tmp
          /\ thread'[t].cwd = thread[t].cwd /\ thread'[t].mask = thread[t].mask
          /\ thread'[t].sigmask = thread[t].sigmask /\ thread'[t].ret = thread[t].ret
          /\ thread'[t].pc = IF platform = "linux" THEN PipeReady(t) ELSE "cloexec"
          /\ \A u \in Threads \ {t} : thread'[u] = thread[u]
        BY <1>1, <1>3, Zenon DEF ThreadFields
    <2> HIDE DEF r, w
    <2>5. /\ DOMAIN mid = DOMAIN table \union {r} /\ mid[r] = End(ReadEnd(t))
          /\ \A x \in DOMAIN table : mid[x] = table[x]
        BY <2>2, Zenon DEF Install, End
    <2> HIDE DEF mid
    <2>6. /\ DOMAIN table' = DOMAIN table \union {r, w} /\ table'[r] = End(ReadEnd(t))
          /\ \A x \in DOMAIN table : table'[x] = table[x]
        BY <2>1, <2>2, <2>3, <2>5, Zenon
    <2>7. platform # "linux" => HasMutex
        BY <1>1, <1>2 DEF HasMutex, OnItsWay, Callable, Request, Forks
    <2>8. thread'[t].pc \in {"cloexec", PipeReady(t)} /\ (thread'[t].pc = "cloexec" => HasMutex)
        <3>1. PipeReady(t) # "cloexec"
            BY Zenon DEF PipeReady
        <3>2. QED
            BY <2>4, <2>7, <3>1, Zenon
    <2>9. SoFar(t)' /\ Restores(t)' /\ LeavesOthers(t) /\ thread[t].tmp = <<>>
        BY <1>2, <1>3, <2>2, <2>4, <2>8, PipeMade, ZenonT(60)
    <2>10. thread[t].read = Unset /\ thread[t].write = Unset
        BY <1>1, <1>2 DEF SoFar, WithoutPipe
    <2>11. /\ \A x : Holding(t, x) <=> x # Unset /\ x = thread[t].ruleset
           /\ \A x : Holding(t, x)' <=> x # Unset /\ x \in {r, w, thread[t].ruleset}
        <3>1. \A x : Holding(t, x) <=> x # Unset /\ x \in {Unset, Unset, thread[t].ruleset}
            BY <2>9, <2>10, HoldsNoDuplicate, Zenon
        <3>2. \A x : Holding(t, x)' <=> x # Unset /\ x \in {r, w, thread[t].ruleset}
            BY <2>4, <2>9, HoldsNoDuplicateNext, Zenon
        <3>3. QED
            BY <3>1, <3>2, Zenon
    <2>12. /\ \A obj : End(obj).cloexec \in BOOLEAN
           /\ \A obj : End(obj) \in {Closing(obj), Inherited(obj)}
           /\ platform = "linux" => \A obj : End(obj) = Closing(obj)
        BY ZenonT(60) DEF End, Closing, Inherited
    <2>13. OnlyOwn(t)
        <3>1. \A x : Holding(t, x)' <=> Holding(t, x) \/ x \in {r, w}
            BY <2>2, <2>11
        <3>2. \A x \in {r, w} : table'[x].cloexec \in BOOLEAN
            BY <2>3, <2>6, <2>12, Zenon
        <3>3. {r, w} \subseteq Free(table)
            BY <2>1, Zenon
        <3>4. QED
            BY <2>6, <3>1, <3>2, <3>3, OpensOwn, ZenonT(60)
    <2>14. OpenOf(t)'
        <3>1. \A x : Holding(t, x) => x \in DOMAIN table /\ x \notin 0 .. 4
            BY <1>1, Zenon DEF OpenOf
        <3>2. \A x \in 0 .. 4 : x \in DOMAIN table
            BY Zenon DEF DInv, Accounted
        <3>3. \A x : Holding(t, x)' => x \in DOMAIN table' /\ x \notin 0 .. 4
            BY <2>2, <2>6, <2>11, <3>1, <3>2, Zenon
        <3>4. thread[t].ruleset # Unset =>
                 /\ thread[t].ruleset \in DOMAIN table
                 /\ table[thread[t].ruleset] = Closing(Ruleset(t))
            BY <1>1, <2>11, <3>1, Zenon DEF OpenOf
        <3>5. 1 .. Len(thread'[t].tmp) = {}
            BY <2>4, <2>9
        <3>6. thread'[t].pc # "cloexec" => platform = "linux"
            BY <2>4, Zenon
        <3>7. r # thread[t].ruleset /\ w # thread[t].ruleset
            BY <2>2, <3>4, Zenon
        <3>8. /\ table'[r] \in {Closing(ReadEnd(t)), Inherited(ReadEnd(t))}
              /\ thread'[t].pc # "cloexec" => table'[r] = Closing(ReadEnd(t))
            BY <2>6, <2>12, <3>6, Zenon
        <3>9. /\ table'[w] \in {Closing(WriteEnd(t)), Inherited(WriteEnd(t))}
              /\ thread'[t].pc # "cloexec" => table'[w] = Closing(WriteEnd(t))
            BY <2>3, <2>12, <3>6, Zenon
        <3>10. thread'[t].ruleset # Unset => table'[thread'[t].ruleset] = Closing(Ruleset(t))
            BY <2>4, <2>6, <3>4, Zenon
        <3>11. /\ thread'[t].read \notin {thread'[t].write, thread'[t].ruleset}
               /\ thread'[t].write # thread'[t].ruleset
            BY <2>1, <2>4, <3>7, Zenon
        <3>12. QED
            BY <2>4, <3>3, <3>5, <3>8, <3>9, <3>10, <3>11, Zenon DEF OpenOf
    <2>15. QED
        BY <1>2, <2>9, <2>13, <2>14, TableStep, Zenon
<1>4. CASE /\ UNCHANGED table /\ Leave(t)
           /\ thread' = [thread EXCEPT ![t].pc = "return", ![t].ret = "error"]
    BY <1>2, <1>4, PipeFailsD, Zenon
<1>5. QED
    BY <1>3, <1>4, Zenon DEF MakePipe

LEMMA SetCloexecD ==
    ASSUME Inv, DInv, NEW t \in Threads, SetCloexec(t)
    PROVE  DInv'
<1> DEFINE r == thread[t].read
           w == thread[t].write
           s == thread[t].ruleset
           fd == IF table[r].cloexec THEN w ELSE r
<1>1. /\ DOMAIN thread = Threads /\ DOMAIN thread[t] = ThreadFields
      /\ OpenOf(t) /\ SoFar(t) /\ Restores(t) /\ OnItsWay(t)
    BY OfCall, Zenon
<1>2. thread[t].pc = "cloexec" /\ UNCHANGED <<platform, req, child>>
    BY Zenon DEF SetCloexec, At
<1>3. /\ r # Unset /\ w # Unset /\ r # w /\ r # s /\ w # s /\ thread[t].tmp = <<>>
      /\ HasMutex
    BY <1>1, <1>2, SMTT(60) DEF SoFar, WithPipe, OpenOf, Restores
<1>4. \A x : Holding(t, x) <=> x # Unset /\ x \in {r, w, s}
    BY <1>3, HoldsNoDuplicate, Zenon
<1>5. /\ r \in DOMAIN table /\ w \in DOMAIN table /\ r \notin 0 .. 4 /\ w \notin 0 .. 4
      /\ table[r] \in {Closing(ReadEnd(t)), Inherited(ReadEnd(t))}
      /\ table[w] \in {Closing(WriteEnd(t)), Inherited(WriteEnd(t))}
      /\ s # Unset => /\ s \in DOMAIN table /\ s \notin 0 .. 4
                      /\ table[s] = Closing(Ruleset(t))
    <2>1. Holding(t, r) /\ Holding(t, w) /\ (s # Unset => Holding(t, s))
        BY <1>3, <1>4, Zenon
    <2>2. QED
        BY <1>1, <1>3, <2>1, Zenon DEF OpenOf
<1>6. r \in Nat /\ w \in Nat
    BY <1>5, SpawnAssumption DEF DInv, Accounted
<1>7. CASE /\ table' = [table EXCEPT ![fd].cloexec = TRUE] /\ UNCHANGED mutex
           /\ thread' = [thread EXCEPT ![t].pc = IF fd = w THEN PipeReady(t) ELSE @]
    <2>1. fd \in {r, w} /\ (fd = w => table[r].cloexec)
        BY <1>3, Zenon
    <2>2. /\ thread'[t].read = r /\ thread'[t].write = w /\ thread'[t].ruleset = s
          /\ thread'[t].tmp = thread[t].tmp
          /\ thread'[t].cwd = thread[t].cwd /\ thread'[t].mask = thread[t].mask
          /\ thread'[t].sigmask = thread[t].sigmask /\ thread'[t].ret = thread[t].ret
          /\ thread'[t].pc = IF fd = w THEN PipeReady(t) ELSE "cloexec"
          /\ \A u \in Threads \ {t} : thread'[u] = thread[u]
        BY <1>1, <1>2, <1>7, Zenon DEF ThreadFields
    <2>3. /\ DOMAIN table' = DOMAIN table /\ \A x \in DOMAIN table \ {fd} : table'[x] = table[x]
          /\ fd \in DOMAIN table => table'[fd] = [table[fd] EXCEPT !.cloexec = TRUE]
        BY <1>7, Zenon
    <2> HIDE DEF r, w, s, fd
    <2>4. fd = r => table'[r] = Closing(ReadEnd(t))
        BY <1>5, <2>3 DEF Closing, Inherited
    <2>5. fd = w => table'[w] = Closing(WriteEnd(t))
        BY <1>5, <2>3 DEF Closing, Inherited
    <2>6. fd = w => table[r] = Closing(ReadEnd(t))
        BY <1>5, <2>1 DEF Closing, Inherited
    <2>7. /\ table'[r] \in {Closing(ReadEnd(t)), Inherited(ReadEnd(t))}
          /\ table'[w] \in {Closing(WriteEnd(t)), Inherited(WriteEnd(t))}
          /\ fd = w => table'[r] = Closing(ReadEnd(t))
        BY <1>3, <1>5, <2>1, <2>3, <2>4, <2>5, <2>6, Zenon
    <2>8. thread'[t].pc \in {"cloexec", PipeReady(t)} /\ (thread'[t].pc # "cloexec" => fd = w)
        BY <2>2, Zenon
    <2>9. SoFar(t)' /\ Restores(t)' /\ LeavesOthers(t)
        BY <1>2, <1>3, <1>6, <1>7, <2>2, <2>8, PipeMade
    <2>10. \A x : Holding(t, x)' <=> Holding(t, x)
        BY <2>2, Zenon DEF Holding, r, w, s
    <2>11. OnlyOwn(t)
        <3>1. Holding(t, fd)
            BY <1>3, <1>4, <2>1, Zenon
        <3>2. \A x \in DOMAIN table : x \in 0 .. MaxFd /\ table[x].cloexec \in BOOLEAN
            BY Zenon DEF DInv, Accounted
        <3>3. table'[fd].cloexec \in BOOLEAN
            BY <2>1, <2>4, <2>5, ClosingFlag, Zenon
        <3>4. QED
            BY <2>3, <2>10, <3>1, <3>2, <3>3, Zenon DEF OnlyOwn
    <2>12. OpenOf(t)'
        <3>1. \A x : Holding(t, x)' => x \in DOMAIN table' /\ x \notin 0 .. 4
            BY <1>1, <2>3, <2>10, Zenon DEF OpenOf
        <3>2. 1 .. Len(thread'[t].tmp) = {}
            BY <1>3, <2>2
        <3>3. s # Unset => table'[s] = Closing(Ruleset(t))
            BY <1>3, <1>5, <2>1, <2>3, Zenon
        <3>4. QED
            BY <1>3, <2>2, <2>5, <2>7, <2>8, <3>1, <3>2, <3>3, Zenon DEF OpenOf
    <2>13. QED
        BY <1>2, <2>9, <2>11, <2>12, TableStep, Zenon
<1>8. CASE /\ table' = Close(table, {r, w}) /\ Leave(t)
           /\ thread' = [thread EXCEPT ![t].read = Unset, ![t].write = Unset,
                                       ![t].pc = "return", ![t].ret = "error"]
    <2>1. /\ thread'[t].read = Unset /\ thread'[t].write = Unset /\ thread'[t].ruleset = s
          /\ thread'[t].tmp = thread[t].tmp
          /\ thread'[t].cwd = thread[t].cwd /\ thread'[t].mask = thread[t].mask
          /\ thread'[t].sigmask = thread[t].sigmask /\ thread'[t].ret = "error"
          /\ thread'[t].pc = "return"
          /\ \A u \in Threads \ {t} : thread'[u] = thread[u]
        BY <1>1, <1>8, Zenon DEF ThreadFields
    <2>2. SoFar(t)'
        BY <1>1, <1>2, <1>3, <2>1 DEF SoFar, WithPipe, WithoutPipe
    <2>3. LeavesOthers(t)
        BY <1>2, <1>8, <2>1, LeavesMutex, Zenon DEF LeavesOthers
    <2>4. Restores(t)'
        <3>1. mutex' # t /\ HasMutex' = HasMutex
            BY <1>2, <1>8, LeavesMutex, Zenon DEF HasMutex
        <3>2. thread'[t].mask = OwnMask
            BY <1>1, <1>2, <2>1, SMTT(60) DEF Restores, BeforeChild
        <3>3. RestoredMask(t)' = OwnMask
            BY <2>1, <3>2, Zenon DEF RestoredMask
        <3>4. QED
            BY <1>1, <1>2, <2>1, <3>1, <3>2, <3>3, SMTT(60) DEF Restores, BeforeChild, InSection
    <2>5. /\ \A x \in {r, w} : x = Unset \/ Holding(t, x)
          /\ \A x : Holding(t, x)' <=> Holding(t, x) /\ x \notin {r, w}
        <3>1. \A x : Holding(t, x)' <=> x # Unset /\ x \in {Unset, Unset, s}
            BY <1>3, <2>1, HoldsNoDuplicateNext, Zenon
        <3>2. QED
            BY <1>3, <1>4, <3>1
    <2>6. thread'[t].ruleset = thread[t].ruleset
        BY <2>1, Zenon
    <2> HIDE DEF r, w, s
    <2>7. QED
        BY <1>2, <1>8, <2>1, <2>2, <2>3, <2>4, <2>5, <2>6, ClosingStep, Zenon
<1>9. QED
    BY <1>7, <1>8, Zenon DEF SetCloexec

LEMMA InheritedFlag ==
    ASSUME NEW obj
    PROVE  /\ Inherited(obj).cloexec \in BOOLEAN /\ ~Inherited(obj).cloexec
           /\ Inherited(obj).obj = obj
BY DEF Inherited

LEMMA OwnObjects ==
    \A x \in 0 .. 4 : OwnTable[x].obj = File(x) /\ OwnTable[x].cloexec = (x > 2)
BY DEF OwnTable

LEMMA RangeAppend ==
    ASSUME NEW q \in Seq(Nat), NEW x \in Nat
    PROVE  /\ Append(q, x) \in Seq(Nat) /\ Len(Append(q, x)) = Len(q) + 1
           /\ Range(Append(q, x)) = Range(q) \union {x}
           /\ \A i \in 1 .. Len(q) : Append(q, x)[i] = q[i]
           /\ Append(q, x)[Len(q) + 1] = x
<1>1. /\ Append(q, x) \in Seq(Nat) /\ Len(Append(q, x)) = Len(q) + 1
      /\ \A i \in 1 .. Len(q) : Append(q, x)[i] = q[i]
      /\ Append(q, x)[Len(q) + 1] = x
    OBVIOUS
<1>2. DOMAIN q = 1 .. Len(q) /\ DOMAIN Append(q, x) = 1 .. Len(q) + 1 /\ Len(q) \in Nat
    BY <1>1
<1>3. 1 .. Len(q) + 1 = (1 .. Len(q)) \union {Len(q) + 1}
    BY <1>2
<1>4. Range(Append(q, x)) = Range(q) \union {x}
    BY <1>1, <1>2, <1>3 DEF Range
<1>5. QED
    BY <1>1, <1>4, Zenon

(* safe_dup gives a free descriptor above 2.                               *)
LEMMA SafeDupIsFree ==
    ASSUME TakesFree, NEW tab, DupTargets(tab) # {}
    PROVE  SafeDup(tab) \in Free(tab) /\ SafeDup(tab) \notin 0 .. 2 /\ SafeDup(tab) \in Nat
<1>1. DupTargets(tab) \subseteq Nat
    BY SpawnAssumption DEF DupTargets, Free
<1>2. SafeDup(tab) \in DupTargets(tab)
    BY Zenon DEF TakesFree
<1>3. QED
    BY <1>1, <1>2, Zenon DEF DupTargets

LEMMA PosixDupD ==
    ASSUME Inv, DInv, TakesFree, NEW t \in Threads, PosixDup(t)
    PROVE  DInv'
<1> DEFINE q == thread[t].tmp
           i == Len(q) + 1
           fd == SafeDup(table)
           obj == table[req[t].std[i]].obj
<1>1. /\ DOMAIN thread = Threads /\ DOMAIN thread[t] = ThreadFields
      /\ OpenOf(t) /\ SoFar(t) /\ Restores(t) /\ OnItsWay(t) /\ Callable(req[t])
      /\ req[t] \in Request
    BY OfCall, Zenon
<1>2. /\ thread[t].pc = "prepare" /\ UNCHANGED <<platform, req, mutex, child>>
      /\ i <= 3 /\ DupTargets(table) # {}
      /\ table' = Install(table, fd, obj, FALSE)
    BY Zenon DEF PosixDup, At
<1>3. fd \in Free(table) /\ fd \notin 0 .. 2 /\ fd \in Nat /\ fd \notin DOMAIN table
    <2>1. fd \in Free(table) /\ fd \notin 0 .. 2 /\ fd \in Nat
        BY <1>2, SafeDupIsFree, Zenon
    <2>2. QED
        BY <2>1, Zenon DEF Free
<1>4. /\ thread'[t].tmp = Append(q, fd) /\ \A u \in Threads \ {t} : thread'[u] = thread[u]
      /\ thread'[t].read = thread[t].read /\ thread'[t].write = thread[t].write
      /\ thread'[t].ruleset = thread[t].ruleset /\ thread'[t].pc = thread[t].pc
      /\ thread'[t].cwd = thread[t].cwd /\ thread'[t].mask = thread[t].mask
      /\ thread'[t].saved = thread[t].saved
      /\ thread'[t].sigmask = thread[t].sigmask /\ thread'[t].ret = thread[t].ret
    BY <1>1, Zenon DEF PosixDup, ThreadFields
<1>5. q \in Seq(Nat) /\ Len(q) \in Nat /\ i \in 1 .. 3
    <2>1. q \in Seq(Nat)
        BY <1>1, Zenon DEF SoFar
    <2>2. QED
        BY <1>2, <2>1, SMTT(60)
<1>6. obj = File(req[t].std[i])
    <2>1. req[t].std[i] \in 0 .. 3
        BY <1>1, <1>5, Zenon DEF Request
    <2>2. req[t].std[i] \in 0 .. 4
        BY <2>1
    <2>3. table[req[t].std[i]] = OwnTable[req[t].std[i]]
        BY <2>2, Zenon DEF DInv, Accounted
    <2>4. QED
        BY <2>2, <2>3, OwnObjects, Zenon
<1> HIDE DEF q, obj, fd
<1>7. /\ DOMAIN table' = DOMAIN table \union {fd} /\ table'[fd] = Inherited(obj)
      /\ \A x \in DOMAIN table : table'[x] = table[x]
    BY <1>2, <1>3, Zenon DEF Install, Inherited
<1>8. /\ thread'[t].tmp \in Seq(Nat) /\ Len(thread'[t].tmp) = i
      /\ Range(thread'[t].tmp) = Range(q) \union {fd}
      /\ \A j \in 1 .. Len(q) : thread'[t].tmp[j] = q[j]
      /\ thread'[t].tmp[i] = fd
    <2>1. /\ Append(q, fd) \in Seq(Nat) /\ Len(Append(q, fd)) = Len(q) + 1
          /\ Range(Append(q, fd)) = Range(q) \union {fd}
          /\ \A j \in 1 .. Len(q) : Append(q, fd)[j] = q[j]
          /\ Append(q, fd)[Len(q) + 1] = fd
        BY <1>3, <1>5, RangeAppend, Zenon
    <2>2. QED
        BY <1>4, <2>1, Zenon
<1>9. fd # Unset /\ \A x : Holding(t, x)' <=> Holding(t, x) \/ x \in {fd}
    <2>1. fd # Unset
        BY <1>3 DEF Unset
    <2>2. \A x : x \in Range(thread'[t].tmp) <=> x \in Range(q) \/ x = fd
        BY <1>8, Zenon
    <2>3. \A x : Holding(t, x) <=>
             x # Unset /\ (x \in {thread[t].read, thread[t].write, thread[t].ruleset} \/ x \in Range(q))
        BY Zenon DEF Holding, q
    <2>4. \A x : Holding(t, x)' <=>
             x # Unset /\ (\/ x \in {thread[t].read, thread[t].write, thread[t].ruleset}
                          \/ x \in Range(thread'[t].tmp))
        BY <1>4, Zenon DEF Holding
    <2>5. QED
        BY <2>1, <2>2, <2>3, <2>4
<1>10. OnlyOwn(t)
    <2>1. {fd} \subseteq Free(table)
        BY <1>3, Zenon
    <2>2. \A x \in {fd} : table'[x].cloexec \in BOOLEAN
        BY <1>7, InheritedFlag, Zenon
    <2>3. QED
        BY <1>7, <1>9, <2>1, <2>2, OpensOwn, Zenon
<1>11. thread[t].read = Unset /\ thread[t].write = Unset /\ thread[t].ruleset = Unset
    BY <1>1, <1>2 DEF SoFar, WithoutPipe, OnItsWay, Callable, Request
<1>12. OpenOf(t)'
    <2>1. \A x \in 0 .. 4 : x \in DOMAIN table
        BY Zenon DEF DInv, Accounted
    <2>2. \A x : Holding(t, x)' => x \in DOMAIN table' /\ x \notin 0 .. 4
        BY <1>1, <1>3, <1>7, <1>9, <2>1, SMTT(60) DEF OpenOf
    <2>3. \A j \in 1 .. Len(thread'[t].tmp) : table'[thread'[t].tmp[j]].obj = File(req[t].std[j])
        <3>1. \A j \in 1 .. Len(q) : q[j] \in DOMAIN table /\ table[q[j]].obj = File(req[t].std[j])
            <4>1. \A j \in 1 .. Len(q) : q[j] \in Range(q) /\ q[j] # Unset
                BY <1>5 DEF Range, Unset
            <4>2. \A j \in 1 .. Len(q) : Holding(t, q[j])
                BY <4>1, Zenon DEF Holding, q
            <4>3. \A j \in 1 .. Len(q) : table[q[j]].obj = File(req[t].std[j])
                BY <1>1, Zenon DEF OpenOf, q
            <4>4. \A x : Holding(t, x) => x \in DOMAIN table
                BY <1>1, Zenon DEF OpenOf
            <4>5. QED
                BY <4>2, <4>3, <4>4, Zenon
        <3>2. \A j \in 1 .. Len(q) : table'[thread'[t].tmp[j]].obj = File(req[t].std[j])
            BY <1>7, <1>8, <3>1, Zenon
        <3>3. table'[thread'[t].tmp[i]].obj = File(req[t].std[i])
            <4>1. table'[fd].obj = obj
                BY <1>7, InheritedFlag, Zenon
            <4>2. thread'[t].tmp[i] = fd
                BY <1>8, Zenon
            <4>3. QED
                BY <1>6, <4>1, <4>2
        <3>4. 1 .. i = (1 .. Len(q)) \union {i}
            BY <1>5
        <3>5. QED
            BY <1>8, <3>2, <3>3, <3>4, ZenonT(60)
    <2>4. QED
        BY <1>2, <1>4, <1>11, <2>2, <2>3, Zenon DEF OpenOf
<1>13. SoFar(t)'
    BY <1>1, <1>2, <1>4, <1>5, <1>8, <1>11, SMTT(60) DEF SoFar, WithPipe, WithoutPipe
<1>14. Restores(t)'
    BY <1>1, <1>2, <1>4, SMTT(60) DEF Restores, HasMutex, RestoredMask
<1>15. LeavesOthers(t)
    BY <1>2, <1>4, SameMutex, Zenon DEF LeavesOthers
<1>16. QED
    BY <1>2, <1>10, <1>12, <1>13, <1>14, <1>15, TableStep, Zenon

(* Steps that create a process.                                            *)

(* When a call is about to fork, every descriptor but the standard ones is *)
(* close-on-exec: a call that has still to mark its pipe holds the mutex,  *)
(* or there is no such call.                                               *)
LEMMA AllMarked ==
    ASSUME Inv, DInv, NEW t \in Threads, thread[t].pc = "fork"
    PROVE  \A fd \in DOMAIN table : fd \in 0 .. 2 \/ table[fd].cloexec
<1>1. OnItsWay(t) /\ Restores(t) /\ Forks
    <2>1. OnItsWay(t) /\ Restores(t)
        BY OfCall, Zenon
    <2>2. QED
        BY <2>1 DEF OnItsWay
<1>2. TAKE fd \in DOMAIN table
<1>3. CASE fd \in 0 .. 4
    <2>1. table[fd] = OwnTable[fd]
        BY <1>3, Zenon DEF DInv, Accounted
    <2>2. fd \in 0 .. 2 \/ fd > 2
        BY <1>3
    <2>3. QED
        BY <1>3, <2>1, <2>2, OwnObjects, Zenon
<1>4. CASE fd \notin 0 .. 4
    <2>1. PICK u \in Threads : Holding(u, fd)
        BY <1>2, <1>4, Zenon DEF DInv, Accounted
    <2>2. OpenOf(u) /\ SoFar(u) /\ Restores(u) /\ OnItsWay(u)
        BY OfCall, Zenon
    <2>3. thread[u].tmp = <<>>
        BY <1>1, <2>2 DEF SoFar, OnItsWay, Forks
    <2>4. fd # Unset /\ fd \in {thread[u].read, thread[u].write, thread[u].ruleset}
        BY <2>1, <2>3, HoldsNoDuplicate, Zenon
    <2>5. thread[u].pc # "cloexec"
        <3>1. SUFFICES ASSUME thread[u].pc = "cloexec" PROVE FALSE
            OBVIOUS
        <3>2. mutex = u
            BY <2>2, <3>1 DEF Restores, InSection
        <3>3. HasMutex
            BY <2>2, <3>1 DEF Restores
        <3>4. mutex = t
            BY <1>1, <3>3 DEF Restores, InSection
        <3>5. QED
            BY <3>1, <3>2, <3>4
    <2>6. \E obj : table[fd] = Closing(obj)
        <3>1. CASE fd = thread[u].read
            BY <2>2, <2>4, <2>5, <3>1, Zenon DEF OpenOf
        <3>2. CASE fd = thread[u].write
            BY <2>2, <2>4, <2>5, <3>2, Zenon DEF OpenOf
        <3>3. CASE fd = thread[u].ruleset
            BY <2>2, <2>4, <3>3, Zenon DEF OpenOf
        <3>4. QED
            BY <2>4, <3>1, <3>2, <3>3, Zenon
    <2>7. QED
        BY <2>6, ClosingFlag, Zenon
<1>5. QED
    BY <1>3, <1>4, Zenon

LEMMA ForkedSound ==
    ASSUME Inv, DInv, NEW t \in Threads, thread[t].pc = "fork", NEW c,
           c.st = "death", c.fds = Close(table, {thread[t].read}), c.tmp = <<>>,
           c.pending = {}, c.armed = FALSE
    PROVE  Sound(c, req[t], platform)
<1>1. OpenOf(t) /\ SoFar(t)
    BY OfCall, Zenon
<1>2. /\ DOMAIN c.fds = DOMAIN table \ {thread[t].read}
      /\ \A x \in DOMAIN c.fds : c.fds[x] = table[x]
    BY Zenon DEF Close, Restrict
<1>3. DOMAIN c.fds \subseteq 0 .. MaxFd
    BY <1>2, Zenon DEF DInv, Accounted
<1>4. \A fd \in DOMAIN c.fds : fd \in 0 .. 2 \/ c.fds[fd].cloexec
    BY <1>2, AllMarked, Zenon
<1>5. \A fd \in 0 .. 3 : fd \in DOMAIN c.fds /\ c.fds[fd].obj = File(fd)
    <2>1. TAKE fd \in 0 .. 3
    <2>2. fd \in 0 .. 4
        BY <2>1
    <2>3. fd \in DOMAIN table /\ table[fd] = OwnTable[fd]
        BY <2>2, Zenon DEF DInv, Accounted
    <2>4. fd # thread[t].read
        <3>1. thread[t].read # Unset
            BY <1>1 DEF SoFar, WithPipe
        <3>2. QED
            BY <1>1, <2>2, <3>1, Zenon DEF OpenOf, Holding
    <2>5. QED
        BY <1>2, <2>2, <2>3, <2>4, OwnObjects, Zenon
<1>6. Duplicates(c.fds, c.tmp, req[t].std, 0)
    BY DEF Duplicates
<1>7. QED
    BY <1>3, <1>4, <1>5, <1>6, ZenonT(60) DEF Sound, Starting

LEMMA ForkD ==
    ASSUME Inv, DInv, NEW t \in Threads, Fork(t)
    PROVE  DInv'
<1>1. /\ DOMAIN thread = Threads /\ DOMAIN thread[t] = ThreadFields
      /\ DOMAIN child = Threads /\ DOMAIN child[t] = ChildFields
      /\ SoFar(t) /\ Restores(t) /\ Matches(t) /\ OnItsWay(t)
    BY OfCall, Zenon
<1>2. thread[t].pc = "fork" /\ UNCHANGED <<platform, req, table, mutex>>
    BY Zenon DEF Fork, At
<1>3. PICK ret \in {"none", "error"} :
         /\ thread' = [thread EXCEPT ![t].saved = thread[t].mask, ![t].mask = Signals,
                                     ![t].pc = "forked", ![t].ret = ret]
         /\ child' = IF ret = "error" THEN child
                     ELSE [child EXCEPT ![t].st = "death", ![t].mask = Signals,
                              ![t].fds = Close(table, {thread[t].read})]
    BY Zenon DEF Fork
<1>4. /\ thread'[t].tmp = thread[t].tmp /\ \A u \in Threads \ {t} : thread'[u] = thread[u]
      /\ thread'[t].read = thread[t].read /\ thread'[t].write = thread[t].write
      /\ thread'[t].ruleset = thread[t].ruleset /\ thread'[t].pc = "forked"
      /\ thread'[t].cwd = thread[t].cwd /\ thread'[t].mask = Signals
      /\ thread'[t].saved = thread[t].mask
      /\ thread'[t].sigmask = thread[t].sigmask /\ thread'[t].ret = ret
    BY <1>1, <1>3, Zenon DEF ThreadFields
<1>5. \A u \in Threads : Process(u)'
    <2>1. CASE ret = "error"
        BY <1>2, <1>3, <2>1, SameProcesses, Zenon
    <2>2. CASE ret = "none"
        <3>1. child[t] = NoChild
            BY <1>1, <1>2 DEF Matches, BeforeChild
        <3>2. /\ child'[t] = [NoChild EXCEPT !.st = "death", !.mask = Signals,
                                 !.fds = Close(table, {thread[t].read})]
              /\ \A u \in Threads \ {t} : child'[u] = child[u]
            BY <1>1, <1>3, <2>2, <3>1
        <3>3. /\ child'[t].st = "death" /\ child'[t].fds = Close(table, {thread[t].read})
              /\ child'[t].tmp = <<>> /\ child'[t].pending = {} /\ child'[t].armed = FALSE
            BY <3>2, Zenon DEF NoChild
        <3>4. Sound(child'[t], req[t], platform)
            BY <1>2, <3>3, ForkedSound, Zenon
        <3>5. QED
            BY <1>2, <3>2, <3>4, OneProcess, Zenon
    <2>3. QED
        BY <2>1, <2>2
<1>6. SoFar(t)'
    BY <1>1, <1>2, <1>4, SMTT(60) DEF SoFar, WithPipe, WithoutPipe
<1>7. Restores(t)'
    <2>1. HasMutex' = HasMutex /\ (mutex' = t <=> HasMutex)
        BY <1>1, <1>2, SMTT(60) DEF HasMutex, Restores, InSection
    <2>2. thread[t].mask = OwnMask /\ ret \in {"none", "ok", "error"}
        BY <1>1, <1>2, SMTT(60) DEF Restores, BeforeChild
    <2>3. QED
        BY <1>1, <1>2, <1>4, <2>1, <2>2, SMTT(60) DEF Restores, BeforeChild, InSection
<1>8. LeavesOthers(t)
    BY <1>2, <1>4, SameMutex, Zenon DEF LeavesOthers
<1>9. thread[t].pc # "cloexec"
    BY <1>2, SMTT(60)
<1>10. QED
    BY <1>2, <1>4, <1>5, <1>6, <1>7, <1>8, <1>9, MoveStep, Zenon

(* The descriptors an exec leaves open.                                    *)
LEMMA ExecKeeps ==
    ASSUME NEW tab
    PROVE  /\ DOMAIN AfterExec(tab) = {x \in DOMAIN tab : ~tab[x].cloexec}
           /\ \A x \in DOMAIN AfterExec(tab) : AfterExec(tab)[x] = tab[x]
BY Zenon DEF AfterExec, RestrictValues, Restrict

(* The descriptors of a program that starts with three of its own.         *)
LEMMA StdOver ==
    ASSUME NEW tab, NEW obj
    PROVE  /\ DOMAIN AfterExec(WithStd(tab, obj)) =
                 (0 .. 2) \union {x \in DOMAIN tab : ~tab[x].cloexec}
           /\ \A fd \in 0 .. 2 : AfterExec(WithStd(tab, obj))[fd].obj = obj[fd + 1]
<1> DEFINE all == WithStd(tab, obj)
<1>1. /\ DOMAIN all = DOMAIN tab \union (0 .. 2)
      /\ \A fd \in 0 .. 2 : all[fd] = [obj |-> obj[fd + 1], cloexec |-> FALSE]
      /\ \A x \in DOMAIN tab \ (0 .. 2) : all[x] = tab[x]
    BY Zenon DEF WithStd
<1>2. \A fd \in 0 .. 2 : ~all[fd].cloexec /\ all[fd].obj = obj[fd + 1]
    BY <1>1
<1> HIDE DEF all
<1>3. DOMAIN AfterExec(all) = {x \in DOMAIN all : ~all[x].cloexec}
    BY ExecKeeps, Zenon
<1>4. \A x \in DOMAIN AfterExec(all) : AfterExec(all)[x] = all[x]
    BY ExecKeeps, Zenon
<1>5. DOMAIN AfterExec(all) = (0 .. 2) \union {x \in DOMAIN tab : ~tab[x].cloexec}
    BY <1>1, <1>2, <1>3
<1>6. \A fd \in 0 .. 2 : AfterExec(all)[fd].obj = obj[fd + 1]
    BY <1>2, <1>4, <1>5, Zenon
<1>7. QED
    BY <1>5, <1>6, Zenon DEF all

(* A program that a call starts without a fork.                            *)
LEMMA StartedSound ==
    ASSUME NEW c, NEW r \in Request, NEW p, NEW tab, NEW obj,
           c.st = "execd", c.fds = AfterExec(WithStd(tab, obj)),
           c.pending = {}, c.armed = FALSE, DOMAIN tab \subseteq 0 .. MaxFd,
           \A i \in 1 .. 3 : obj[i] = File(r.std[i]),
           p # "windows" => c.mask = ChildSigmask(r, OwnMask),
           p # "macos" => \A x \in DOMAIN tab : x \in 0 .. 2 \/ tab[x].cloexec
    PROVE  Sound(c, r, p)
<1>1. /\ DOMAIN c.fds = (0 .. 2) \union {x \in DOMAIN tab : ~tab[x].cloexec}
      /\ \A fd \in 0 .. 2 : c.fds[fd].obj = obj[fd + 1]
    <2>1. /\ DOMAIN AfterExec(WithStd(tab, obj)) =
                (0 .. 2) \union {x \in DOMAIN tab : ~tab[x].cloexec}
          /\ \A fd \in 0 .. 2 : AfterExec(WithStd(tab, obj))[fd].obj = obj[fd + 1]
        BY StdOver, Zenon
    <2>2. QED
        BY <2>1
<1>2. \A fd \in 0 .. 2 : c.fds[fd].obj = File(r.std[fd + 1])
    <2>1. \A fd \in 0 .. 2 : fd + 1 \in 1 .. 3
        OBVIOUS
    <2>2. QED
        BY <1>1, <2>1, Zenon
<1>3. DOMAIN c.fds \subseteq 0 .. MaxFd
    <2>1. \A fd \in 0 .. 2 : fd \in 0 .. MaxFd
        BY SpawnAssumption
    <2>2. QED
        BY <1>1, <2>1, Zenon
<1>4. p # "macos" => DOMAIN c.fds = 0 .. 2
    BY <1>1, Zenon
<1>5. QED
    BY <1>2, <1>3, <1>4, SMTT(60) DEF Sound, Starting

LEMMA PosixSpawnD ==
    ASSUME Inv, DInv, NEW t \in Threads, PosixSpawn(t)
    PROVE  DInv'
<1> DEFINE tmp == thread[t].tmp
           std == [i \in 1 .. 3 |-> table[tmp[i]].obj]
           left == Close(table, Range(tmp))
           fds == AfterExec(WithStd(left, std))
           mask == thread[t].sigmask
<1>1. /\ DOMAIN thread = Threads /\ DOMAIN thread[t] = ThreadFields
      /\ DOMAIN child = Threads /\ DOMAIN child[t] = ChildFields
      /\ OpenOf(t) /\ SoFar(t) /\ Restores(t) /\ Matches(t) /\ OnItsWay(t) /\ req[t] \in Request
    BY OfCall, Zenon
<1>2. thread[t].pc = "posix" /\ UNCHANGED <<platform, req, table, mutex>>
    BY Zenon DEF PosixSpawn, At
<1>3. PICK ret \in {"ok", "error"} :
          /\ thread' = [thread EXCEPT ![t].cwd = "process", ![t].pc = "cleanup", ![t].ret = ret]
          /\ child' = IF ret = "error" THEN child
                      ELSE [child EXCEPT ![t].st = "execd", ![t].fds = fds, ![t].mask = mask]
    BY Zenon DEF PosixSpawn
<1>4. /\ platform = "macos" /\ child[t] = NoChild /\ mask = ChildSigmask(req[t], OwnMask)
      /\ Len(tmp) = 3
    BY <1>1, <1>2, SMTT(60) DEF OnItsWay, Matches, BeforeChild, Restores, SoFar
<1>5. \A i \in 1 .. 3 : std[i] = File(req[t].std[i])
    BY <1>1, <1>4, Zenon DEF OpenOf
<1>6. DOMAIN left \subseteq 0 .. MaxFd
    BY Zenon DEF DInv, Accounted, Close, Restrict
<1> HIDE DEF left, std
<1>7. \A u \in Threads : Process(u)'
    <2>1. CASE ret = "error"
        BY <1>2, <1>3, <2>1, SameProcesses, Zenon
    <2>2. CASE ret = "ok"
        <3> HIDE DEF fds, mask
        <3>1. /\ child'[t] = [NoChild EXCEPT !.st = "execd", !.fds = fds, !.mask = mask]
              /\ \A u \in Threads \ {t} : child'[u] = child[u]
            BY <1>1, <1>3, <1>4, <2>2
        <3>2. /\ child'[t].st = "execd" /\ child'[t].fds = fds /\ child'[t].mask = mask
              /\ child'[t].pending = {} /\ child'[t].armed = FALSE
            BY <3>1, Zenon DEF NoChild
        <3>3. Sound(child'[t], req[t], platform)
            BY <1>1, <1>4, <1>5, <1>6, <3>2, StartedSound, Zenon DEF fds
        <3>4. QED
            BY <1>2, <3>1, <3>3, OneProcess, Zenon
    <2>3. QED
        BY <2>1, <2>2
<1>8. Moves(t) /\ thread'[t].pc = "cleanup" /\ thread'[t].cwd = "process"
    <2>1. ret \in {"none", "ok", "error"}
        OBVIOUS
    <2>2. QED
        BY <1>1, <1>2, <1>3, <2>1, Zenon DEF Moves, ThreadFields
<1>9. <<"posix", "cleanup">> \in Routes /\ "cleanup" \notin InSection /\ "posix" \notin InSection
    BY Zenon DEF Routes, InSection
<1>10. mutex' # t /\ UNCHANGED mutex
    BY <1>1, <1>2, <1>9, Zenon DEF Restores
<1>11. QED
    BY <1>2, <1>7, <1>8, <1>9, <1>10, MovesStep, SameMutex, Zenon

LEMMA SpawnWindowsD ==
    ASSUME Inv, DInv, NEW t \in Threads, SpawnWindows(t)
    PROVE  DInv'
<1> DEFINE std == [i \in 1 .. 3 |-> table[req[t].std[i]].obj]
           fds == AfterExec(WithStd(table, std))
<1>1. /\ DOMAIN thread = Threads /\ DOMAIN thread[t] = ThreadFields
      /\ DOMAIN child = Threads /\ DOMAIN child[t] = ChildFields
      /\ Restores(t) /\ Matches(t) /\ OnItsWay(t) /\ req[t] \in Request
    BY OfCall, Zenon
<1>2. thread[t].pc = "windows" /\ UNCHANGED <<platform, req, table, mutex>>
    BY Zenon DEF SpawnWindows, At
<1>3. PICK ret \in {"ok", "error"} :
          /\ thread' = [thread EXCEPT ![t].pc = "return", ![t].ret = ret]
          /\ child' = IF ret = "error" THEN child
                      ELSE [child EXCEPT ![t].st = "execd", ![t].fds = fds]
    BY Zenon DEF SpawnWindows
<1>4. platform = "windows" /\ child[t] = NoChild
    BY <1>1, <1>2, SMTT(60) DEF OnItsWay, Matches, BeforeChild
<1>5. \A i \in 1 .. 3 : std[i] = File(req[t].std[i])
    <2>1. \A i \in 1 .. 3 : req[t].std[i] \in 0 .. 3
        BY <1>1, Zenon DEF Request
    <2>2. \A i \in 1 .. 3 : req[t].std[i] \in 0 .. 4
        BY <2>1
    <2>3. QED
        BY <2>2, OwnObjects, Zenon DEF DInv, Accounted
<1>6. \A x \in DOMAIN table : x \in 0 .. 2 \/ table[x].cloexec
    <2>1. ASSUME NEW u \in Threads, NEW x
          PROVE  ~Holding(u, x)
        <3>1. /\ SoFar(u) /\ Restores(u) /\ OnItsWay(u) /\ Callable(req[u]) /\ req[u] \in Request
            BY OfCall, Zenon
        <3>2. thread[u].pc \in {"idle", "windows", "return", "done"}
            BY <1>4, <3>1, SMTT(60) DEF OnItsWay, Restores, HasMutex, Callable, Forks, Request, BeforeChild
        <3>3. thread[u].read = Unset /\ thread[u].write = Unset
            BY <1>4, <3>1, <3>2, SMTT(60) DEF SoFar, Callable, WithoutPipe
        <3>4. thread[u].ruleset = Unset /\ thread[u].tmp = <<>>
            BY <1>4, <3>1, <3>2, SMTT(60) DEF SoFar, Callable, Request
        <3>5. QED
            BY <3>3, <3>4, HoldsNoDuplicate, Zenon
    <2>2. \A x \in DOMAIN table : x \in 0 .. 4 /\ table[x] = OwnTable[x]
        BY <2>1, Zenon DEF DInv, Accounted
    <2>3. \A x \in 0 .. 4 : x \in 0 .. 2 \/ x > 2
        OBVIOUS
    <2>4. QED
        BY <2>2, <2>3, OwnObjects, Zenon
<1>7. DOMAIN table \subseteq 0 .. MaxFd
    BY Zenon DEF DInv, Accounted
<1> HIDE DEF std
<1>8. \A u \in Threads : Process(u)'
    <2>1. CASE ret = "error"
        BY <1>2, <1>3, <2>1, SameProcesses, Zenon
    <2>2. CASE ret = "ok"
        <3> HIDE DEF fds
        <3>1. /\ child'[t] = [NoChild EXCEPT !.st = "execd", !.fds = fds]
              /\ \A u \in Threads \ {t} : child'[u] = child[u]
            BY <1>1, <1>3, <1>4, <2>2
        <3>2. /\ child'[t].st = "execd" /\ child'[t].fds = fds
              /\ child'[t].pending = {} /\ child'[t].armed = FALSE
            BY <3>1, Zenon DEF NoChild
        <3>3. Sound(child'[t], req[t], platform)
            BY <1>1, <1>4, <1>5, <1>6, <1>7, <3>2, StartedSound, Zenon DEF fds
        <3>4. QED
            BY <1>2, <3>1, <3>3, OneProcess, Zenon
    <2>3. QED
        BY <2>1, <2>2
<1>9. Moves(t) /\ thread'[t].pc = "return" /\ thread'[t].cwd = "process"
    <2>1. ret \in {"none", "ok", "error"} /\ thread[t].cwd = "process"
        BY <1>1, <1>2, SMTT(60) DEF Restores
    <2>2. QED
        BY <1>1, <1>2, <1>3, <2>1, MovesWithResult, ZenonT(60)
<1>10. <<"windows", "return">> \in Routes /\ "return" \notin InSection /\ "windows" \notin InSection
    BY Zenon DEF Routes, InSection
<1>11. mutex' # t /\ UNCHANGED mutex
    BY <1>1, <1>2, <1>10, Zenon DEF Restores
<1>12. QED
    BY <1>2, <1>8, <1>9, <1>10, <1>11, MovesStep, SameMutex, Zenon
=============================================================================
