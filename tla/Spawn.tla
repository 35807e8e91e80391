------------------------------- MODULE Spawn -------------------------------
(***************************************************************************)
(* The process-spawning stub, otherlibs/stdune/src/spawn_stubs.c, with the *)
(* OCaml wrapper that calls it (spawn.ml).                                 *)
(*                                                                         *)
(* Threads of one program call spawn or safe_pipe.  A call releases the    *)
(* runtime lock, so calls of several threads overlap; the child of a call  *)
(* runs beside all of them.  The platform decides which code is built:     *)
(*   linux    pipe2, vfork, PR_SET_PDEATHSIG                               *)
(*   haiku    pipe then FD_CLOEXEC under a mutex, fork                     *)
(*   macos    the same pipe and mutex, posix_spawn                         *)
(*   windows  DuplicateHandle and CreateProcess                            *)
(*                                                                         *)
(* A descriptor table is a function from open descriptors to the object    *)
(* they refer to and their close-on-exec flag.  Every system call that the *)
(* code checks may fail.  Environment, arguments and program are left out: *)
(* only whether execve succeeds matters here.                              *)
(***************************************************************************)
EXTENDS Integers, Sequences, FiniteSetsExt, Functions

CONSTANTS
    Threads,    \* OCaml threads that call the stub
    Platforms,  \* which of the four builds are explored
    Requests,   \* the calls made, see Request
    MaxFd,      \* the largest descriptor (RLIMIT_NOFILE)
    OwnMask     \* the signals a calling thread has blocked

Signals == {"TERM", "INT"}          \* the signals that can be blocked
File(name) == <<"file", name>>
ReadEnd(t) == <<"read", t>>
WriteEnd(t) == <<"write", t>>
Ruleset(t) == <<"ruleset", t>>

(* The descriptors the program has open when it calls: its standard ones,  *)
(* a file opened with O_CLOEXEC, and a directory.                          *)
OwnTable ==
    [fd \in 0 .. 4 |-> [obj |-> File(fd), cloexec |-> fd > 2]]

(* The arguments of a call.  std: the three descriptors to install.        *)
(* sigprocmask: a command and the signals it lists.                        *)
Request ==
    [op : {"spawn", "pipe"},
     std : [1 .. 3 -> 0 .. 3],
     cwd : {"inherit", "path", "fd"},
     setpgid : BOOLEAN,
     landlock : BOOLEAN,
     command : {"default", "setmask", "block", "unblock"},
     signals : SUBSET Signals,
     pdeathsig : {"none", "KILL", "TERM"}]

Nobody == "nobody"   \* no thread

ASSUME SpawnAssumption ==
    /\ Nobody \notin Threads
    /\ Platforms \subseteq {"linux", "haiku", "macos", "windows"}
    /\ MaxFd \in Nat /\ MaxFd > 5
    /\ OwnMask \subseteq Signals
    /\ Requests \in [Threads -> SUBSET Request]

CwdFd == 4

VARIABLES
    platform,   \* which code was built
    alive,      \* the calling program has not died
    table,      \* its descriptors
    mutex,      \* safe_pipe_mutex: the thread that holds it
    req,        \* per thread: the call it makes
    thread,     \* per thread: where it is, and the locals of its call
    child       \* per thread: the process its call created

vars == <<platform, alive, table, mutex, req, thread, child>>

Unset == -1

NoChild ==
    [st |-> "none", fds |-> <<>>, tmp |-> <<>>, mask |-> {}, 
     pending |-> {}, armed |-> FALSE, report |-> FALSE]

(* A process that is gone has no descriptors and no signals left.          *)
Gone(st, report) == [NoChild EXCEPT !.st = st, !.report = report]

Idle ==
    [pc |-> "idle", mask |-> OwnMask, saved |-> {}, cwd |-> "process",
     ruleset |-> Unset, read |-> Unset, write |-> Unset, tmp |-> <<>>,
     sigmask |-> {}, ret |-> "none"]

(* spawn.ml: Landlock policies exist on Linux only and are for programs,   *)
(* and Windows refuses a working directory given by descriptor.            *)
Callable(r) ==
    /\ r.landlock => platform = "linux" /\ r.op = "spawn"
    /\ platform = "windows" => r.op = "spawn" /\ r.cwd # "fd"

Init ==
    /\ platform \in Platforms
    /\ alive = TRUE
    /\ table = OwnTable
    /\ mutex = Nobody
    /\ req \in [Threads -> UNION {Requests[t] : t \in Threads}]
    /\ \A t \in Threads : req[t] \in Requests[t] /\ Callable(req[t])
    /\ thread = [t \in Threads |-> Idle]
    /\ child = [t \in Threads |-> NoChild]

-----------------------------------------------------------------------------
(* Descriptor tables.                                                      *)

Free(tab) == (0 .. MaxFd) \ DOMAIN tab

Install(tab, fd, obj, cloexec) ==
    [x \in DOMAIN tab \union {fd} |->
        IF x = fd THEN [obj |-> obj, cloexec |-> cloexec] ELSE tab[x]]

Close(tab, fds) == Restrict(tab, DOMAIN tab \ fds)

(* pipe and pipe2 take the two lowest descriptors that are free.           *)
LowestTwo(tab) ==
    LET r == Min(Free(tab)) IN <<r, Min(Free(tab) \ {r})>>

(* safe_dup gives the lowest free descriptor above 2: lower results are    *)
(* held during its recursion and closed again.                             *)
DupTargets(tab) == Free(tab) \ 0 .. 2

SafeDup(tab) == Min(DupTargets(tab))

(* The exec system call closes what is marked close-on-exec.               *)
AfterExec(tab) == RestrictValues(tab, LAMBDA d : ~d.cloexec)

(* A table with three objects as its standard descriptors.                 *)
WithStd(tab, obj) ==
    [fd \in DOMAIN tab \union 0 .. 2 |->
        IF fd \in 0 .. 2 THEN [obj |-> obj[fd + 1], cloexec |-> FALSE] ELSE tab[fd]]

ChildSigmaskWithDeath(r, mask) == mask \union r.signals \union {r.pdeathsig}

(* The mask of the child, relative to the one the calling thread has when  *)
(* init_spawn_info runs.                                                   *)
ChildSigmask(r, mask) ==
    CASE r.command = "default" -> {}
      [] r.command = "setmask" -> r.signals
      [] r.command = "block"   -> mask \union r.signals
      [] r.command = "unblock" -> mask \ r.signals

-----------------------------------------------------------------------------
(* The calling thread.                                                     *)

At(t, pc) == alive /\ thread[t].pc = pc

HasMutex == platform \in {"haiku", "macos"}

(* The next place of a call that goes on after init_spawn_info.            *)
Entry(r) ==
    CASE platform = "windows" -> "windows"
      [] platform = "macos" /\ r.op = "spawn" -> "prepare"
      [] OTHER -> IF HasMutex THEN "enter" ELSE "pipe"

(* Spawn.spawn or Spawn.safe_pipe is called.  With a Landlock policy,      *)
(* with_ruleset first creates a ruleset and adds its rules; if a rule      *)
(* cannot be added the ruleset is closed and the exception goes out.       *)
Begin(t) ==
    LET r == req[t]
        start == [thread[t] EXCEPT !.pc = Entry(r),
                                   !.sigmask = ChildSigmask(r, thread[t].mask)]
        raise == [thread[t] EXCEPT !.pc = "return", !.ret = "error"]
    IN
    /\ At(t, "idle")
    /\ \/ /\ thread' = [thread EXCEPT ![t] = IF r.landlock THEN raise ELSE start]
          /\ UNCHANGED table
       \/ /\ r.landlock /\ Free(table) # {}
          /\ LET fd == Min(Free(table)) IN
             /\ \E next \in {start, raise} :
                   thread' = [thread EXCEPT ![t] = [next EXCEPT !.ruleset = fd]]
             /\ table' = Install(table, fd, Ruleset(t), TRUE)
    /\ UNCHANGED <<platform, alive, mutex, req, child>>

(* Out of memory in init_spawn_info, before anything else is done.         *)
OutOfMemory(t) ==
    /\ At(t, Entry(req[t])) /\ req[t].op = "spawn" /\ platform # "windows"
    /\ thread[t].tmp = <<>>
    /\ thread' = [thread EXCEPT ![t].pc = "return", ![t].ret = "error"]
    /\ UNCHANGED <<platform, alive, table, mutex, req, child>>

MayEnterAnyway == TRUE

MayEnter == mutex = Nobody

EnterSection(t) ==
    /\ At(t, "enter") /\ MayEnter
    /\ mutex' = t
    /\ thread' = [thread EXCEPT ![t].pc = "pipe"]
    /\ UNCHANGED <<platform, alive, table, req, child>>

Leave(t) == mutex' = IF mutex = t THEN Nobody ELSE mutex

(* Where a call goes once both ends of its pipe are close-on-exec.         *)
PipeReady(t) == IF req[t].op = "pipe" THEN "leave" ELSE "fork"

(* safe_pipe.  pipe2 makes both ends close-on-exec at once, pipe does not. *)
MakePipe(t) ==
    LET p == LowestTwo(table)
        cloexec == platform = "linux"
    IN
    /\ At(t, "pipe")
    /\ \/ /\ Cardinality(Free(table)) >= 2
          /\ table' = Install(Install(table, p[1], ReadEnd(t), cloexec),
                              p[2], WriteEnd(t), cloexec)
          /\ thread' = [thread EXCEPT ![t].read = p[1], ![t].write = p[2],
                           ![t].pc = IF cloexec THEN PipeReady(t) ELSE "cloexec"]
          /\ UNCHANGED mutex
       \/ /\ Leave(t)
          /\ thread' = [thread EXCEPT ![t].pc = "return", ![t].ret = "error"]
          /\ UNCHANGED table
    /\ UNCHANGED <<platform, alive, req, child>>

(* One round of the loop of fcntl calls in safe_pipe.                      *)
SetCloexec(t) ==
    LET r == thread[t].read
        w == thread[t].write
        fd == IF table[r].cloexec THEN w ELSE r
    IN
    /\ At(t, "cloexec")
    /\ \/ /\ table' = [table EXCEPT ![fd].cloexec = TRUE]
          /\ thread' = [thread EXCEPT ![t].pc = IF fd = w THEN PipeReady(t) ELSE @]
          /\ UNCHANGED mutex
       \/ /\ table' = Close(table, {r, w})
          /\ Leave(t)
          /\ thread' = [thread EXCEPT ![t].read = Unset, ![t].write = Unset,
                                      ![t].pc = "return", ![t].ret = "error"]
    /\ UNCHANGED <<platform, alive, req, child>>

(* The end of dune_spawn_pipe.                                             *)
LeavePipe(t) ==
    /\ At(t, "leave")
    /\ Leave(t)
    /\ thread' = [thread EXCEPT ![t].pc = "done", ![t].ret = "ok"]
    /\ UNCHANGED <<platform, alive, table, req, child>>

(* Signals are blocked, then vfork or fork: the child has a copy of the    *)
(* table and first closes the reading end.                                 *)
Fork(t) ==
    /\ At(t, "fork")
    /\ \E ret \in {"none", "error"} :
          /\ thread' = [thread EXCEPT ![t].saved = thread[t].mask, ![t].mask = Signals,
                                      ![t].pc = "forked", ![t].ret = ret]
          /\ child' = IF ret = "error" THEN child
                      ELSE [child EXCEPT ![t].st = "death", ![t].mask = Signals,
                               ![t].fds = Close(table, {thread[t].read})]
    /\ UNCHANGED <<platform, alive, table, mutex, req>>

(* The states of a child that has not executed the program yet.            *)
Starting == {"death", "ppid", "setup", "dup", "dup2", "restrict", "exec"}

ClosedAtTheEnd(t) == {}

(* The parent closes its own writing end before it reads.                  *)
ClosedAfterFork(t) == {thread[t].write}

(* The parent after forking; vfork suspends it until the child has         *)
(* executed the program or is gone.                                        *)
Forked(t) ==
    /\ At(t, "forked")
    /\ platform = "linux" => child[t].st \notin Starting
    /\ Leave(t)
    /\ table' = Close(table, ClosedAfterFork(t))
    /\ thread' = [thread EXCEPT ![t].write = Unset,
                     ![t].pc = IF thread[t].ret = "error" THEN "return" ELSE "read"]
    /\ UNCHANGED <<platform, alive, req, child>>

(* No process has a writing end of the pipe of t open.                     *)
EndOfFile(t) ==
    \A tab \in {table} \union {child[u].fds : u \in Threads} :
        \A fd \in DOMAIN tab : tab[fd].obj # WriteEnd(t)

RaiseAtOnce == "return"

(* A call that is going to raise waits for its child first.                *)
RaiseAfter == "reap"

(* The read of the report: what the child wrote, or nothing once every     *)
(* writing end is closed.                                                  *)
ReadReport(t) ==
    /\ At(t, "read")
    /\ \/ /\ ~child[t].report /\ EndOfFile(t)
          /\ thread' = [thread EXCEPT ![t].pc = "return", ![t].ret = "ok"]
       \/ /\ child[t].report
          /\ thread' = [thread EXCEPT ![t].pc = RaiseAfter, ![t].ret = "error"]
    /\ UNCHANGED <<platform, alive, table, mutex, req, child>>

(* read fails by itself, or gives less than a report.                      *)
ReadFails(t) ==
    /\ At(t, "read")
    /\ thread' = [thread EXCEPT ![t].pc = RaiseAfter, ![t].ret = "error"]
    /\ UNCHANGED <<platform, alive, table, mutex, req, child>>

(* waitpid in the parent, when the call is going to raise.                 *)
WaitChild(t) ==
    /\ At(t, "reap")
    /\ child[t].st \in {"exited", "killed"}
    /\ child' = [child EXCEPT ![t] = Gone("reaped", FALSE)]
    /\ thread' = [thread EXCEPT ![t].pc = "return"]
    /\ UNCHANGED <<platform, alive, table, mutex, req>>

MaskOnSuccess(t) ==
    IF thread[t].ret = "ok" THEN thread[t].saved ELSE thread[t].mask

(* The mask is restored by every call that has made its pipe.              *)
RestoredMask(t) ==
    IF thread[t].read = Unset THEN thread[t].mask ELSE thread[t].saved

(* The end of dune_spawn_unix and of with_ruleset.                         *)
Return(t) ==
    /\ At(t, "return")
    /\ table' = Close(table, {thread[t].read, thread[t].ruleset})
    /\ thread' = [thread EXCEPT ![t].mask = RestoredMask(t), ![t].read = Unset,
                                ![t].ruleset = Unset, ![t].pc = "done"]
    /\ UNCHANGED <<platform, alive, mutex, req, child>>

-----------------------------------------------------------------------------
(* The calling thread on macOS: dune_spawn_unix with posix_spawn.  It      *)
(* takes the runtime lock but not safe_pipe_mutex.                         *)

(* posix_spawn_file_actions_init or posix_spawnattr_init fails: cleanup    *)
(* then frees a spawn_info that was never filled, which may or may not     *)
(* bring the program down.                                                 *)
PosixInitFails(t) ==
    /\ At(t, "prepare") /\ thread[t].tmp = <<>>
    /\ thread' = [thread EXCEPT ![t].pc = "cleanup", ![t].ret = "error"]
    /\ alive' \in BOOLEAN
    /\ UNCHANGED <<platform, table, mutex, req, child>>

(* One round of the loop that duplicates the descriptors; posix_spawn is   *)
(* to install them.                                                        *)
PosixDup(t) ==
    LET i == Len(thread[t].tmp) + 1
        fd == SafeDup(table)
    IN
    /\ At(t, "prepare") /\ i <= 3 /\ DupTargets(table) # {}
    /\ table' = Install(table, fd, table[req[t].std[i]].obj, FALSE)
    /\ thread' = [thread EXCEPT ![t].tmp = Append(@, fd)]
    /\ UNCHANGED <<platform, alive, mutex, req, child>>

(* The working directory of the thread; then the runtime lock is released. *)
PosixChdir(t) ==
    /\ At(t, "prepare") /\ Len(thread[t].tmp) = 3
    /\ thread' = [thread EXCEPT ![t].pc = "posix",
                     ![t].cwd = IF req[t].cwd = "inherit" THEN @ ELSE req[t].cwd]
    /\ UNCHANGED <<platform, alive, table, mutex, req, child>>

(* An attribute, a duplicate, a file action or the working directory       *)
(* cannot be set.                                                          *)
PosixFails(t) ==
    /\ At(t, "prepare")
    /\ thread' = [thread EXCEPT ![t].pc = "cleanup", ![t].ret = "error"]
    /\ UNCHANGED <<platform, alive, table, mutex, req, child>>

(* posix_spawn: the child has a copy of the table, installs and closes the *)
(* duplicates of its own call and executes the program.                    *)
PosixSpawn(t) ==
    LET tmp == thread[t].tmp
        std == [i \in 1 .. 3 |-> table[tmp[i]].obj]
    IN
    /\ At(t, "posix")
    /\ \E ret \in {"ok", "error"} :
          /\ thread' = [thread EXCEPT ![t].cwd = "process", ![t].pc = "cleanup",
                                      ![t].ret = ret]
          /\ child' = IF ret = "error" THEN child
                      ELSE [child EXCEPT ![t].st = "execd",
                               ![t].fds = AfterExec(WithStd(Close(table, Range(tmp)), std)),
                               ![t].mask = thread[t].sigmask]
    /\ UNCHANGED <<platform, alive, table, mutex, req>>

PosixCleanup(t) ==
    /\ At(t, "cleanup")
    /\ table' = Close(table, Range(thread[t].tmp))
    /\ thread' = [thread EXCEPT ![t].tmp = <<>>, ![t].pc = "return"]
    /\ UNCHANGED <<platform, alive, mutex, req, child>>

-----------------------------------------------------------------------------
(* The calling thread on Windows.  The runtime lock is held throughout, so *)
(* no other call sees the inheritable duplicates: they are made before     *)
(* CreateProcess and closed after it, on every path.                       *)
SpawnWindows(t) ==
    LET std == [i \in 1 .. 3 |-> table[req[t].std[i]].obj] IN
    /\ At(t, "windows")
    /\ \E ret \in {"ok", "error"} :
          /\ thread' = [thread EXCEPT ![t].pc = "return", ![t].ret = ret]
          /\ child' = IF ret = "error" THEN child
                      ELSE [child EXCEPT ![t].st = "execd",
                               ![t].fds = AfterExec(WithStd(table, std))]
    /\ UNCHANGED <<platform, alive, table, mutex, req>>

-----------------------------------------------------------------------------
(* The child: subprocess().                                                *)

Live(t) == child[t].st \in Starting \union {"execd"}

(* A pending signal that is not blocked; nothing blocks KILL.              *)
Deliverable(t) == child[t].pending \ child[t].mask # {}

Step(t, st) == child[t].st = st /\ ~Deliverable(t)

(* subprocess_failure: the report is written in one go, then the child     *)
(* exits.  Which call failed is not distinguished.                         *)
Failure(t) == child' = [child EXCEPT ![t] = Gone("exited", TRUE)]

ThreadVars == <<platform, alive, table, mutex, req, thread>>

(* set_parent_death_signal: prctl, then a look at who the parent is.       *)
ChildDeathSignal(t) ==
    /\ Step(t, "death")
    /\ IF platform = "linux" /\ req[t].pdeathsig # "none"
       THEN \/ child' = [child EXCEPT ![t].armed = TRUE, ![t].st = "ppid"]
            \/ Failure(t)
       ELSE child' = [child EXCEPT ![t].st = "setup"]
    /\ UNCHANGED ThreadVars

LeftToTheKernel(t) == {}

(* getppid() != parent_pid: the caller died before the prctl.              *)
SignalIfOrphan(t) == IF alive THEN {} ELSE {req[t].pdeathsig}

ChildCheckParent(t) ==
    /\ Step(t, "ppid")
    /\ \/ child' = [child EXCEPT ![t].st = "setup",
                                 ![t].pending = @ \union SignalIfOrphan(t)]
       \/ ~alive /\ Failure(t)
    /\ UNCHANGED ThreadVars

(* The process group, the default signal handlers and the working          *)
(* directory; a directory given by descriptor is closed.                   *)
ChildSetup(t) ==
    /\ Step(t, "setup")
    /\ \/ child' = [child EXCEPT ![t].st = "dup",
                       ![t].fds = IF req[t].cwd = "fd" THEN Close(@, {CwdFd}) ELSE @]
       \/ req[t].setpgid /\ Failure(t)
       \/ req[t].cwd # "inherit" /\ Failure(t)
    /\ UNCHANGED ThreadVars

(* One round of the loop of safe_dup_failure_fd.  After the last one the   *)
(* originals are closed.                                                   *)
ChildDup(t) ==
    LET c == child[t]
        i == Len(c.tmp) + 1
        fd == SafeDup(c.fds)
        duped == Install(c.fds, fd, c.fds[req[t].std[i]].obj, FALSE)
    IN
    /\ Step(t, "dup")
    /\ \/ /\ DupTargets(c.fds) # {}
          /\ child' = [child EXCEPT
                ![t].tmp = Append(@, fd),
                ![t].st = IF i = 3 THEN "dup2" ELSE @,
                ![t].fds = IF i = 3 THEN Close(duped, Range(req[t].std)) ELSE duped]
       \/ Failure(t)
    /\ UNCHANGED ThreadVars

(* One round of the loop of dup2 and close; the rounds done are those      *)
(* whose duplicate is closed.                                              *)
ChildDup2(t) ==
    LET c == child[t]
        tmp == Head(c.tmp)
        fd == 3 - Len(c.tmp)
    IN
    /\ Step(t, "dup2")
    /\ \/ child' = [child EXCEPT
             ![t].tmp = Tail(@),
             ![t].st = IF fd = 2 THEN "restrict" ELSE @,
             ![t].fds = Close(Install(@, fd, c.fds[tmp].obj, FALSE), {tmp})]
       \/ Failure(t)
    /\ UNCHANGED ThreadVars

(* apply_landlock and the signal mask of the program.                      *)
ChildRestrict(t) ==
    /\ Step(t, "restrict")
    /\ \/ child' = [child EXCEPT ![t].st = "exec",
                       ![t].fds = IF req[t].landlock
                                  THEN Close(@, {thread[t].ruleset}) ELSE @,
                       ![t].mask = thread[t].sigmask]
       \/ req[t].landlock /\ Failure(t)
    /\ UNCHANGED ThreadVars

ChildExec(t) ==
    /\ Step(t, "exec")
    /\ \/ child' = [child EXCEPT ![t].st = "execd", ![t].fds = AfterExec(@)]
       \/ Failure(t)
    /\ UNCHANGED ThreadVars

(* A signal that is pending and not blocked ends the child.                *)
ChildSignalled(t) ==
    /\ Live(t) /\ Deliverable(t)
    /\ child' = [child EXCEPT ![t] = Gone("killed", FALSE)]
    /\ UNCHANGED ThreadVars

(* Somebody else kills the child, or its program ends.                     *)
ChildEnds(t) ==
    /\ Live(t)
    /\ child' = [child EXCEPT ![t] =
                    Gone(IF child[t].st = "execd" THEN "exited" ELSE "killed", FALSE)]
    /\ UNCHANGED ThreadVars

(* The calling program dies at any moment: the kernel signals the children *)
(* that have asked for it.                                                 *)
ParentDies ==
    /\ alive
    /\ alive' = FALSE
    /\ child' = [t \in Threads |->
                    IF child[t].armed /\ Live(t)
                    THEN [child[t] EXCEPT !.pending = @ \union {req[t].pdeathsig}]
                    ELSE child[t]]
    /\ UNCHANGED <<platform, table, mutex, req, thread>>

ThreadStep(t) ==
    \/ Begin(t) \/ EnterSection(t) \/ MakePipe(t)
    \/ SetCloexec(t) \/ LeavePipe(t) \/ Fork(t) \/ Forked(t) \/ ReadReport(t)
    \/ WaitChild(t) \/ Return(t)
    \/ PosixDup(t) \/ PosixChdir(t) \/ PosixFails(t) \/ PosixSpawn(t) \/ PosixCleanup(t)
    \/ SpawnWindows(t)

ChildStep(t) ==
    \/ ChildDeathSignal(t) \/ ChildCheckParent(t) \/ ChildSetup(t)
    \/ ChildDup(t) \/ ChildDup2(t) \/ ChildRestrict(t) \/ ChildExec(t) \/ ChildSignalled(t)

(* What may happen but need not.                                           *)
Fault(t) == OutOfMemory(t) \/ ReadFails(t) \/ PosixInitFails(t) \/ ChildEnds(t)

Next ==
    \/ \E t \in Threads : ThreadStep(t) \/ ChildStep(t) \/ Fault(t)
    \/ ParentDies

Spec == Init /\ [][Next]_vars

(* The kernel runs every thread and every child that can run.  Nothing     *)
(* says that the program spawned ever ends.                                *)
FairSpec ==
    /\ Spec
    /\ \A t \in Threads : WF_vars(ThreadStep(t)) /\ WF_vars(ChildStep(t))

-----------------------------------------------------------------------------
(* Type invariant: the tables, the places of threads and children.         *)
TypeOK ==
    /\ \A fd \in DOMAIN table : fd \in 0 .. MaxFd /\ table[fd].cloexec \in BOOLEAN
    /\ mutex \in Threads \union {Nobody}
    /\ \A t \in Threads :
          /\ thread[t].mask \subseteq Signals /\ thread[t].sigmask \subseteq Signals
          /\ thread[t].ret \in {"none", "ok", "error"}
          /\ child[t].st \in Starting \union {"none", "execd", "exited", "killed", "reaped"}
          /\ DOMAIN child[t].fds \subseteq 0 .. MaxFd
          /\ child[t].pending \subseteq Signals \union {"KILL"}

(* The program runs with what was asked for: its standard descriptors are  *)
(* the three objects of the request whatever the order or repetition they  *)
(* come in, its signal mask is relative to the mask of the caller and not  *)
(* to the one the stub sets around the fork, and it has no descriptor      *)
(* besides, neither the report pipe nor a pipe another thread was making.  *)
(* The last is not so on macOS, where posix_spawn runs outside the mutex.  *)
ExecutedAsAsked ==
    \A t \in Threads :
        child[t].st = "execd" =>
            /\ \A fd \in 0 .. 2 :
                  child[t].fds[fd].obj = OwnTable[req[t].std[fd + 1]].obj
            /\ platform # "windows" => child[t].mask = ChildSigmask(req[t], OwnMask)
            /\ platform # "macos" => DOMAIN child[t].fds = 0 .. 2

(* A call that is over, on whatever path, has left the caller as it was:   *)
(* its signal mask and working directory, the mutex, and no descriptor     *)
(* but the two ends of a pipe it returns.                                  *)
CallerUndisturbed ==
    \A t \in Threads :
        thread[t].pc = "done" =>
            /\ thread[t].mask = OwnMask /\ thread[t].cwd = "process" /\ mutex # t
            /\ \A fd \in DOMAIN OwnTable : fd \in DOMAIN table /\ table[fd] = OwnTable[fd]
            /\ (req[t].op = "pipe" /\ thread[t].ret = "ok") =>
                  /\ table[thread[t].read] = [obj |-> ReadEnd(t), cloexec |-> TRUE]
                  /\ table[thread[t].write] = [obj |-> WriteEnd(t), cloexec |-> TRUE]
            /\ (\A u \in Threads : thread[u].pc \in {"idle", "done"}) =>
                  \A fd \in DOMAIN table \ DOMAIN OwnTable :
                      \E u \in Threads : /\ req[u].op = "pipe" /\ thread[u].ret = "ok"
                                         /\ fd \in {thread[u].read, thread[u].write}

(* No program outlives the caller unsignalled on Linux, even when the      *)
(* caller dies between the fork and the prctl of the child.                *)
NoOrphan ==
    \A t \in Threads :
        (~alive /\ platform = "linux" /\ child[t].st = "execd"
           /\ req[t].pdeathsig # "none") => req[t].pdeathsig \in child[t].pending

(* Every call returns, although the report pipe is only at its end when    *)
(* the children of all other calls have let go of it too.  Only a call     *)
(* whose read failed may wait for the program itself.                      *)
CallReturns ==
    \A t \in Threads :
        thread[t].pc # "idle" ~>
            \/ thread[t].pc = "done" \/ ~alive
            \/ thread[t].pc = "reap" /\ child[t].st = "execd"

(* The call as SpawnService sees it.                                       *)
CallState(t) ==
    CASE req[t].op = "pipe" \/ thread[t].pc = "idle" -> "idle"
      [] req[t].op = "spawn" /\ thread[t].pc = "done" -> thread[t].ret
      [] OTHER -> IF child[t].st = "reaped" THEN "failing" ELSE "busy"

ProcState(t) ==
    CASE child[t].st \in Starting \union {"none", "reaped"} -> "none"
      [] child[t].st = "execd" -> "started"
      [] OTHER -> IF child[t].report THEN "doomed" ELSE "ended"

Service ==
    INSTANCE SpawnService WITH
        call <- [t \in Threads |-> CallState(t)],
        proc <- [t \in Threads |-> ProcState(t)]

(* spawn keeps its promise: a pid only for a process that was started (or  *)
(* killed from outside), and an exception only when no process of the call *)
(* is left, not even a zombie.                                             *)
KeepsPromise == Service!Spec
=============================================================================
