--------------------------- MODULE SpawnInvariant ---------------------------
(***************************************************************************)
(* The inductive invariant of Spawn, in two parts.  Inv: how far a call    *)
(* can be, what that says about its process, and who holds the report      *)
(* pipe.  DInv: who holds which descriptor of the caller, what the masks   *)
(* are, and what a child has open from the fork to the exec.               *)
(*                                                                         *)
(* SpawnSteps proves that every step keeps Inv, SpawnDescriptors and       *)
(* SpawnChildren that every step keeps DInv, and SpawnProofs what follows. *)
(***************************************************************************)
EXTENDS Spawn

(* The fields of the records, and who has one.                             *)
ThreadFields ==
    {"pc", "mask", "saved", "cwd", "ruleset", "read", "write", "tmp", "sigmask", "ret"}
ChildFields == {"st", "fds", "tmp", "mask", "pending", "armed", "report"}

Shape ==
    /\ alive \in BOOLEAN
    /\ DOMAIN thread = Threads /\ DOMAIN child = Threads
    /\ \A t \in Threads :
          DOMAIN thread[t] = ThreadFields /\ DOMAIN child[t] = ChildFields

(* The arguments of a call do not change, and are ones spawn.ml passes.    *)
Asked ==
    /\ platform \in {"linux", "haiku", "macos", "windows"}
    /\ \A t \in Threads : req[t] \in Request /\ Callable(req[t])

(* The builds that create a process with fork, and where a call is that    *)
(* has not created one yet.                                                *)
Forks == platform \in {"linux", "haiku"}

BeforeChild ==
    {"idle", "enter", "pipe", "cloexec", "fork", "leave", "prepare", "posix", "windows"}

(* How far a call can be, given its platform and kind.                     *)
OnItsWay(t) ==
    LET pc == thread[t].pc IN
    /\ pc \in BeforeChild \union {"forked", "read", "reap", "return", "cleanup", "done"}
    /\ req[t].op = "pipe" =>
          pc \in {"idle", "enter", "pipe", "cloexec", "leave", "return", "done"}
    /\ req[t].op = "spawn" /\ pc \in {"enter", "pipe", "cloexec"} => Forks
    /\ pc \in {"fork", "forked", "read", "reap"} => Forks
    /\ pc = "leave" => req[t].op = "pipe"
    /\ pc \in {"prepare", "posix", "cleanup"} => platform = "macos"
    /\ pc = "windows" => platform = "windows"

(* What the place of a call says about its process.                        *)
Matches(t) ==
    LET pc == thread[t].pc
        ret == thread[t].ret
        c == child[t]
    IN
    /\ c.st \in Starting \union {"none", "execd", "exited", "killed", "reaped"}
    /\ c.report \in BOOLEAN /\ (c.report => c.st = "exited")
    /\ pc \in BeforeChild => c = NoChild
    /\ pc = "forked" => \/ ret = "error" /\ c = NoChild
                        \/ ret = "none" /\ c.st \notin {"none", "reaped"}
    /\ pc \in {"read", "reap"} => c.st \notin {"none", "reaped"}
    /\ pc = "read" => ret = "none"
    /\ pc = "reap" => ret = "error"
    /\ pc \in {"return", "cleanup", "done"} =>
          \/ ret = "error" /\ c.st \in {"none", "reaped"}
          \/ ret = "ok" /\ req[t].op = "spawn" /\ c.st \in {"execd", "exited", "killed"}
               /\ ~c.report
          \/ ret = "ok" /\ req[t].op = "pipe" /\ c.st = "none"

(* The descriptors a call remembers are its own, as their objects tell.    *)
OwnFd(fd, obj) == fd # Unset => fd \in DOMAIN table /\ table[fd].obj = obj

Owns(t) ==
    Forks =>
        /\ OwnFd(thread[t].read, ReadEnd(t))
        /\ OwnFd(thread[t].write, WriteEnd(t))
        /\ OwnFd(thread[t].ruleset, Ruleset(t))
        /\ thread[t].pc \in {"cloexec", "fork"} => thread[t].write # Unset

(* What the program had open when it made its calls stays open.            *)
FilesOpen ==
    Forks =>
        /\ Unset \notin DOMAIN table
        /\ \A fd \in DOMAIN table : "obj" \in DOMAIN table[fd]
        /\ \A fd \in 0 .. 4 : fd \in DOMAIN table /\ table[fd].obj = File(fd)

(* A child that has not executed the program holds the writing end of the  *)
(* report pipe, in a descriptor that it is not going to close or reuse.    *)
HoldsPipe(t) ==
    LET c == child[t] IN
    c.st \in Starting =>
        /\ c.tmp \in Seq(Nat)
        /\ c.st \in {"death", "ppid", "setup"} => c.tmp = <<>>
        /\ c.st = "dup" => Len(c.tmp) <= 2
        /\ c.st = "dup2" => Len(c.tmp) \in 1 .. 3
        /\ \E w \in DOMAIN c.fds :
              /\ w \notin 0 .. 4 /\ c.fds[w].obj = WriteEnd(t)
              /\ \A i \in 1 .. Len(c.tmp) : c.tmp[i] # w
              /\ w # thread[t].ruleset

(* A child past the prctl is signalled when the caller dies; one past the  *)
(* look at its parent has been, if the caller is dead.                     *)
Signalled(t) ==
    LET c == child[t]
        checked == (Starting \ {"death", "ppid"}) \union {"execd"}
    IN
    platform = "linux" /\ req[t].pdeathsig # "none" =>
        /\ c.st \in checked \union {"ppid"} => c.armed
        /\ c.st \in checked /\ ~alive => req[t].pdeathsig \in c.pending

Holds(t) == OnItsWay(t) /\ Matches(t) /\ Owns(t) /\ HoldsPipe(t) /\ Signalled(t)

(* The inductive invariant.                                                *)
Inv == Shape /\ Asked /\ FilesOpen /\ \A t \in Threads : Holds(t)

-----------------------------------------------------------------------------
(* Descriptors, masks and the mutex.                                       *)

(* Where a call has no pipe yet or will never have one, where it has both  *)
(* ends, and where it holds safe_pipe_mutex if there is one.               *)
WithoutPipe == {"idle", "enter", "pipe", "prepare", "posix", "windows", "cleanup"}
WithPipe == {"cloexec", "fork", "leave", "forked"}
InSection == {"pipe", "cloexec", "fork", "leave", "forked"}

(* The call of t is to close the descriptor fd, or to return it.           *)
Holding(t, fd) ==
    /\ fd # Unset
    /\ \/ fd \in {thread[t].read, thread[t].write, thread[t].ruleset}
       \/ fd \in Range(thread[t].tmp)

(* An open descriptor that an exec closes, and one that it does not.       *)
Closing(obj) == [obj |-> obj, cloexec |-> TRUE]
Inherited(obj) == [obj |-> obj, cloexec |-> FALSE]

(* The descriptors a call holds are open, are not those the program had    *)
(* before, and are closed by an exec unless the call is just about to see  *)
(* to it or they are duplicates that posix_spawn is to install.            *)
OpenOf(t) ==
    LET th == thread[t] IN
    /\ \A fd : Holding(t, fd) => fd \in DOMAIN table /\ fd \notin 0 .. 4
    /\ th.read # Unset => th.read \notin {th.write, th.ruleset}
    /\ th.write # Unset => th.write # th.ruleset
    /\ th.read # Unset => /\ table[th.read] \in {Closing(ReadEnd(t)), Inherited(ReadEnd(t))}
                          /\ th.pc # "cloexec" => table[th.read] = Closing(ReadEnd(t))
    /\ th.write # Unset => /\ table[th.write] \in {Closing(WriteEnd(t)), Inherited(WriteEnd(t))}
                           /\ th.pc # "cloexec" => table[th.write] = Closing(WriteEnd(t))
    /\ th.ruleset # Unset => table[th.ruleset] = Closing(Ruleset(t))
    /\ \A i \in 1 .. Len(th.tmp) : table[th.tmp[i]].obj = File(req[t].std[i])

(* What a call holds, and what it has changed, depending on where it is.   *)
SoFar(t) ==
    LET th == thread[t] IN
    /\ th.tmp \in Seq(Nat) /\ Len(th.tmp) <= 3
    /\ th.pc \in WithoutPipe => th.read = Unset /\ th.write = Unset
    /\ th.pc \in WithPipe => th.read # Unset /\ th.write # Unset
    /\ th.pc \in {"read", "reap"} => th.read # Unset
    /\ th.pc \in {"read", "reap", "return"} => th.write = Unset
    /\ th.pc = "return" /\ req[t].op = "pipe" => th.ret = "error"
    /\ th.pc = "done" =>
          IF req[t].op = "pipe" /\ th.ret = "ok"
          THEN th.read # Unset /\ th.write # Unset
          ELSE th.read = Unset /\ th.write = Unset
    /\ th.read # Unset => platform # "windows"
    /\ th.pc \in {"idle", "done"} \/ ~req[t].landlock => th.ruleset = Unset
    /\ th.tmp # <<>> => th.pc \in {"prepare", "posix", "cleanup"}
    /\ th.pc = "posix" => Len(th.tmp) = 3

(* The mask, the working directory and the mutex of the calling thread.    *)
Restores(t) ==
    LET th == thread[t] IN
    /\ th.pc # "posix" => th.cwd = "process"
    /\ th.pc \in BeforeChild \union {"cleanup", "done"} => th.mask = OwnMask
    /\ th.pc \in {"forked", "read", "reap"} => th.saved = OwnMask
    /\ th.pc = "return" => RestoredMask(t) = OwnMask
    /\ th.pc \notin {"idle", "cleanup", "return", "done"} =>
          th.sigmask = ChildSigmask(req[t], OwnMask)
    /\ th.mask \subseteq Signals /\ th.sigmask \subseteq Signals
    /\ th.ret \in {"none", "ok", "error"}
    /\ th.pc \in {"enter", "cloexec"} => HasMutex
    /\ mutex = t <=> HasMutex /\ th.pc \in InSection

Caller(t) == OpenOf(t) /\ SoFar(t) /\ Restores(t)

(* The duplicates still to be installed: the rest of those of the request  *)
(* from the k-th on.                                                       *)
Duplicates(fds, tmp, std, k) ==
    \A i \in 1 .. Len(tmp) :
        /\ tmp[i] \in DOMAIN fds /\ tmp[i] \notin 0 .. 3
        /\ fds[tmp[i]].obj = File(std[i + k])
        /\ \A j \in 1 .. Len(tmp) : tmp[i] = tmp[j] => i = j

(* What the child c of a call for r on platform p has open: beside its     *)
(* standard descriptors, only what the exec closes and the duplicates.     *)
Sound(c, r, p) ==
    LET k == 3 - Len(c.tmp) IN
    /\ DOMAIN c.fds \subseteq 0 .. MaxFd
    /\ c.pending \subseteq Signals \union {"KILL"}
    /\ c.armed \/ c.st = "ppid" => r.pdeathsig # "none"
    /\ c.st \in Starting =>
          \A fd \in DOMAIN c.fds : \/ fd \in 0 .. 2 \/ c.fds[fd].cloexec
                                   \/ \E i \in 1 .. Len(c.tmp) : fd = c.tmp[i]
    /\ c.st \in {"death", "ppid", "setup", "dup"} =>
          /\ \A fd \in 0 .. 3 : fd \in DOMAIN c.fds /\ c.fds[fd].obj = File(fd)
          /\ Duplicates(c.fds, c.tmp, r.std, 0)
    /\ c.st \in {"dup2", "restrict", "exec"} =>
          /\ \A fd \in 0 .. k - 1 : /\ fd \in DOMAIN c.fds /\ ~c.fds[fd].cloexec
                                    /\ c.fds[fd].obj = File(r.std[fd + 1])
          /\ Duplicates(c.fds, c.tmp, r.std, k)
    /\ c.st \in {"restrict", "exec"} => c.tmp = <<>>
    /\ c.st = "exec" => c.mask = ChildSigmask(r, OwnMask)
    /\ c.st = "execd" =>
          /\ \A fd \in 0 .. 2 : c.fds[fd].obj = File(r.std[fd + 1])
          /\ p # "windows" => c.mask = ChildSigmask(r, OwnMask)
          /\ p # "macos" => DOMAIN c.fds = 0 .. 2

Process(t) == Sound(child[t], req[t], platform)

(* The descriptors the program had are untouched; every other one is held  *)
(* by one call.                                                            *)
Accounted ==
    /\ DOMAIN table \subseteq 0 .. MaxFd
    /\ \A fd \in DOMAIN table : table[fd].cloexec \in BOOLEAN
    /\ \A fd \in 0 .. 4 : fd \in DOMAIN table /\ table[fd] = OwnTable[fd]
    /\ \A fd \in DOMAIN table : fd \in 0 .. 4 \/ \E t \in Threads : Holding(t, fd)
    /\ \A t, u \in Threads : t # u => \A fd : ~(Holding(t, fd) /\ Holding(u, fd))

DInv ==
    /\ Accounted /\ mutex \in Threads \union {Nobody}
    /\ \A t \in Threads : Caller(t) /\ Process(t)

-----------------------------------------------------------------------------
(* The descriptors that are taken are free ones: the lowest, the lowest    *)
(* two, and the lowest above 2.  It holds of all sets of numbers that have *)
(* enough members, and is proved in SpawnProofs.                           *)
TakesFree ==
    \A tab :
        /\ Free(tab) # {} => Min(Free(tab)) \in Free(tab)
        /\ DupTargets(tab) # {} => SafeDup(tab) \in DupTargets(tab)
        /\ Cardinality(Free(tab)) >= 2 =>
              /\ LowestTwo(tab)[1] \in Free(tab)
              /\ LowestTwo(tab)[2] \in Free(tab)
              /\ LowestTwo(tab)[1] # LowestTwo(tab)[2]
=============================================================================
