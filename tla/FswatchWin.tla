----------------------------- MODULE FswatchWin -----------------------------
(***************************************************************************)
(* Watching files on Windows: src/dune_scheduler/fswatch_win_stubs.c.      *)
(*                                                                         *)
(* The OCaml main thread adds watches and shuts down; the native thread    *)
(* watch_thread serves the completion port; the OCaml thread of            *)
(* create_fswatch_win calls wait in a loop. Under them is the kernel: it   *)
(* keeps the changes of a directory that is being read in the buffer of    *)
(* its handle and completes the pending read with them.                    *)
(*                                                                         *)
(* A real path is a sequence of characters; "/" is the separator. A change *)
(* is a number. What fswatch_win_shutdown frees while others still use it  *)
(* is undefined: nothing is modelled after it.                             *)
(***************************************************************************)
EXTENDS Integers, Sequences, FiniteSets, Functions

CONSTANTS
    WinPaths,   \* the real paths of the directories that may be watched
    MaxChanges  \* bound on the number of changes

ASSUME FswatchWinAssumption == MaxChanges \in Nat /\ \A p \in WinPaths : p \in Seq(STRING)

VARIABLES
    watches,    \* the list watches of watch_thread, and the handles
    port,       \* the packets queued on the completion port
    events,     \* fsenv->events: the changes of each batch, the newest batch first
    signal,     \* the event objects signal and afterAdd
    thread,     \* watch_thread
    waiter,     \* the thread that calls wait
    caller,     \* the main thread
    added,      \* the directories add returned for
    retrieved,  \* the changes that wait returned, in order
    pushed,     \* the changes that push_events put into the list
    changes,    \* the number of changes so far
    trouble     \* a system call failed, or a buffer overflowed

wvars == <<watches, port, events, signal, thread, waiter, caller, added, retrieved,
           pushed, changes, trouble>>

NoWatch == [listed |-> FALSE, open |-> FALSE, io |-> "none", buffer |-> <<>>]

NoOne == <<>>

FswatchWinInit(at) ==
    /\ watches = [p \in WinPaths |-> NoWatch]
    /\ port = <<>>
    /\ events = <<>>
    /\ signal = [signal |-> FALSE, afterAdd |-> FALSE]
    /\ thread = [pc |-> "get", key |-> NoOne, batch |-> <<>>, next |-> <<>>, down |-> FALSE]
    /\ waiter = [pc |-> "wait", list |-> <<>>]
    /\ caller = [pc |-> at, path |-> NoOne]
    /\ added = {}
    /\ retrieved = <<>>
    /\ pushed = {}
    /\ changes = 0
    /\ trouble = FALSE

Packet(kind, key, batch) == [kind |-> kind, key |-> key, batch |-> batch]

Listed == {p \in WinPaths : watches[p].listed}

-----------------------------------------------------------------------------
(* The kernel.                                                             *)

isprefix(p, q) == Len(p) <= Len(q) /\ \A i \in 1 .. Len(p) : p[i] = q[i]

(* The directory q is p or is below it.                                    *)
Under(p, q) == p = q \/ isprefix(p \o <<"/">>, q)

Reading(p) == watches[p].open /\ watches[p].io # "none"

Change(q) ==
    /\ caller.pc # "off"
    /\ changes < MaxChanges
    /\ changes' = changes + 1
    /\ watches' = [p \in WinPaths |->
                    IF Reading(p) /\ Under(p, q)
                    THEN [watches[p] EXCEPT !.buffer = Append(@, changes + 1)]
                    ELSE watches[p]]
    /\ UNCHANGED <<port, events, signal, thread, waiter, caller, added, retrieved,
                   pushed, trouble>>

Complete(p) ==
    /\ watches[p].io = "pending" /\ watches[p].buffer # <<>>
    /\ port' = Append(port, Packet("data", p, watches[p].buffer))
    /\ watches' = [watches EXCEPT ![p].io = "done", ![p].buffer = <<>>]
    /\ UNCHANGED <<events, signal, thread, waiter, caller, added, retrieved, pushed,
                   changes, trouble>>

(* The buffer overflowed: the read completes with no bytes.                *)
Overflow(p) ==
    /\ watches[p].io = "pending" /\ watches[p].buffer # <<>>
    /\ port' = Append(port, Packet("zero", p, <<>>))
    /\ watches' = [watches EXCEPT ![p].io = "done", ![p].buffer = <<>>]
    /\ trouble' = TRUE
    /\ UNCHANGED <<events, signal, thread, waiter, caller, added, retrieved, pushed,
                   changes>>

-----------------------------------------------------------------------------
(* watch_thread.                                                           *)

Running == caller.pc \notin {"down", "late"}

AtPc(at) == Running /\ thread.pc = at

(* remove_watch, free_watch                                                *)
WithoutWatch(p) == [watches EXCEPT ![p] = NoWatch]

Got(kind) == AtPc("get") /\ port # <<>> /\ Head(port).kind = kind

Key == Head(port).key

(* The loop ends when no watch is left and a shutdown was asked for.       *)
LoopEnds(ws, down) == down /\ \A p \in WinPaths : ~ws[p].listed

Looping(t, ws) == [t EXCEPT !.pc = IF LoopEnds(ws, t.down) THEN "ended" ELSE "get",
                            !.key = NoOne, !.batch = <<>>, !.next = <<>>]

(* A read that was cancelled, or a packet for a watch after the shutdown.  *)
RemoveDone ==
    /\ \/ Got("error")
       \/ Got("data") /\ thread.down
    /\ port' = Tail(port)
    /\ watches' = WithoutWatch(Key)
    /\ thread' = Looping(thread, WithoutWatch(Key))
    /\ UNCHANGED <<events, signal, waiter, caller, added, retrieved, pushed, changes,
                   trouble>>

(* A completion without bytes is for none of the branches.                 *)
Ignore ==
    /\ Got("zero")
    /\ port' = Tail(port)
    /\ UNCHANGED <<watches, events, signal, thread, waiter, caller, added, retrieved,
                   pushed, changes, trouble>>

(* push_events: read the head of the list, exchange it if it is still the  *)
(* same, signal.                                                           *)
GetData ==
    /\ Got("data") /\ ~thread.down
    /\ port' = Tail(port)
    /\ thread' = [thread EXCEPT !.pc = "read_head", !.key = Key, !.batch = Head(port).batch]
    /\ UNCHANGED <<watches, events, signal, waiter, caller, added, retrieved, pushed,
                   changes, trouble>>

ReadHead ==
    /\ AtPc("read_head")
    /\ thread' = [thread EXCEPT !.pc = "exchange", !.next = events]
    /\ UNCHANGED <<watches, port, events, signal, waiter, caller, added, retrieved,
                   pushed, changes, trouble>>

Stored(expected) == TRUE

(* InterlockedCompareExchangePointer stores only if the head is expected:  *)
(* no batch is empty and no change is in two, so that a list is what is in *)
(* it.                                                                     *)
Exchanged(expected) == events = expected

Exchange ==
    /\ AtPc("exchange")
    /\ IF Exchanged(thread.next)
       THEN /\ events' = thread.batch \o thread.next
            /\ pushed' = pushed \union Range(thread.batch)
            /\ thread' = [thread EXCEPT !.pc = "set_event"]
       ELSE /\ thread' = [thread EXCEPT !.pc = "read_head"]
            /\ UNCHANGED <<events, pushed>>
    /\ UNCHANGED <<watches, port, signal, waiter, caller, added, retrieved, changes,
                   trouble>>

SetSignal ==
    /\ AtPc("set_event")
    /\ signal' = [signal EXCEPT !.signal = TRUE]
    /\ thread' = [thread EXCEPT !.pc = "read_changes"]
    /\ UNCHANGED <<watches, port, events, waiter, caller, added, retrieved, pushed,
                   changes, trouble>>

(* read_changes on a watch whose data was pushed: the watch goes when its  *)
(* handle is closed already.                                               *)
ReadAgain ==
    /\ AtPc("read_changes")
    /\ watches' = IF watches[thread.key].open
                  THEN [watches EXCEPT ![thread.key].io = "pending"]
                  ELSE WithoutWatch(thread.key)
    /\ thread' = Looping(thread, watches')
    /\ UNCHANGED <<port, events, signal, waiter, caller, added, retrieved, pushed,
                   changes, trouble>>

(* ReadDirectoryChangesW fails, on a new watch or on an old one.           *)
ReadFails ==
    /\ AtPc("read_changes") \/ AtPc("first_read")
    /\ watches[thread.key].open
    /\ watches' = WithoutWatch(thread.key)
    /\ thread' = IF thread.pc = "first_read" THEN [thread EXCEPT !.pc = "after_add"]
                 ELSE Looping(thread, watches')
    /\ trouble' = TRUE
    /\ UNCHANGED <<port, events, signal, waiter, caller, added, retrieved, pushed,
                   changes>>

GetAdd ==
    /\ Got("add")
    /\ port' = Tail(port)
    /\ thread' = [thread EXCEPT !.pc = IF thread.down THEN "after_add" ELSE "add_watch",
                                !.key = Key]
    /\ UNCHANGED <<watches, events, signal, waiter, caller, added, retrieved, pushed,
                   changes, trouble>>

(* CancelIo and CloseHandle on the watches ps: a pending read completes    *)
(* with an error.                                                          *)
Cancelled(ps) == [p \in WinPaths |->
                    IF p \in ps
                    THEN [watches[p] EXCEPT !.open = FALSE, !.buffer = <<>>,
                                            !.io = IF @ = "pending" THEN "done" ELSE @]
                    ELSE watches[p]]

Completions(ps) ==
    LET pending == {p \in ps : watches[p].io = "pending"}
        order == CHOOSE f \in Bijection(1 .. Cardinality(pending), pending) : TRUE
    IN  [i \in 1 .. Cardinality(pending) |-> Packet("error", order[i], <<>>)]

WatchedBelow(p) == \E q \in Listed : isprefix(p, q)

AlreadyWatched(p) == \E q \in Listed : isprefix(q, p)

(* add_watch: a directory below one that is watched is ignored; those      *)
(* below the new one are cancelled.                                        *)
AddWinWatch ==
    /\ AtPc("add_watch")
    /\ LET p == thread.key
           below == {q \in Listed : isprefix(p, q)}
       IN  IF AlreadyWatched(p)
           THEN /\ thread' = [thread EXCEPT !.pc = "after_add"]
                /\ UNCHANGED <<watches, port>>
           ELSE /\ watches' = [Cancelled(below) EXCEPT
                                 ![p] = [NoWatch EXCEPT !.listed = TRUE, !.open = TRUE]]
                /\ port' = port \o Completions(below)
                /\ thread' = [thread EXCEPT !.pc = "first_read"]
    /\ UNCHANGED <<events, signal, waiter, caller, added, retrieved, pushed, changes,
                   trouble>>

(* CreateFileW or CreateIoCompletionPort fails.                            *)
AddFails ==
    /\ AtPc("add_watch")
    /\ thread' = [thread EXCEPT !.pc = "after_add"]
    /\ trouble' = TRUE
    /\ UNCHANGED <<watches, port, events, signal, waiter, caller, added, retrieved,
                   pushed, changes>>

FirstRead ==
    /\ AtPc("first_read")
    /\ watches' = [watches EXCEPT ![thread.key].io = "pending"]
    /\ thread' = [thread EXCEPT !.pc = "after_add"]
    /\ UNCHANGED <<port, events, signal, waiter, caller, added, retrieved, pushed,
                   changes, trouble>>

(* SetEvent(afterAdd), whatever became of the request.                     *)
SetAfterAddTo == TRUE

AfterAdd ==
    /\ AtPc("after_add")
    /\ signal' = [signal EXCEPT !.afterAdd = @ \/ SetAfterAddTo]
    /\ thread' = Looping(thread, watches)
    /\ UNCHANGED <<watches, port, events, waiter, caller, added, retrieved, pushed,
                   changes, trouble>>

GetShutdown ==
    /\ Got("shutdown")
    /\ port' = Tail(port) \o Completions(Listed)
    /\ watches' = Cancelled(Listed)
    /\ thread' = Looping([thread EXCEPT !.down = TRUE], watches')
    /\ UNCHANGED <<events, signal, waiter, caller, added, retrieved, pushed, changes,
                   trouble>>

-----------------------------------------------------------------------------
(* fswatch_win_wait: both event objects reset themselves when a wait       *)
(* returns.                                                                *)

WaitReturns ==
    /\ Running /\ waiter.pc = "wait" /\ signal.signal
    /\ signal' = [signal EXCEPT !.signal = FALSE]
    /\ waiter' = [waiter EXCEPT !.pc = "pop"]
    /\ UNCHANGED <<watches, port, events, thread, caller, added, retrieved, pushed,
                   changes, trouble>>

PopRead ==
    /\ Running /\ waiter.pc = "pop"
    /\ waiter' = [pc |-> "pop_exchange", list |-> events]
    /\ UNCHANGED <<watches, port, events, signal, thread, caller, added, retrieved,
                   pushed, changes, trouble>>

PopExchange ==
    /\ Running /\ waiter.pc = "pop_exchange"
    /\ IF Exchanged(waiter.list)
       THEN events' = <<>> /\ waiter' = [waiter EXCEPT !.pc = "reset"]
       ELSE waiter' = [pc |-> "pop", list |-> <<>>] /\ UNCHANGED events
    /\ UNCHANGED <<watches, port, signal, thread, caller, added, retrieved, pushed,
                   changes, trouble>>

(* Every change of the list, from its first to its last, is put in front   *)
(* of the result.                                                          *)
parse_events(list) == [i \in 1 .. Len(list) |-> list[Len(list) - i + 1]]

(* ResetEvent and parse_events. After a shutdown the next call is refused. *)
ResetSignal ==
    /\ Running /\ waiter.pc = "reset"
    /\ signal' = [signal EXCEPT !.signal = FALSE]
    /\ retrieved' = retrieved \o parse_events(waiter.list)
    /\ waiter' = [pc |-> IF caller.pc = "stopping" THEN "ended" ELSE "wait", list |-> <<>>]
    /\ UNCHANGED <<watches, port, events, thread, caller, added, pushed, changes, trouble>>

-----------------------------------------------------------------------------
(* fswatch_win_add and fswatch_win_shutdown.                               *)

Add(p) ==
    /\ caller.pc = "idle"
    /\ port' = Append(port, Packet("add", p, <<>>))
    /\ caller' = [pc |-> "adding", path |-> p]
    /\ UNCHANGED <<watches, events, signal, thread, waiter, added, retrieved, pushed,
                   changes, trouble>>

AddEnds ==
    /\ caller.pc = "adding" /\ signal.afterAdd
    /\ signal' = [signal EXCEPT !.afterAdd = FALSE]
    /\ added' = added \union {caller.path}
    /\ caller' = [pc |-> "idle", path |-> NoOne]
    /\ UNCHANGED <<watches, port, events, thread, waiter, retrieved, pushed, changes,
                   trouble>>

ShutdownWin ==
    /\ caller.pc = "idle"
    /\ port' = Append(port, Packet("shutdown", NoOne, <<>>))
    /\ caller' = [caller EXCEPT !.pc = "stopping"]
    /\ UNCHANGED <<watches, events, signal, thread, waiter, added, retrieved, pushed,
                   changes, trouble>>

(* The thread ended within two seconds, or it did not.                     *)
Join(at) ==
    /\ caller.pc = "stopping"
    /\ at = IF thread.pc = "ended" THEN "down" ELSE "late"
    /\ caller' = [caller EXCEPT !.pc = at]
    /\ events' = <<>>
    /\ UNCHANGED <<watches, port, signal, thread, waiter, added, retrieved, pushed,
                   changes, trouble>>

-----------------------------------------------------------------------------
WatchThread ==
    \/ RemoveDone \/ Ignore \/ GetData \/ ReadHead \/ Exchange \/ SetSignal \/ ReadAgain
    \/ GetAdd \/ AddWinWatch \/ FirstRead \/ AfterAdd
    \/ GetShutdown

Waiter == WaitReturns \/ PopRead \/ PopExchange \/ ResetSignal

FswatchWinNext ==
    \/ WatchThread \/ Waiter
    \/ \E p \in WinPaths : Change(p) \/ Complete(p) \/ Overflow(p) \/ Add(p)
    \/ ReadFails \/ AddFails
    \/ AddEnds \/ ShutdownWin \/ Join("down") \/ Join("late")

FswatchWinFairness ==
    /\ WF_wvars(WatchThread) /\ WF_wvars(Waiter)
    /\ WF_wvars(AddEnds) /\ WF_wvars(Join("down"))

-----------------------------------------------------------------------------
(* Properties.                                                             *)

(* The variables are of their types; a watch that is not in the list has   *)
(* no handle and no read.                                                  *)
FswatchWinTypeOK ==
    /\ \A p \in WinPaths :
        /\ watches[p].io \in {"none", "pending", "done"}
        /\ watches[p].io = "pending" => watches[p].open
        /\ ~watches[p].listed => watches[p] = NoWatch
    /\ thread.pc \in {"get", "read_head", "exchange", "set_event", "read_changes",
                      "add_watch", "first_read", "after_add", "ended"}
    /\ waiter.pc \in {"wait", "pop", "pop_exchange", "reset", "ended"}
    /\ caller.pc \in {"off", "idle", "adding", "stopping", "down", "late"}
    /\ added \subseteq WinPaths
    /\ pushed \subseteq 1 .. changes

(* When add has returned, and no system call failed and no buffer          *)
(* overflowed, the directory is watched: the changes in it are recorded by *)
(* the handle of the directory itself or of one above it.                  *)
WatchedAfterAdd ==
    caller.pc = "idle" /\ ~trouble =>
        \A q \in added : \E p \in WinPaths : Reading(p) /\ Under(p, q)

(* The list that both threads change without a lock loses no change and    *)
(* yields none twice: what wait returned, what it is about to return and   *)
(* what is in the list are together what was pushed.                       *)
RetrievedOnce ==
    Running =>
        LET rest == events \o (IF waiter.pc = "reset" THEN waiter.list ELSE <<>>)
        IN  /\ Range(retrieved) \union Range(rest) = pushed
            /\ Len(retrieved) + Len(rest) = Cardinality(pushed)

(* fswatch_win_add returns, also when the watch cannot be added or is not  *)
(* needed.                                                                 *)
AddReturns == caller.pc = "adding" ~> caller.pc = "idle"

(* After a shutdown every read is cancelled or completed, every watch is   *)
(* removed and watch_thread ends, unless a call failed, a buffer           *)
(* overflowed, or the two seconds were over before.                        *)
ThreadEnds ==
    caller.pc = "stopping" ~> (thread.pc = "ended" \/ trouble \/ caller.pc = "late")
=============================================================================
