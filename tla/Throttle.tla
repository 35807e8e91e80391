------------------------------ MODULE Throttle ------------------------------
(***************************************************************************)
(* Fiber.Throttle (src/fiber/src/throttle.ml): the weighted FIFO gate that *)
(* bounds the jobs the scheduler runs, the live sandboxes and the digests  *)
(* computed in background threads.                                         *)
(*                                                                         *)
(* Fibers are cooperative: the only points at which another fiber runs are *)
(* the reads of an empty ivar.  Ivar.fill does not suspend the fiber that  *)
(* fills; it appends the reader it wakes to the scheduler's job list.      *)
(* ready is the part of that list that belongs to the throttle, and while  *)
(* the loop of restart has the turn no other fiber moves.                  *)
(***************************************************************************)
EXTENDS Integers, Sequences, FiniteSetsExt

CONSTANTS
    Jobs,       \* the fibers that call Throttle.run, again and again
    Sizes,      \* the capacities given to create and resize
    Requests    \* the sizes asked for by the calls of run

ASSUME ThrottleAssumption ==
    /\ Sizes \subseteq Nat \ {0}
    /\ Requests \subseteq Nat

VARIABLES
    size,       \* t.size
    running,    \* t.running
    waiting,    \* t.waiting: the jobs blocked on their ivar, in order
    ready,      \* jobs whose ivar is full and whose f has not started yet
    status,     \* where the fiber of each job is
    weight,     \* the slots of its current call of run
    turn        \* who moves: some fiber, or the loop of restart

vars == <<size, running, waiting, ready, status, weight, turn>>

Status == {"idle", "waiting", "ready", "running"}

Holders == {j \in Jobs : status[j] \in {"ready", "running"}}

Minimum(a, b) == IF a < b THEN a ELSE b

Init ==
    /\ size \in Sizes
    /\ running = 0
    /\ waiting = <<>>
    /\ ready = <<>>
    /\ status = [j \in Jobs |-> "idle"]
    /\ weight = [j \in Jobs |-> 0]
    /\ turn = "fiber"

-----------------------------------------------------------------------------
WeightOfFreeSlots(request) == Minimum(request, size - running)

(* let weight = min size t.size                                              *)
Weight(request) == Minimum(request, size)

(* Queue.is_empty t.waiting && t.running < t.size                            *)
MayStart == waiting = <<>> /\ running < size

EnqueueInFront(j) == <<j>> \o waiting

(* Queue.push t.waiting { weight; ivar }                                     *)
Enqueue(j) == Append(waiting, j)

MayRestartOffByOne == running + 1 < size

(* The test at the head of restart's loop.                                   *)
MayRestart == running < size

ReleasedWithCurrentSize(j) == Minimum(weight[j], size)

(* What the finaliser subtracts: the weight computed when run was called.    *)
Released(j) == weight[j]

(* run, the branch that starts the job at once: nobody waits and there is a  *)
(* free slot.                                                                *)
RunNow(j, request) ==
    /\ turn = "fiber"
    /\ status[j] = "idle"
    /\ MayStart
    /\ weight' = [weight EXCEPT ![j] = Weight(request)]
    /\ running' = running + weight'[j]
    /\ status' = [status EXCEPT ![j] = "running"]
    /\ UNCHANGED <<size, waiting, ready, turn>>

(* run, the branch that queues the job and reads its ivar.                   *)
RunLater(j, request) ==
    /\ turn = "fiber"
    /\ status[j] = "idle"
    /\ ~MayStart
    /\ weight' = [weight EXCEPT ![j] = Weight(request)]
    /\ waiting' = Enqueue(j)
    /\ status' = [status EXCEPT ![j] = "waiting"]
    /\ UNCHANGED <<size, running, ready, turn>>

(* One turn of the loop of restart: hand the free slots to the oldest job    *)
(* that waits, or leave the loop.                                            *)
Restart ==
    /\ turn = "restart"
    /\ \/ /\ MayRestart
          /\ waiting # <<>>
          /\ LET j == Head(waiting) IN
                /\ running' = running + weight[j]
                /\ status' = [status EXCEPT ![j] = "ready"]
                /\ ready' = Append(ready, j)
          /\ waiting' = Tail(waiting)
          /\ UNCHANGED turn
       \/ /\ ~MayRestart \/ waiting = <<>>
          /\ turn' = "fiber"
          /\ UNCHANGED <<running, status, ready, waiting>>
    /\ UNCHANGED <<size, weight>>

(* The fiber scheduler resumes a reader of a full ivar: its f starts.        *)
Resume ==
    /\ turn = "fiber"
    /\ ready # <<>>
    /\ status' = [status EXCEPT ![Head(ready)] = "running"]
    /\ ready' = Tail(ready)
    /\ UNCHANGED <<size, running, waiting, weight, turn>>

(* f ends, normally or with an exception: the finaliser gives the slots back *)
(* and restarts the jobs that wait.                                          *)
Finish(j) ==
    /\ turn = "fiber"
    /\ status[j] = "running"
    /\ running' = running - Released(j)
    /\ status' = [status EXCEPT ![j] = "idle"]
    /\ turn' = "restart"
    /\ UNCHANGED <<size, waiting, ready, weight>>

Resize(n) ==
    /\ turn = "fiber"
    /\ size' = n
    /\ turn' = "restart"
    /\ UNCHANGED <<running, waiting, ready, status, weight>>

Next ==
    \/ \E j \in Jobs, request \in Requests : RunNow(j, request) \/ RunLater(j, request)
    \/ Restart
    \/ Resume
    \/ \E j \in Jobs : Finish(j)
    \/ \E n \in Sizes : Resize(n)

(* The fiber scheduler works through its job list in order, so a fiber that  *)
(* can run gets its turn however often others call restart in between (they  *)
(* disable it only while their loop runs), and the jobs end.                 *)
Fairness ==
    /\ WF_vars(Restart)
    /\ SF_vars(Resume)
    /\ \A j \in Jobs : SF_vars(Finish(j))

Spec == Init /\ [][Next]_vars /\ Fairness

-----------------------------------------------------------------------------
(* Every field has the type throttle.ml gives it, and the queues hold jobs.  *)
TypeOK ==
    /\ size \in Sizes
    /\ running \in Int
    /\ waiting \in Seq(Jobs)
    /\ ready \in Seq(Jobs)
    /\ status \in [Jobs -> Status]
    /\ weight \in [Jobs -> Nat]
    /\ turn \in {"fiber", "restart"}

(* t.running counts exactly the slots of the jobs that were let in and have  *)
(* not ended, across resizes that change what a request is capped at: a call *)
(* of run gives back what it took.                                           *)
SlotsAccounted == running = MapThenSumSet(LAMBDA j : weight[j], Holders)

(* Nobody waits while a slot is free: run and its finaliser leave no job in  *)
(* the queue that restart would let in, also after a resize.                 *)
WorkConserving == turn = "fiber" /\ waiting # <<>> => running >= size

(* A job that waits for its slots is started in the end.                     *)
WaitingJobStarts == \A j \in Jobs : status[j] = "waiting" ~> status[j] = "running"

(* fiber.mli says of run that "Jobs start in the order in which they arrive": *)
(* when a call of run starts its f at once, no earlier call has still to start. *)
StartedInArrivalOrder ==
    [][\A j, k \in Jobs :
         status[j] = "idle" /\ status'[j] = "running"
         => status[k] \notin {"waiting", "ready"}]_vars

=============================================================================
