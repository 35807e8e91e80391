----------------------------- MODULE MCThrottle -----------------------------
(* Throttle with three jobs, capacities 1 and 3, and requests of 1, 2 and 4  *)
(* slots.                                                                    *)
EXTENDS Throttle

CONSTANTS j1, j2, j3

MCJobs == {j1, j2, j3}
MCSizes == {1, 3}
MCRequests == {1, 2, 4}

=============================================================================
