------------------------------ MODULE MCSpawn ------------------------------
(***************************************************************************)
(* Instances of Spawn for TLC: one thread spawns with each of several      *)
(* redirections, working directories and signal requests while the other   *)
(* spawns or makes a pipe.                                                 *)
(***************************************************************************)
EXTENDS Spawn

Plain ==
    [op |-> "spawn", std |-> <<0, 1, 2>>, cwd |-> "inherit", setpgid |-> FALSE,
     landlock |-> FALSE, command |-> "default", signals |-> {},
     pdeathsig |-> "KILL"]

MCRequests ==
    [t \in Threads |->
        IF t = "main"
        THEN {[Plain EXCEPT !.std = <<0, 2, 1>>, !.cwd = "fd", !.pdeathsig = "TERM",
                            !.command = "block", !.signals = {}],
              [Plain EXCEPT !.std = <<3, 3, 0>>, !.landlock = TRUE, !.setpgid = TRUE,
                            !.command = "setmask", !.signals = {"TERM"}],
              [Plain EXCEPT !.std = <<2, 0, 3>>, !.cwd = "path", !.command = "unblock",
                            !.signals = {"INT"}]}
        ELSE {[Plain EXCEPT !.std = <<0, 3, 3>>], [Plain EXCEPT !.op = "pipe"]}]
=============================================================================
