----------------------------- MODULE MCMemoCycle -----------------------------
(* Graphs that depend on their input: a reads b when x is v1, b reads a when   *)
(* x is v2, and both do when x is v3, which is the only cycle.  The node p     *)
(* and its leaf y are apart from them.                                         *)
EXTENDS MemoScratch

MCReads(n, view) ==
    LET Then(inputs, d) ==
            IF "x" \notin DOMAIN view THEN {"x"}
            ELSE IF view["x"][2] \in inputs THEN {d} \ DOMAIN view ELSE {}
    IN  CASE n = "a" -> Then({"v1", "v3"}, "b")
          [] n = "b" -> Then({"v2", "v3"}, "a")
          [] n = "p" -> {"y"} \ DOMAIN view
          [] OTHER -> {}

MCResult(n, view) ==
    LET raised == {d \in DOMAIN view : view[d][1] = "error"}
    IN  IF raised # {} THEN view[CHOOSE d \in raised : TRUE]
        ELSE IF "x" \in DOMAIN view THEN <<"ok", view["x"][2]>> ELSE <<"ok", "v1">>

=============================================================================
