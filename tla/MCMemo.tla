------------------------------- MODULE MCMemo -------------------------------
(* A dynamic graph: t reads m and, when m is v1, reads s and x in parallel;    *)
(* m tells v0 from the rest of the inputs and has a cutoff; s has none, runs a *)
(* job and raises on input v2.                                                 *)
EXTENDS MemoScratch

MCNodes == {"x", "m", "s", "t"}

Failed(view) == {d \in DOMAIN view : view[d][1] = "error"}

MCReads(n, view) ==
    CASE n \in {"m", "s"} -> {"x"} \ DOMAIN view
      [] n = "t" -> IF Failed(view) # {} THEN {}
                    ELSE IF "m" \notin DOMAIN view THEN {"m"}
                    ELSE IF view["m"][2] = "v1" THEN {"s", "x"} \ DOMAIN view ELSE {}
      [] OTHER -> {}

MCResult(n, view) ==
    IF Failed(view) # {} THEN view[CHOOSE d \in Failed(view) : TRUE]
    ELSE CASE n = "m" /\ "x" \in DOMAIN view -> <<"ok", IF view["x"][2] = "v0" THEN "v0" ELSE "v1">>
           [] n = "s" /\ "x" \in DOMAIN view -> <<IF view["x"][2] = "v2" THEN "error" ELSE "ok",
                                                  view["x"][2]>>
           [] n = "t" /\ "s" \in DOMAIN view -> view["s"]
           [] OTHER -> <<"ok", "v0">>

=============================================================================
