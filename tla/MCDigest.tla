------------------------------ MODULE MCDigest ------------------------------
(* One thread digests a value of up to 16 chunks, on machines without      *)
(* vectors and with 4 and 8 lanes; or two threads digest short values and  *)
(* files that change.                                                      *)
EXTENDS Digest

Alone == [worker |-> 128, other |-> 0]
Both == [worker |-> 9, other |-> 3]

MCSettings ==
    {[degree |-> d, feed |-> Alone, file |-> 0] : d \in {1, 4, 8}}
    \union {[degree |-> 4, feed |-> Both, file |-> 3]}
=============================================================================
