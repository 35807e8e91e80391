------------------------------- MODULE Digest -------------------------------
(***************************************************************************)
(* How dune digests values and files: src/dune_digest/digest.ml over the   *)
(* stubs of src/ocaml-blake3-mini/blake3_stubs.c. Worker threads digest    *)
(* values with hashers that they take from a pool (with_pooled), and read  *)
(* files with the runtime lock released (file_with_size, fd), while other  *)
(* processes write to them.                                                *)
(*                                                                         *)
(* A read or an open that is interrupted (EINTR) is tried again and        *)
(* changes nothing.                                                        *)
(***************************************************************************)
EXTENDS Blake3, FiniteSets

CONSTANTS
    Threads,
    Settings,   \* [degree: blake3_simd_degree(), feed: the most bytes of a
                \*  value each thread feeds, file: the greatest file]
    BufferLen,  \* UNIX_BUFFER_SIZE
    MaxDepth    \* BLAKE3_MAX_DEPTH, for the longest input of Settings

ASSUME DigestAssumption ==
    /\ \A s \in Settings : /\ s.degree \in Nat \ {0}
                           /\ s.feed \in [Threads -> Nat]
                           /\ s.file \in Nat
    /\ BufferLen \in Nat \ {0}
    /\ MaxDepth \in Nat

VARIABLES
    setting,    \* fixed by Init: the machine and the bounds
    pool,       \* Digest.Hasher.pool: the hashers that nobody uses
    job,        \* what each thread does
    file        \* the length of the file, which others change

vars == <<setting, pool, job, file>>

NoHasher == blake3_hasher_init(0)

(* steady: nobody wrote to the file since it was opened.                   *)
Idle == [pc |-> "idle", hasher |-> NoHasher, fed |-> 0, fd |-> FALSE,
         sized |-> FALSE, size |-> 0, err |-> "", steady |-> TRUE]

Init ==
    /\ setting \in Settings
    /\ pool = <<>>
    /\ job = [t \in Threads |-> Idle]
    /\ file \in 0 .. setting.file

At(t, pc) == job[t].pc = pc

-----------------------------------------------------------------------------
(* Hasher.with_pooled: take a hasher, feed it, read the digest, reset it   *)
(* and give it back.                                                       *)

Taken == IF pool = <<>> THEN blake3_hasher_init(setting.degree) ELSE Head(pool)

Remaining == IF pool = <<>> THEN pool ELSE Tail(pool)

TakePooled(t) ==
    /\ At(t, "idle")
    /\ setting.feed[t] > 0
    /\ job' = [job EXCEPT ![t] = [Idle EXCEPT !.pc = "feed", !.hasher = Taken]]
    /\ pool' = Remaining
    /\ UNCHANGED <<setting, file>>

(* feed_string, feed_bytes, feed_bigstring_release_lock.                   *)
Feed(t, n) ==
    /\ At(t, "feed")
    /\ job[t].fed + n <= setting.feed[t]
    /\ job' = [job EXCEPT ![t].hasher = blake3_hasher_update(@, job[t].fed, n),
                          ![t].fed = @ + n]
    /\ UNCHANGED <<setting, pool, file>>

(* What the feeding function or a feed out of range raises.                *)
Raise(t) ==
    /\ At(t, "feed")
    /\ job' = [job EXCEPT ![t].pc = "release", ![t].err = "exn"]
    /\ UNCHANGED <<setting, pool, file>>

(* Blake3_mini.digest does not change the hasher.                          *)
Finish(t) ==
    /\ At(t, "feed")
    /\ job' = [job EXCEPT ![t].pc = "release"]
    /\ UNCHANGED <<setting, pool, file>>

(* Both ways out of with_pooled reset the hasher before they release it.   *)
Released(t) == blake3_hasher_reset(job[t].hasher)

ReleasePooled(t) ==
    /\ At(t, "release")
    /\ pool' = <<Released(t)>> \o pool
    /\ job' = [job EXCEPT ![t] = Idle]
    /\ UNCHANGED <<setting, file>>

-----------------------------------------------------------------------------
(* blake3_mini_file_with_size (sized), and Digest.file over blake3_mini_fd.*)

OpenFile(t, sized) ==
    /\ At(t, "idle")
    /\ setting.file > 0
    /\ job' = [job EXCEPT ![t] =
                 [Idle EXCEPT !.pc = IF sized THEN "stat" ELSE "read", !.sized = sized,
                              !.hasher = blake3_hasher_init(setting.degree),
                              !.fd = TRUE]]
    /\ UNCHANGED <<setting, pool, file>>

Failing(t, op, next) == [job[t] EXCEPT !.pc = next, !.err = op]

OpenFails(t) ==
    /\ At(t, "idle")
    /\ setting.file > 0
    /\ job' = [job EXCEPT ![t] = Failing(t, "open", "done")]
    /\ UNCHANGED <<setting, pool, file>>

StatFile(t) ==
    /\ At(t, "stat")
    /\ job' = [job EXCEPT ![t].pc = "read", ![t].size = file]
    /\ UNCHANGED <<setting, pool, file>>

StatFails(t) ==
    /\ At(t, "stat")
    /\ job' = [job EXCEPT ![t] = Failing(t, "fstat", "close")]
    /\ UNCHANGED <<setting, pool, file>>

(* A read returns at least one byte, at most the buffer and what is there. *)
ReadFile(t, n) ==
    /\ At(t, "read")
    /\ n <= BufferLen /\ job[t].fed + n <= file
    /\ job' = [job EXCEPT ![t].hasher = blake3_hasher_update(@, job[t].fed, n),
                          ![t].fed = @ + n]
    /\ UNCHANGED <<setting, pool, file>>

EndOfFile(t) == file <= job[t].fed

ReadNothing(t) ==
    /\ At(t, "read")
    /\ EndOfFile(t)
    /\ job' = [job EXCEPT ![t].pc = "close"]
    /\ UNCHANGED <<setting, pool, file>>

ReadFails(t) ==
    /\ At(t, "read")
    /\ job' = [job EXCEPT ![t] = Failing(t, "read", "close")]
    /\ UNCHANGED <<setting, pool, file>>

LastError(t, ok) == IF ok THEN "" ELSE "close"

(* file_with_size reports the first error; in Digest.file, Exn.protectx    *)
(* lets an exception of close replace that of the read.                    *)
ErrorAfterClose(t, ok) ==
    IF ok \/ (job[t].sized /\ job[t].err # "") THEN job[t].err ELSE "close"

CloseFile(t, ok) ==
    /\ At(t, "close")
    /\ job' = [job EXCEPT ![t].pc = "done", ![t].fd = FALSE,
                          ![t].err = ErrorAfterClose(t, ok)]
    /\ UNCHANGED <<setting, pool, file>>

Return(t) ==
    /\ At(t, "done")
    /\ job' = [job EXCEPT ![t] = Idle]
    /\ UNCHANGED <<setting, pool, file>>

(* Another process changes the file.                                       *)
Write(n) ==
    /\ n <= setting.file /\ n # file
    /\ file' = n
    /\ job' = [t \in Threads |-> [job[t] EXCEPT !.steady = @ /\ ~job[t].fd]]
    /\ UNCHANGED <<setting, pool>>

ThreadStep(t) ==
    \/ TakePooled(t)
    \/ \E n \in 1 .. setting.feed[t] : Feed(t, n)
    \/ Raise(t) \/ Finish(t) \/ ReleasePooled(t)
    \/ \E sized \in BOOLEAN : OpenFile(t, sized)
    \/ StatFile(t)
    \/ \E n \in 1 .. BufferLen : ReadFile(t, n)
    \/ ReadNothing(t)
    \/ CloseFile(t, TRUE)
    \/ Return(t)

Fault(t) == OpenFails(t) \/ StatFails(t) \/ ReadFails(t) \/ CloseFile(t, FALSE)

Next ==
    \/ \E t \in Threads : ThreadStep(t) \/ Fault(t)
    \/ \E n \in 0 .. setting.file : Write(n)

Spec == Init /\ [][Next]_vars

-----------------------------------------------------------------------------
(* Properties.                                                             *)

ChunkOK(c) ==
    /\ c.counter \in Nat
    /\ c.buf_len \in 0 .. BlockLen
    /\ c.blocks \in 0 .. ChunkLen \div BlockLen
    /\ chunk_state_len(c) <= ChunkLen

Digested(t) == job[t].pc \in {"release", "done"} /\ job[t].err = ""

(* A digest is the BLAKE3 tree hash of the bytes that were fed or read, in *)
(* whichever pieces they came, however many chunks the machine compresses  *)
(* at a time, and whatever the hasher digested before.                     *)
DigestOfInput ==
    \A t \in Threads :
        Digested(t) => blake3_hasher_finalize(job[t].hasher) = TreeHash(job[t].fed)

(* The arrays of every hasher are large enough: the buffer of a chunk      *)
(* holds at most a block and the chunk at most BLAKE3_CHUNK_LEN bytes;     *)
(* subtrees are merged late enough and often enough, so that cv_stack      *)
(* never holds more than BLAKE3_MAX_DEPTH + 1 values, the assertion on     *)
(* num_cvs in compress_subtree_to_parent_node holds, and finalize finds    *)
(* two values on the stack when the chunk is empty and the stack is not.   *)
WithinArrays ==
    \A h \in Range(pool) \union {job[t].hasher : t \in Threads} :
        /\ ChunkOK(h.chunk)
        /\ h.deepest <= MaxDepth + 1
        /\ h.widest <= IF h.degree < 2 THEN 2 ELSE h.degree
        /\ chunk_state_len(h.chunk) = 0 /\ h.stack # <<>> => Len(h.stack) >= 2

(* A call on a file leaves no descriptor open. When it returns a digest,   *)
(* none of its system calls failed, and it has read to the end: if nobody  *)
(* wrote to the file while it was open, every byte that fstat counted was  *)
(* hashed.                                                                 *)
FileOutcome ==
    \A t \in Threads :
        At(t, "done") =>
            /\ ~job[t].fd
            /\ job[t].err = "" /\ job[t].sized /\ job[t].steady => job[t].fed = job[t].size
=============================================================================
