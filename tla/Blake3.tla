------------------------------- MODULE Blake3 -------------------------------
(***************************************************************************)
(* The incremental BLAKE3 hasher, src/ocaml-blake3-mini/blake3.c, and the  *)
(* tree it is to compute.                                                  *)
(*                                                                         *)
(* The compression function is free: its result is the term of its         *)
(* arguments, so two digests are equal exactly when the same compressions  *)
(* were done on the same bytes with the same counters, lengths and flags.  *)
(* A byte of the input is its position in it; a pointer and a length into  *)
(* the input are the position of the first byte and the length.            *)
(***************************************************************************)
EXTENDS Integers, Sequences, SequencesExt

CONSTANTS
    BlockLen,   \* BLAKE3_BLOCK_LEN
    ChunkLen    \* BLAKE3_CHUNK_LEN, a power of 2

ASSUME Blake3Assumption ==
    /\ BlockLen \in Nat \ {0}
    /\ ChunkLen \in {2, 4, 8, 16, 32} /\ ChunkLen % BlockLen = 0

Zero == -1                      \* a byte that is not of the input
Garbage == [garbage |-> Zero]   \* a chaining value that was never written
Key == [key |-> Zero]           \* the key words, IV for a plain hash

Least(a, b) == IF a < b THEN a ELSE b

-----------------------------------------------------------------------------
(* Compression.                                                            *)

compress(cv, block, block_len, counter, flags) ==
    [cv |-> cv, block |-> block, len |-> block_len, counter |-> counter, flags |-> flags]

(* A block of input bytes, padded, and one of two chaining values.         *)
Bytes(from, len) ==
    [bytes |-> [i \in 1 .. BlockLen |-> IF i <= len THEN from + i - 1 ELSE Zero]]

Pair(left, right) == [cvs |-> <<left, right>>]

(* output_t: what is left to compress, once it is known whether it is the  *)
(* root.                                                                   *)
make_output(cv, block, block_len, counter, flags) ==
    [cv |-> cv, block |-> block, len |-> block_len, counter |-> counter, flags |-> flags]

output_chaining_value(o) == compress(o.cv, o.block, o.len, o.counter, o.flags)

output_root_bytes(o) == compress(o.cv, o.block, o.len, 0, o.flags \union {"ROOT"})

parent_output(left, right) == make_output(Key, Pair(left, right), BlockLen, 0, {"PARENT"})

(* hash_one_portable and hash_one_neon: the blocks of one input in order,  *)
(* the start flags on the first and the end flags on the last.             *)
RECURSIVE hash_blocks(_, _, _, _, _)
hash_blocks(blocks, i, cv, counter, kind) ==
    IF i > Len(blocks) THEN cv
    ELSE LET flags == kind.flags
                      \union (IF i = 1 THEN kind.start ELSE {})
                      \union (IF i = Len(blocks) THEN kind.end ELSE {})
         IN  hash_blocks(blocks, i + 1,
                         compress(cv, blocks[i], BlockLen, counter, flags),
                         counter, kind)

OfChunk == [flags |-> {}, start |-> {"CHUNK_START"}, end |-> {"CHUNK_END"}]
OfParent == [flags |-> {"PARENT"}, start |-> {}, end |-> {}]

(* The counter of the input number n (from 0) of hash_many: groups of      *)
(* lanes inputs are hashed together, lane i with counter + (mask & i).     *)
LaneCounter(counter, increment, lanes, n) ==
    IF increment THEN counter + lanes * (n \div lanes) + (n % lanes) ELSE counter

hash_many(inputs, counter, increment, kind, lanes) ==
    [n \in 1 .. Len(inputs) |->
        hash_blocks(inputs[n], 1, Key,
                    LaneCounter(counter, increment, lanes, n - 1), kind)]

-----------------------------------------------------------------------------
(* The state of the chunk that is being filled.                            *)

EmptyBuf == [i \in 1 .. BlockLen |-> Zero]

chunk_state_reset(chunk_counter) ==
    [cv |-> Key, counter |-> chunk_counter, buf |-> EmptyBuf, buf_len |-> 0, blocks |-> 0]

chunk_state_len(c) == BlockLen * c.blocks + c.buf_len

Take(c, len) == Least(BlockLen - c.buf_len, len)

chunk_state_fill_buf(c, from, len) ==
    LET take == Take(c, len) IN
    [c EXCEPT !.buf = [i \in 1 .. BlockLen |->
                          IF i > c.buf_len /\ i <= c.buf_len + take
                          THEN from + i - 1 - c.buf_len ELSE c.buf[i]],
              !.buf_len = @ + take]

chunk_state_maybe_start_flag(c) == IF c.blocks = 0 THEN {"CHUNK_START"} ELSE {}

(* One more block goes into the chaining value of the chunk.               *)
CompressBlock(c, block) ==
    [c EXCEPT !.cv = compress(c.cv, block, BlockLen, c.counter,
                              chunk_state_maybe_start_flag(c)),
              !.blocks = @ + 1]

(* The buffer is full and there is more input: it is compressed and        *)
(* cleared.                                                                *)
FlushedBuf(c) ==
    [CompressBlock(c, [bytes |-> c.buf]) EXCEPT !.buf_len = 0, !.buf = EmptyBuf]

(* while (input_len > BLAKE3_BLOCK_LEN): the last block stays in the       *)
(* buffer, because it may be the last of the chunk.                        *)
RECURSIVE CompressWholeBlocks(_, _, _)
CompressWholeBlocks(c, from, len) ==
    IF len > BlockLen
    THEN CompressWholeBlocks(CompressBlock(c, Bytes(from, BlockLen)),
                             from + BlockLen, len - BlockLen)
    ELSE chunk_state_fill_buf(c, from, len)

chunk_state_update(c, from, len) ==
    LET take == IF c.buf_len > 0 THEN Take(c, len) ELSE 0
        filled == chunk_state_fill_buf(c, from, take)
        start == IF c.buf_len > 0 /\ len > take THEN FlushedBuf(filled) ELSE filled
    IN  CompressWholeBlocks(start, from + take, len - take)

chunk_state_output(c) ==
    make_output(c.cv, [bytes |-> c.buf], c.buf_len, c.counter,
                chunk_state_maybe_start_flag(c) \union {"CHUNK_END"})

(* The chaining value of a chunk of len bytes hashed by itself.            *)
ChunkCv(from, len, counter) ==
    output_chaining_value(
        chunk_state_output(chunk_state_update(chunk_state_reset(counter), from, len)))

-----------------------------------------------------------------------------
(* Subtrees.                                                               *)

RECURSIVE popcnt(_)
popcnt(x) == IF x = 0 THEN 0 ELSE (x % 2) + popcnt(x \div 2)

RECURSIVE round_down_to_power_of_2(_)
round_down_to_power_of_2(x) ==
    IF x <= 1 THEN 1 ELSE 2 * round_down_to_power_of_2(x \div 2)

(* The chunks that are full and have input after them.                     *)
FullChunks(len) == (len - 1) \div ChunkLen

left_subtree_len(len) == round_down_to_power_of_2(FullChunks(len)) * ChunkLen

(* The blocks of a whole chunk.                                            *)
ChunkBlocks(from) ==
    [b \in 1 .. ChunkLen \div BlockLen |-> Bytes(from + BlockLen * (b - 1), BlockLen)]

compress_chunks_parallel(from, len, counter, degree) ==
    LET n == len \div ChunkLen
        whole == hash_many([j \in 1 .. n |-> ChunkBlocks(from + ChunkLen * (j - 1))],
                           counter, TRUE, OfChunk, degree)
    IN  IF len % ChunkLen = 0 THEN whole
        ELSE Append(whole, ChunkCv(from + n * ChunkLen, len % ChunkLen, counter + n))

compress_parents_parallel(cvs, degree) ==
    LET n == Len(cvs) \div 2
        parents == hash_many([j \in 1 .. n |-> <<Pair(cvs[2 * j - 1], cvs[2 * j])>>],
                             0, FALSE, OfParent, degree)
    IN  IF Len(cvs) % 2 = 0 THEN parents ELSE Append(parents, Last(cvs))

OneLaneOffset(left_len, degree) == degree

(* degree = 2 when the left side has more than one chunk and there are no  *)
(* vectors: its chaining values then are two.                              *)
RightOffset(left_len, degree) ==
    IF left_len > ChunkLen /\ degree = 1 THEN 2 ELSE degree

(* The first n entries of cv_array, in which the chaining values of the    *)
(* left side are stored at 0 and those of the right side at offset.        *)
CvArray(left, right, offset, n) ==
    [i \in 1 .. n |->
        IF i > offset /\ i <= offset + Len(right) THEN right[i - offset]
        ELSE IF i <= Len(left) THEN left[i] ELSE Garbage]

RECURSIVE compress_subtree_wide(_, _, _, _)
compress_subtree_wide(from, len, counter, degree) ==
    IF len <= degree * ChunkLen THEN compress_chunks_parallel(from, len, counter, degree)
    ELSE LET left_len == left_subtree_len(len)
             offset == RightOffset(left_len, degree)
             left == compress_subtree_wide(from, left_len, counter, degree)
             right == compress_subtree_wide(from + left_len, len - left_len,
                                            counter + (left_len \div ChunkLen), degree)
         IN  IF Len(left) = 1 THEN CvArray(left, right, offset, 2)
             ELSE compress_parents_parallel(
                      CvArray(left, right, offset, Len(left) + Len(right)), degree)

RECURSIVE Condense(_, _)
Condense(cvs, degree) ==
    IF Len(cvs) > 2 THEN Condense(compress_parents_parallel(cvs, degree), degree) ELSE cvs

-----------------------------------------------------------------------------
(* The hasher. The ghost fields deepest and widest record the greatest     *)
(* length that cv_stack had since the last reset and the greatest num_cvs  *)
(* that had to fit the cv_array of compress_subtree_to_parent_node.        *)

blake3_hasher_init(degree) ==
    [chunk |-> chunk_state_reset(0), stack |-> <<>>, degree |-> degree,
     deepest |-> 0, widest |-> 0]

PostMergeLen(total) == popcnt(total)

RECURSIVE hasher_merge_cv_stack(_, _)
hasher_merge_cv_stack(stack, total) ==
    LET n == Len(stack) IN
    IF n > PostMergeLen(total)
    THEN hasher_merge_cv_stack(
             Append(SubSeq(stack, 1, n - 2),
                    output_chaining_value(parent_output(stack[n - 1], stack[n]))),
             total)
    ELSE stack

hasher_push_eagerly(h, cv, counter) ==
    LET stack == hasher_merge_cv_stack(Append(h.stack, cv), counter + 1)
    IN  [h EXCEPT !.stack = stack]

(* The merges that counter chunks allow are done before the push, never    *)
(* after it: the pair that is the root must not be compressed as a parent. *)
hasher_push_cv(h, cv, counter) ==
    LET stack == Append(hasher_merge_cv_stack(h.stack, counter), cv)
    IN  [h EXCEPT !.stack = stack,
                  !.deepest = IF Len(stack) > @ THEN Len(stack) ELSE @]

(* The chunk that is full, with more input to come.                        *)
PushChunk(h) ==
    [hasher_push_cv(h, output_chaining_value(chunk_state_output(h.chunk)),
                    h.chunk.counter)
        EXCEPT !.chunk = chunk_state_reset(h.chunk.counter + 1)]

(* while (((subtree_len - 1) & count_so_far) != 0) subtree_len /= 2        *)
RECURSIVE Shrink(_, _)
Shrink(subtree_len, count_so_far) ==
    IF count_so_far % subtree_len # 0 THEN Shrink(subtree_len \div 2, count_so_far)
    ELSE subtree_len

SubtreeLen(len, counter) ==
    Shrink(round_down_to_power_of_2(len), counter * ChunkLen)

PushSubtree(h, from, subtree_len) ==
    LET counter == h.chunk.counter
        cvs == compress_subtree_wide(from, subtree_len, counter, h.degree)
        pair == Condense(cvs, h.degree)
        pushed ==
            IF subtree_len <= ChunkLen
            THEN hasher_push_cv(h, ChunkCv(from, subtree_len, counter), counter)
            ELSE [hasher_push_cv(hasher_push_cv(h, pair[1], counter), pair[2],
                                 counter + ((subtree_len \div ChunkLen) \div 2))
                     EXCEPT !.widest = IF Len(cvs) > @ THEN Len(cvs) ELSE @]
    IN  [pushed EXCEPT !.chunk.counter = @ + (subtree_len \div ChunkLen)]

RECURSIVE PushSubtrees(_, _, _)
PushSubtrees(h, from, len) ==
    IF len > ChunkLen
    THEN LET n == SubtreeLen(len, h.chunk.counter)
         IN  PushSubtrees(PushSubtree(h, from, n), from + n, len - n)
    ELSE IF len > 0
    THEN [h EXCEPT !.chunk = chunk_state_update(@, from, len),
                   !.stack = hasher_merge_cv_stack(@, h.chunk.counter)]
    ELSE h

blake3_hasher_update(h, from, len) ==
    LET held == chunk_state_len(h.chunk)
        take == IF held > 0 THEN Least(ChunkLen - held, len) ELSE 0
        filled == [h EXCEPT !.chunk = chunk_state_update(@, from, take)]
    IN  IF len = 0 THEN h
        ELSE IF held = 0 THEN PushSubtrees(h, from, len)
        ELSE IF len = take THEN filled
        ELSE PushSubtrees(PushChunk(filled), from + take, len - take)

(* The parents of the right edge, from the innermost out.                  *)
RECURSIVE RightEdge(_, _, _)
RightEdge(stack, n, o) ==
    IF n = 0 THEN o
    ELSE RightEdge(stack, n - 1, parent_output(stack[n], output_chaining_value(o)))

blake3_hasher_finalize(h) ==
    LET n == Len(h.stack) IN
    IF n = 0 THEN output_root_bytes(chunk_state_output(h.chunk))
    ELSE IF chunk_state_len(h.chunk) > 0
    THEN output_root_bytes(RightEdge(h.stack, n, chunk_state_output(h.chunk)))
    ELSE output_root_bytes(RightEdge(h.stack, n - 2,
                                     parent_output(h.stack[n - 1], h.stack[n])))

blake3_hasher_reset(h) ==
    [h EXCEPT !.chunk = chunk_state_reset(0), !.stack = <<>>, !.deepest = 0, !.widest = 0]

-----------------------------------------------------------------------------
(* The tree of BLAKE3, from its definition: a node of more than one chunk  *)
(* has on its left the greatest power of 2 of chunks that leaves something *)
(* for its right; a chunk is its blocks chained; only the root has ROOT.   *)

RECURSIVE TreeNode(_, _, _)
TreeNode(from, len, flags) ==
    IF len <= ChunkLen
    THEN LET n == IF len = 0 THEN 1 ELSE (len + BlockLen - 1) \div BlockLen
             counter == from \div ChunkLen
             cv[b \in 0 .. n] ==
                IF b = 0 THEN Key
                ELSE LET length == Least(BlockLen, len - BlockLen * (b - 1))
                     IN  [cv |-> cv[b - 1],
                          block |-> Bytes(from + BlockLen * (b - 1), length),
                          len |-> length,
                          counter |-> IF b = n /\ "ROOT" \in flags THEN 0 ELSE counter,
                          flags |-> {f \in {"CHUNK_START", "CHUNK_END"} :
                                        \/ f = "CHUNK_START" /\ b = 1
                                        \/ f = "CHUNK_END" /\ b = n}
                                    \union (IF b = n THEN flags ELSE {})]
         IN  cv[n]
    ELSE LET left == CHOOSE l \in {ChunkLen * (2 ^ k) : k \in 0 .. 12} :
                        l < len /\ 2 * l >= len
         IN  [cv |-> Key,
              block |-> Pair(TreeNode(from, left, {}),
                             TreeNode(from + left, len - left, {})),
              len |-> BlockLen, counter |-> 0, flags |-> {"PARENT"} \union flags]

(* The digest of the first len bytes.                                      *)
TreeHash(len) == TreeNode(0, len, {"ROOT"})
=============================================================================
