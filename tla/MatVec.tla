------------------------------- MODULE MatVec -------------------------------
(***************************************************************************)
(* The matrix products of matvec.c.  A call splits the rows of the matrix  *)
(* among the threads of an OpenMP loop; each goes through the blocks of    *)
(* its rows (or the panels, for W4) and adds up products, straight from    *)
(* the block or from a buffer it dequantises the block to; at the end it   *)
(* stores the sums.  lm_head_chunked makes several calls.  The loops over  *)
(* the bytes of a block are in KQuants and W4Panels.                       *)
(***************************************************************************)
EXTENDS KQuants, TLC

CONSTANTS Threads,  \* threads of a parallel loop
          Calls,    \* what the engine asks for
          Page,     \* bytes of a page, 4096 in the code
          MaxRows   \* rows lm_head_chunked takes at most, 2048 or 4096 in the code

W4 == INSTANCE W4Panels

VARIABLES call,    \* the call under way
          first,   \* the rows of this parallel loop: first, first + 1, ... (n of them)
          n,
          pool,    \* groups of rows no thread has taken yet
          worker,  \* what each thread does
          tmp,     \* the buffers for a dequantised block
          y        \* the results stored so far: which product stands at an index

vars == <<call, first, n, pool, worker, tmp, y>>

(* A call has op (matmul, head, batch, embed, dequant), dtype, build, out  *)
(* rows, nb blocks in a row, the number of tokens and, for embed, the row; *)
(* for W4 also the layout of the file and prefer (see W4Panels).           *)

Idle == [rows |-> {}, b |-> 0, loaded |-> FALSE, right |-> {}]
Bad == <<>>   \* no block of the matrix, or a wrong product
IsW4 == call.dtype = "w4"
Tokens == 0..(call.tokens - 1)

-----------------------------------------------------------------------------
(* Where blocks are.                                                       *)

BlockBytes == [q4k |-> 144, iq4xs |-> 144, q6k |-> 210, q5k |-> 176, f16 |-> 512, w4 |-> 320]
\* The block that stands at an offset in the file.
BlockAt(offset) ==
    LET b == offset \div BlockBytes[call.dtype]
    IN  IF offset % BlockBytes[call.dtype] = 0 THEN <<b \div call.nb, b % call.nb>> ELSE Bad

MatmulRowBytes(dtype, nb) == IF dtype \in {"q4k", "iq4xs", "q6k"} THEN nb * BlockBytes[dtype] ELSE 0
BatchBytes(dtype) ==
    CASE dtype \in {"q6k", "q5k", "f16", "w4"} -> BlockBytes[dtype] [] OTHER -> 144
RowBytes == call.nb * (IF call.op = "batch" THEN BatchBytes(call.dtype) ELSE BlockBytes[call.dtype])
Offset(row, b) == row * RowBytes + b * (RowBytes \div call.nb)

\* matmul_iq4xs and embed_iq4xs take the scale of the first block of the row.
ScaleOf(row, b) ==
    IF call.dtype = "iq4xs" /\ call.op \in {"matmul", "head", "embed"} THEN BlockAt(Offset(row, 0))
    ELSE BlockAt(Offset(row, b))

-----------------------------------------------------------------------------
(* The parallel loops.                                                     *)

\* Groups of rows that one turn of the loop computes.
Panels(rows) == {(8 * h)..(8 * h + 7) : h \in 0..((rows + 7) \div 8 - 1)}
Twos(rows) == {{r \in 0..(rows - 1) : r \div 2 = p} : p \in 0..((rows + 1) \div 2 - 1)}
Singles(rows) == {{r} : r \in 0..(rows - 1)}
Groups(c, rows) ==
    CASE c.dtype = "w4" -> Panels(rows)
      [] c.op \in {"matmul", "head"} /\ InPairs(c.dtype, c.build) -> Twos(rows)
      [] OTHER -> Singles(rows)

\* head_chunk_rows: the most rows that end at the end of a page.
ChunkRows(c) ==
    LET bytes == MatmulRowBytes(c.dtype, c.nb)
        whole == {r \in 1..MaxRows : (r * bytes) % Page = 0}
    IN  IF bytes = 0 \/ whole = {} THEN 0 ELSE CHOOSE r \in whole : \A s \in whole : s <= r
\* Rows of the next call of lm_head_chunked, from row "from" on.
NextRows(c, from) ==
    IF c.op = "head" /\ ChunkRows(c) # 0 /\ from + ChunkRows(c) <= c.out THEN ChunkRows(c)
    ELSE c.out - from

Region(c, from, rows) == first' = from /\ n' = rows /\ pool' = Groups(c, rows)

Init ==
    /\ call \in Calls
    /\ first = IF call.op = "embed" THEN call.row ELSE 0
    /\ n = IF call.op = "embed" THEN 1 ELSE NextRows(call, 0)
    /\ pool = Groups(call, n)
    /\ worker = [t \in Threads |-> Idle]
    /\ tmp = [t \in Threads |-> Bad]
    /\ y = <<>>

-----------------------------------------------------------------------------
(* What a thread does in a turn: the blocks of its rows one after the     *)
(* other.  A sum is right as long as every block added the products of its *)
(* weights and its part of the activation.                                 *)

Take(t) ==
    /\ worker[t] = Idle
    /\ \E rows \in pool :
        /\ pool' = pool \ {rows}
        /\ worker' = [worker EXCEPT ![t] =
                         [rows |-> rows, b |-> 0, loaded |-> FALSE, right |-> rows \X Tokens]]
    /\ UNCHANGED <<call, first, n, tmp, y>>

Linear == call.op \in {"matmul", "head"}
AllFused(dtype) ==
    {<<b, p, l>> \in {"scalar", "avx2", "neon"} \X BOOLEAN \X BOOLEAN :
        Sums(dtype, FusedLoop(dtype, b, p, l))}
AllRight == [q4k |-> AllFused("q4k"), q6k |-> AllFused("q6k"), q5k |-> AllFused("q5k")]
AllBlocks == [d \in {"q4k", "q6k", "q5k", "iq4xs"} |-> Dequantised(d)]

\* The block that dequantising block b of a row yields.
Weights(row, b) ==
    LET at == BlockAt(Offset(row, b))
    IN  IF call.dtype = "f16" \/ (AllBlocks[call.dtype] /\ ScaleOf(row, b) = at) THEN at ELSE Bad

\* Products go through a buffer.
Buffered ==
    /\ call.dtype \in {"q4k", "q6k", "q5k", "iq4xs"}
    /\ call.op = "batch" \/ (Linear /\ ~HasFused(call.dtype, call.build))

\* One for all threads. \* mutant
BufferShared(t) == CHOOSE u \in Threads : TRUE
\* Every thread has a buffer of its own.
BufferOf(t) == t

Load(t) ==
    /\ worker[t] # Idle
    /\ Buffered /\ ~worker[t].loaded /\ worker[t].b < call.nb
    /\ \E r \in worker[t].rows : tmp' = [tmp EXCEPT ![BufferOf(t)] = Weights(first + r, worker[t].b)]
    /\ worker' = [worker EXCEPT ![t].loaded = TRUE]
    /\ UNCHANGED <<call, first, n, pool, y>>

Prequantised == call.op = "head" /\ call.dtype = "q6k" /\ ChunkRows(call) # 0
FusedRight(w, r) ==
    /\ <<call.build, Prequantised, Cardinality(w.rows) = 1>> \in AllRight[call.dtype]
    /\ BlockAt(Offset(first + r, w.b)) = <<first + r, w.b>>

PanelAt(h, b) == BlockAt((h * call.nb + b) * BlockBytes.w4)
W4Right(w, r, token) ==
    LET panel == W4!Panel(call.layout)
        arm86 == call.layout = "arm86"
        oc == r % 8
        added == CASE Linear -> W4!OneToken(call.build, call.prefer, panel, arm86, oc, token)
                   [] call.op = "batch" -> W4!Batch(call.build, panel, arm86, oc, token, call.tokens)
                   [] OTHER -> W4!CellsInOrder(panel, oc, token)
    IN  W4!Adds(added, oc, token) /\ PanelAt(r \div 8, w.b) = <<r \div 8, w.b>>

AddsRight(t, r, token) ==
    LET w == worker[t]
    IN  CASE IsW4 -> W4Right(w, r, token)
          [] Buffered -> tmp[BufferOf(t)] = <<first + r, w.b>>
          [] Linear /\ call.dtype # "f16" -> FusedRight(w, r)
          [] OTHER -> Weights(first + r, w.b) = <<first + r, w.b>>

Add(t) ==
    /\ worker[t] # Idle
    /\ worker[t].loaded = Buffered /\ worker[t].b < call.nb
    /\ worker' = [worker EXCEPT
            ![t].b = @ + 1,
            ![t].loaded = FALSE,
            ![t].right = {e \in @ : AddsRight(t, e[1], e[2])}]
    /\ UNCHANGED <<call, first, n, pool, tmp, y>>

\* What the last panel has too many rows of is not stored.
Place(r, token) == token * call.out + (IF call.op = "embed" THEN 0 ELSE first) + r
Store(t) ==
    LET w == worker[t] IN
    /\ w # Idle
    /\ w.b = call.nb
    /\ LET done == {e \in w.rows \X Tokens : e[1] < n}
           Value(e) == IF e \in w.right THEN <<first + e[1], e[2]>> ELSE Bad
       IN  y' = [l \in {Place(e[1], e[2]) : e \in done} |->
                    Value(CHOOSE e \in done : Place(e[1], e[2]) = l)] @@ y
    /\ worker' = [worker EXCEPT ![t] = Idle]
    /\ UNCHANGED <<call, first, n, pool, tmp>>

Ended == pool = {} /\ \A t \in Threads : worker[t] = Idle
Done == Ended /\ (call.op = "head" => first + n = call.out)

\* lm_head_chunked goes on with the next rows.
NextChunk ==
    /\ Ended /\ ~Done
    /\ Region(call, first + n, NextRows(call, first + n))
    /\ UNCHANGED <<call, worker, tmp, y>>

Next ==
    \/ \E t \in Threads : Take(t) \/ Load(t) \/ Add(t) \/ Store(t)
    \/ NextChunk

Spec == Init /\ [][Next]_vars

-----------------------------------------------------------------------------
\* Whatever the type, the instruction set, the split among threads and into chunks: result
\* l is the product of its row and its token, from every block of the row once, and every
\* result is there (for embed, the row asked for).
DotsRight ==
    Done => y = IF call.op = "embed" THEN [l \in {0} |-> <<call.row, 0>>]
                ELSE [l \in 0..(call.out * call.tokens - 1) |-> <<l % call.out, l \div call.out>>]
=============================================================================
