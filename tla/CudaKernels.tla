---------------------------- MODULE CudaKernels ----------------------------
(***************************************************************************)
(* The kernels of cuda_kernels.cu.  A call launches grids of blocks one    *)
(* after the other; a block consists of warps of threads that share "sh".  *)
(* The threads of a warp run in step, warps and blocks in any order, held  *)
(* together by __syncthreads only.                                         *)
(*                                                                         *)
(* A float is the term it was computed by, a sum the bag of its terms.  As *)
(* in Attention, a weight exp(a) is the number a, and a sum of weights the *)
(* function from its terms to their exponents.                             *)
(***************************************************************************)
EXTENDS KQuants, Sequences, Bags, FiniteSetsExt, TLC

CONSTANTS Calls,    \* what cuda_fwd.c asks for
          Warp,     \* threads of a warp, 32
          Wide,     \* threads of a block of most kernels, 256
          GemvMax   \* most threads for a row of Q4_K blocks, 128

VARIABLES call,    \* op, B tokens, the sizes, and what else op needs
          todo,    \* launches: the one that runs, and those that follow in the stream
          warp,    \* what each warp of the running launch does
          sh,      \* shared memory of each block
          mem,     \* what the call writes
          half     \* d_xf16, the activation for cublas

vars == <<call, todo, warp, sh, mem, half>>

Old == <<"old">>      \* what stood in a buffer before
NegInf == -1000
Ceil(a, b) == (a + b - 1) \div b
\* for (p = from; p < t; ) p <<= 1
PowerFrom(from, t) == Min({p \in {from * 2^k : k \in 0..10} : p >= t})

\* The tuples of W stored to buffer m.
Put(m, W) == [i \in {w[1] : w \in W} |-> (CHOOSE w \in W : w[1] = i)[2]] @@ m

-----------------------------------------------------------------------------
(* Launches: <<<gx, gy>, threads>>> of a kernel, for token tok.            *)

Launch(kernel, gx, gy, threads) ==
    [k |-> kernel, gx |-> gx, gy |-> gy, threads |-> threads, tok |-> 0]

Elementwise == {"add", "bias", "swiglu", "geglu", "gelu", "mul", "scale"}
Rope == {"llama", "qwen", "neox"}
Total == call.n * call.B

\* Threads of a matrix row in Q4_K: one for each block, a power of two.
GemvThreads(nb) == PowerFrom(1, Min({nb, GemvMax}))
LaunchQ4k(c) == <<Launch("q4k", c.out, c.B, GemvThreads(c.nb))>>

\* A product in FP16 by cublas, on a copy of the activation, or by k_gemv_f16 for every token.
LaunchF16(c) ==
    IF c.cublas
    THEN <<Launch("half", Ceil(c.B * c.n, Wide), 1, Wide), Launch("cublas", 1, 1, 1)>>
    ELSE [b \in 1..c.B |-> [Launch("f16", Ceil(c.out, Wide), 1, Wide) EXCEPT !.tok = b - 1]]

RopeThreads(c) ==
    CASE c.op = "llama" -> Warp * Ceil(c.n \div 2, Warp)
      [] c.op = "qwen" -> Max({c.n \div 2, Warp})
      [] c.op = "neox" -> c.n \div 2
LaunchRope(c) ==
    IF c.op = "neox" /\ c.pos = 0 THEN <<>> ELSE <<Launch(c.op, c.heads, c.B, RopeThreads(c))>>

AttnThreads(n) == PowerFrom(Warp, n)
LaunchAttn(c) == <<Launch("attn", c.heads, c.B, AttnThreads(c.n))>>

Launches(c) ==
    CASE c.op \in Elementwise -> <<Launch(c.op, Ceil(c.n * c.B, Wide), 1, Wide)>>
      [] c.op \in {"norm", "unit"} -> <<Launch(c.op, c.B, 1, Wide)>>
      [] c.op \in {"store", "embed"} -> <<Launch(c.op, Ceil(c.n, Wide), c.B, Wide)>>
      [] c.op = "embedq4k" -> <<Launch("embedq4k", c.nb, c.B, 1)>>
      [] c.op \in Rope -> LaunchRope(c)
      [] c.op = "q4k" -> LaunchQ4k(c)
      [] c.op = "f16" -> LaunchF16(c)
      [] c.op = "attn" -> LaunchAttn(c)

\* Kernels whose threads add up in shared memory.
Reducing == {"norm", "unit", "q4k", "attn"}
InWarp(l, w) == {t \in 0..(l.threads - 1) : t \div Warp = w}
BlocksOf(l) == (0..(l.gx - 1)) \X (0..(l.gy - 1))
WarpsOf(l) == BlocksOf(l) \X (0..(Ceil(l.threads, Warp) - 1))
Ready(l) ==
    [x \in WarpsOf(l) |->
        [pc |-> IF l.k \in Reducing THEN "load" ELSE "run", stride |-> l.threads,
         s |-> call.s0, m |-> NegInf, l |-> <<>>, o |-> [t \in InWarp(l, x[2]) |-> <<>>]]]
NoSums(l) == [b \in BlocksOf(l) |-> [t \in 0..(l.threads - 1) |-> EmptyBag]]

-----------------------------------------------------------------------------
(* Q4_K.                                                                   *)

q4k_scale_min(g) ==
    IF g < 4 THEN [d |-> {<<g, "low6">>}, m |-> {<<g + 4, "low6">>}]
    ELSE [d |-> {<<g + 4, "low4">>, <<g - 4, "top2">>}, m |-> {<<g + 4, "high4">>, <<g, "top2">>}]

q4k_dot256 ==
    LET turns == (0..7) \X (0..3)
    IN  Fused([<<g, k>> \in turns |->
                  Product(4 * (g \div 2) + k, g % 2, Nothing, q4k_scale_min(g).d, 4 * g + k)],
              [<<g, k>> \in turns |-> Off(q4k_scale_min(g).m, Nothing, 4 * g + k)])
DotRight == Sums("q4k", q4k_dot256)

q4k_dequant256 ==
    [<<g, k>> \in (0..7) \X (0..3) |->
        Stored(4 * g + k, Weight(4 * (g \div 2) + k, g % 2, Nothing, q4k_scale_min(g).d, q4k_scale_min(g).m))]

-----------------------------------------------------------------------------
(* What a call writes to, and what a thread without neighbours does.       *)

KvDim == call.kvheads * call.n
KvHead(h) == (h * call.kvheads) \div call.heads
\* The elements of q and of att_out of head b[1] and token b[2].
Base(b) == (b[2] * call.heads + b[1]) * call.n

Outputs ==
    CASE call.op \in Elementwise \cup {"norm", "unit", "embed"} -> 0..(Total - 1)
      [] call.op \in Rope \cup {"attn"} -> 0..(call.heads * Total - 1)
      [] call.op = "store" -> {"k", "v"} \X (0..((call.pos + call.B + 1) * call.n - 1))
      [] call.op = "embedq4k" -> 0..(32 * call.nb * call.B - 1)
      [] call.op \in {"q4k", "f16"} -> 0..(call.out * call.B - 1)

\* Element i of the operand, which the result may replace.
X(i) == IF call.inplace THEN mem[i] ELSE <<"x", i>>

\* The other operand of element i.
Other(i) ==
    CASE call.op = "bias" -> <<"b", i % call.n>>
      [] call.op \in {"add", "swiglu", "geglu", "mul"} -> <<"b", i>>
      [] call.op = "scale" -> <<"s">>
      [] call.op = "gelu" -> <<>>

Element(i) == IF i < Total THEN {<<i, <<call.op, X(i), Other(i)>>>>} ELSE {}

\* A pair (u, v) rotated by an angle of frequency j.
Rotated(u, v, j, pos) == IF pos = 0 THEN <<u, v>> ELSE <<<<"cos", u, v, j, pos>>, <<"sin", u, v, j, pos>>>>
Partners(j) == IF call.op = "llama" THEN <<2 * j, 2 * j + 1>> ELSE <<j, j + call.n \div 2>>
RotatePair(b, j) ==
    LET u == Base(b) + Partners(j)[1]
        v == Base(b) + Partners(j)[2]
        r == Rotated(X(u), X(v), j, call.pos + b[2])
    IN  IF j < call.n \div 2 THEN {<<u, r[1]>>, <<v, r[2]>>} ELSE {}

StoreKv(j, token) ==
    IF j < call.n
    THEN {<<<<c, (call.pos + token) * call.n + j>>, <<c, token * call.n + j>>>> : c \in {"k", "v"}}
    ELSE {}

EmbedF16(i, token) ==
    IF i < call.n THEN {<<token * call.n + i, <<call.tokens[token + 1] * call.n + i>>>>} ELSE {}
EmbedQ4k(blk, token) ==
    {<<32 * (token * call.nb + blk) + q4k_dequant256[e][1],
       <<call.tokens[token + 1] * call.nb + blk, q4k_dequant256[e][2]>>>> : e \in DOMAIN q4k_dequant256}

\* A row of the matrix with an activation.
GemvF16(o, token) ==
    IF o < call.out
    THEN {<<token * call.out + o, {<<o * call.n + k, X(token * call.n + k)>> : k \in 0..(call.n - 1)}>>}
    ELSE {}
CublasGemm ==
    {<<token * call.out + o, {<<o * call.n + k, half[token * call.n + k]>> : k \in 0..(call.n - 1)}>> :
        token \in 0..(call.B - 1), o \in 0..(call.out - 1)}

\* What thread t of block b stores.
StoresOf(l, b, t) ==
    LET i == b[1] * l.threads + t
    IN  CASE l.k \in Elementwise -> Element(i)
          [] l.k \in Rope -> RotatePair(b, t)
          [] l.k = "store" -> StoreKv(i, b[2])
          [] l.k = "embed" -> EmbedF16(i, b[2])
          [] l.k = "embedq4k" -> EmbedQ4k(b[1], b[2])
          [] l.k = "f16" -> GemvF16(i, l.tok)
          [] l.k = "cublas" -> CublasGemm

-----------------------------------------------------------------------------
Init ==
    /\ call \in Calls
    /\ todo = Launches(call)
    /\ warp = IF todo = <<>> THEN <<>> ELSE Ready(todo[1])
    /\ sh = IF todo = <<>> THEN <<>> ELSE NoSums(todo[1])
    /\ mem = [i \in Outputs |-> IF call.inplace THEN <<"x", i>> ELSE Old]
    /\ half = <<>>

This == todo[1]
At(b, w, pc) == <<b, w>> \in DOMAIN warp /\ warp[<<b, w>>].pc = pc
Goto(b, w, pc) == warp' = [warp EXCEPT ![<<b, w>>].pc = pc]

\* A warp of a kernel without shared memory.
Run(b, w) ==
    /\ At(b, w, "run")
    /\ Goto(b, w, "end")
    /\ IF This.k = "half"
       THEN /\ half' = Put(half, {<<i, <<"x", i>>>> : i \in
                           {b[1] * This.threads + t : t \in InWarp(This, w)} \cap 0..(Total - 1)})
            /\ UNCHANGED mem
       ELSE /\ mem' = Put(mem, UNION {StoresOf(This, b, t) : t \in InWarp(This, w)})
            /\ UNCHANGED half
    /\ UNCHANGED <<call, todo, sh>>

\* The part of the sum that thread t starts with: every threads-th term.
Turns(n, t) == {i \in 0..(n - 1) : i % This.threads = t}
Query(b, s, t) ==
    IF t < call.n THEN {<<Base(b) + t, s * KvDim + KvHead(b[1]) * call.n + t>>} ELSE {}
Part(b, s, t) ==
    SetToBag(CASE This.k \in {"norm", "unit"} -> {X(b[1] * call.n + i) : i \in Turns(call.n, t)}
               [] This.k = "q4k" ->
                    {<<b[1] * call.nb + k, b[2] * call.nb + k, DotRight>> : k \in Turns(call.nb, t)}
               [] This.k = "attn" -> Query(b, s, t))

Load(b, w) ==
    /\ At(b, w, "load")
    /\ sh' = [sh EXCEPT ![b] = [t \in DOMAIN @ |->
                 IF t \in InWarp(This, w) THEN Part(b, warp[<<b, w>>].s, t) ELSE @[t]]]
    /\ warp' = [warp EXCEPT ![<<b, w>>].pc = "sync", ![<<b, w>>].stride = This.threads]
    /\ UNCHANGED <<call, todo, mem, half>>

\* Some warp of block b has arrived. \* mutant
ArrivedFirst(b) == \E x \in DOMAIN warp : x[1] = b /\ warp[x].pc = "sync"
\* All warps of block b have arrived.
Arrived(b) == \A x \in DOMAIN warp : x[1] = b => warp[x].pc = "sync"

syncthreads(b) ==
    /\ b \in DOMAIN sh /\ Arrived(b)
    /\ warp' = [x \in DOMAIN warp |->
                  IF x[1] # b \/ warp[x].pc # "sync" THEN warp[x]
                  ELSE [warp[x] EXCEPT !.stride = @ \div 2, !.pc = IF warp[x].stride > 1 THEN "fold" ELSE "read"]]
    /\ UNCHANGED <<call, todo, sh, mem, half>>

Fold(b, w) ==
    /\ At(b, w, "fold")
    /\ LET n == warp[<<b, w>>].stride
       IN  sh' = [sh EXCEPT ![b] = [t \in DOMAIN @ |->
                     IF t \in InWarp(This, w) /\ t < n THEN @[t] (+) @[t + n] ELSE @[t]]]
    /\ Goto(b, w, "sync")
    /\ UNCHANGED <<call, todo, mem, half>>

\* The sum scales an element, or thread 0 stores it.
Scaled(b, t) ==
    {<<b[1] * call.n + i,
       <<X(b[1] * call.n + i), IF This.k = "norm" THEN <<"w", i>> ELSE <<>>, sh[b][0]>>>> :
        i \in Turns(call.n, t)}
Summed(b, t) == IF t = 0 THEN {<<b[2] * call.out + b[1], sh[b][0]>>} ELSE {}
Read(b, w) ==
    /\ At(b, w, "read") /\ This.k # "attn"
    /\ mem' = Put(mem, UNION {IF This.k = "q4k" THEN Summed(b, t) ELSE Scaled(b, t) : t \in InWarp(This, w)})
    /\ Goto(b, w, "end")
    /\ UNCHANGED <<call, todo, sh, half>>

\* Attention: the product of a query and a row is a number; a sum of anything else is another.
NoScore == 50
Score(b, s, sum) ==
    IF sum = SetToBag(UNION {Query(b, s, t) : t \in 0..(call.n - 1)}) THEN call.score[s] * (1 + b[1]) ELSE NoScore
Rescaled(sum, a) == [e \in DOMAIN sum |-> sum[e] + a]
\* The next row, with the sum over the threads as its score.  A window starts at pos or
\* before (cuda_fwd.c:416), so there is a first one.
ReadRow(b, w) ==
    LET me == warp[<<b, w>>]
        sc == Score(b, me.s, sh[b][0])
        mnew == Max({me.m, sc})
        Row(t) == me.s * KvDim + KvHead(b[1]) * call.n + t
    IN  /\ At(b, w, "read") /\ This.k = "attn"
        /\ warp' = [warp EXCEPT ![<<b, w>>] =
                [me EXCEPT !.m = mnew, !.s = @ + 1,
                           !.pc = IF me.s < call.pos + b[2] THEN "load" ELSE "store",
                           !.l = Rescaled(@, me.m - mnew) @@ (me.s :> sc - mnew),
                           !.o = [t \in DOMAIN @ |->
                                    IF t < call.n THEN Rescaled(@[t], me.m - mnew) @@ (Row(t) :> sc - mnew)
                                    ELSE @[t]]]]
        /\ UNCHANGED <<call, todo, sh, mem, half>>

StoreRow(b, w) ==
    LET me == warp[<<b, w>>] IN
    /\ At(b, w, "store")
    /\ mem' = Put(mem, {<<Base(b) + t, <<me.o[t], me.l>>>> : t \in InWarp(This, w) \cap 0..(call.n - 1)})
    /\ Goto(b, w, "end")
    /\ UNCHANGED <<call, todo, sh, half>>

\* The next launch of the stream.
NextLaunch ==
    LET rest == Tail(todo) IN
    /\ todo # <<>> /\ \A x \in DOMAIN warp : warp[x].pc = "end"
    /\ todo' = rest
    /\ warp' = IF rest = <<>> THEN <<>> ELSE Ready(rest[1])
    /\ sh' = IF rest = <<>> THEN <<>> ELSE NoSums(rest[1])
    /\ UNCHANGED <<call, mem, half>>

Next ==
    \/ \E x \in DOMAIN warp :
          \/ Run(x[1], x[2]) \/ Load(x[1], x[2]) \/ Fold(x[1], x[2])
          \/ Read(x[1], x[2]) \/ ReadRow(x[1], x[2]) \/ StoreRow(x[1], x[2])
    \/ \E b \in DOMAIN sh : syncthreads(b)
    \/ NextLaunch
Spec == Init /\ [][Next]_vars

-----------------------------------------------------------------------------
(* What the calls are to compute, element by element.                      *)

Terms(from, n) == SetToBag({<<"x", from + i>> : i \in 0..(n - 1)})
WantedProduct(i) ==
    LET o == i % call.out
        token == i \div call.out
    IN  IF call.op = "f16" THEN {<<o * call.n + k, <<"x", token * call.n + k>>>> : k \in 0..(call.n - 1)}
        ELSE SetToBag({<<o * call.nb + k, token * call.nb + k, TRUE>> : k \in 0..(call.nb - 1)})
WantedRotation(i) ==
    LET d == i % call.n
        h == call.n \div 2
        first == IF call.op = "llama" THEN d % 2 = 0 ELSE d < h
        step == IF call.op = "llama" THEN 1 ELSE h
        pair == IF first THEN <<i, i + step>> ELSE <<i - step, i>>
        j == IF call.op = "llama" THEN d \div 2 ELSE d % h
        pos == call.pos + i \div (call.n * call.heads)
    IN  IF pos = 0 THEN <<"x", i>>
        ELSE <<IF first THEN "cos" ELSE "sin", <<"x", pair[1]>>, <<"x", pair[2]>>, j, pos>>
\* The rows the token of element i attends to.
Seen(i) == call.s0..(call.pos + i \div (call.n * call.heads))
\* The softmax of the scores of a head, those of the rows "torn" being some other number.
HeadWith(i, torn) ==
    LET h == (i \div call.n) % call.heads
        sc == [s \in Seen(i) |-> IF s \in torn THEN NoScore ELSE call.score[s] * (1 + h)]
        weight == [s \in Seen(i) |-> sc[s] - Max(Range(sc))]
        Row(s) == s * KvDim + KvHead(h) * call.n + (i % call.n)
    IN  <<[r \in {Row(s) : s \in Seen(i)} |-> weight[CHOOSE s \in Seen(i) : Row(s) = r]], weight>>
WantedRow(i) ==
    LET token == i[2] \div call.n - call.pos
    IN  IF token \in 0..(call.B - 1) THEN <<i[1], token * call.n + (i[2] % call.n)>> ELSE Old

Wanted(i) ==
    CASE call.op \in Elementwise -> <<call.op, <<"x", i>>, Other(i)>>
      [] call.op \in {"norm", "unit"} ->
            <<<<"x", i>>, IF call.op = "norm" THEN <<"w", i % call.n>> ELSE <<>>,
              Terms(call.n * (i \div call.n), call.n)>>
      [] call.op \in Rope -> WantedRotation(i)
      [] call.op = "store" -> WantedRow(i)
      [] call.op = "embed" -> <<call.tokens[1 + i \div call.n] * call.n + (i % call.n)>>
      [] call.op = "embedq4k" ->
            <<call.tokens[1 + i \div (32 * call.nb)] * call.nb + ((i \div 32) % call.nb), Q4kFormat[i % 32]>>
      [] call.op \in {"q4k", "f16"} -> WantedProduct(i)
      [] call.op = "attn" -> HeadWith(i, {})

\* attn_block_sum ends without a barrier: while a warp has still to read the score of
\* one row, thread 0 may store its part of the next.  Elements behind the first warp of
\* a head can so get other weights, but no warp misses the score of the last row.
Torn(i) ==
    /\ call.op = "attn" /\ i % call.n >= Warp
    /\ \E torn \in SUBSET (Seen(i) \ {Max(Seen(i))}) : mem[i] = HeadWith(i, torn)

\* When the last launch has ended, every element has the value it is to have, and nothing
\* else has been written, in whatever order warps and blocks ran, but for that race.
LaunchesRight ==
    todo = <<>> => DOMAIN mem = Outputs /\ \A i \in Outputs : mem[i] = Wanted(i) \/ Torn(i)
=============================================================================
