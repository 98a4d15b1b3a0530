----------------------------- MODULE Attention -----------------------------
(***************************************************************************)
(* The attention kernels of matvec.c over a key/value cache in f16 or q8.  *)
(* The heads are split among the threads of an OpenMP loop: a KV head with *)
(* all the query heads that share it, or, when there is one KV head only,  *)
(* a query head.  The softmax is computed in one pass: with every row the  *)
(* sum and the output so far are scaled down to the new greatest score.    *)
(*                                                                         *)
(* A weight exp(a) is the number a.  A sum of weights is a function from   *)
(* its terms to their exponents, so scaling it adds to all of them.        *)
(***************************************************************************)
EXTENDS Integers, FiniteSets, FiniteSetsExt, TLC

CONSTANTS Threads,  \* threads of the parallel loop
          Calls     \* what the engine asks for

VARIABLES call,    \* cache, heads, kvheads, s0, pos, and the score of each row
          pool,    \* turns of the loop no thread has taken yet
          worker,  \* what each thread does
          out      \* the finished heads: their sum of rows, and the sum of the weights

vars == <<call, pool, worker, out>>

\* A head before its first row.
NegInf == -1000
Fresh == [m |-> NegInf, l |-> <<>>, og |-> <<>>]
Free == [turn |-> {}, s |-> 0, kv |-> <<>>, head |-> <<>>]

-----------------------------------------------------------------------------
(* Vectors: the sum a head builds up is a function from rows of the cache  *)
(* (row and KV head) to the exponents of their weights.  The scale of a q8 *)
(* row stands before it.                                                   *)

Scale(sum, a) == [e \in DOMAIN sum |-> sum[e] + a]
Axpy(sum, row, p) == sum @@ (row :> p)
\* The product of a query head and a row: some number, another one for another KV head.
Dot(h, row) == call.score[row[1]] * (1 + h) - 5 * row[2]

\* A row of the cache for a KV head, converted to floats.
F16Row(s, kv) == <<s, kv>>
Q8Row(s, kv) == <<s, kv>>

Greater(a, b) == IF a > b THEN a ELSE b
\* The next row of a head.
Online(head, sc, row) ==
    LET mnew == Greater(sc, head.m)
        alpha == head.m - mnew
    IN  [m |-> mnew,
         l |-> Axpy(Scale(head.l, alpha), row, sc - mnew),
         og |-> Axpy(IF alpha # 0 THEN Scale(head.og, alpha) ELSE head.og, row, sc - mnew)]

-----------------------------------------------------------------------------
(* attn_kv_f16 and attn_kv_q8.                                             *)

Gqa(c) == Max({1, c.heads \div c.kvheads})
\* The heads of a turn of the loop.
SharedTurns(c) == {{kv * Gqa(c) + g : g \in 0..(Gqa(c) - 1)} : kv \in 0..(c.kvheads - 1)}
Shared(c) == c.kvheads >= 2
Turns(c) == IF Shared(c) THEN SharedTurns(c) ELSE {{h} : h \in 0..(c.heads - 1)}

Init ==
    /\ call \in Calls
    /\ pool = Turns(call)
    /\ worker = [t \in Threads |-> Free]
    /\ out = <<>>

Take(t) ==
    /\ worker[t] = Free
    /\ \E turn \in pool :
        /\ pool' = pool \ {turn}
        /\ worker' = [worker EXCEPT ![t] =
                         [turn |-> turn, s |-> call.s0,
                          kv |-> IF Shared(call) THEN Min(turn) \div Gqa(call) ELSE 0,
                          head |-> [h \in turn |-> Fresh]]]
    /\ UNCHANGED <<call, out>>

\* One row, read once for all the heads of the turn.
Step(t, row) ==
    LET w == worker[t]
    IN  /\ w # Free /\ w.s <= call.pos
        /\ worker' = [worker EXCEPT
                ![t].s = @ + 1,
                ![t].head = [h \in w.turn |-> Online(@[h], Dot(h, row), row)]]
        /\ UNCHANGED <<call, pool, out>>
GqaF16(t) == Shared(call) /\ call.cache = "f16" /\ Step(t, F16Row(worker[t].s, worker[t].kv))
QhF16(t) == ~Shared(call) /\ call.cache = "f16" /\ Step(t, F16Row(worker[t].s, worker[t].kv))
GqaQ8(t) == Shared(call) /\ call.cache = "q8" /\ Step(t, Q8Row(worker[t].s, worker[t].kv))
QhQ8(t) == ~Shared(call) /\ call.cache = "q8" /\ Step(t, Q8Row(worker[t].s, worker[t].kv))

\* The sum divided by the sum of the weights.
Finish(t) ==
    LET w == worker[t] IN
    /\ w # Free /\ w.s > call.pos
    /\ out' = [h \in w.turn |-> <<w.head[h].og, w.head[h].l>>] @@ out
    /\ worker' = [worker EXCEPT ![t] = Free]
    /\ UNCHANGED <<call, pool>>

Done == pool = {} /\ \A t \in Threads : worker[t] = Free

Next == \E t \in Threads : Take(t) \/ GqaF16(t) \/ QhF16(t) \/ GqaQ8(t) \/ QhQ8(t) \/ Finish(t)
Spec == Init /\ [][Next]_vars

-----------------------------------------------------------------------------
\* The finished output of every head is the softmax of its scores over the rows s0..pos of
\* its KV head: no exponent is above 0, and the weights and their sum agree.
KVHeadOf(h) == (h * call.kvheads) \div call.heads
Scores(h) == [row \in (call.s0..call.pos) \X {KVHeadOf(h)} |-> Dot(h, row)]
Softmax(h) ==
    LET greatest == Max({Scores(h)[row] : row \in DOMAIN Scores(h)})
    IN  [row \in DOMAIN Scores(h) |-> Scores(h)[row] - greatest]
SoftmaxRight == Done => out = [h \in 0..(call.heads - 1) |-> <<Softmax(h), Softmax(h)>>]
=============================================================================
