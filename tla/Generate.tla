------------------------------- MODULE Generate -------------------------------
(***************************************************************************)
(* Text is generated one token at a time (engine_generate_mix in           *)
(* inference/core/engine.c): sample from the logits, hand the token out,   *)
(* compute its row.  engine_sample draws from the nucleus of the softmax,  *)
(* with a shorter way for large vocabularies.  With MTP a draft layer      *)
(* guesses the token after the next; a guess equal to the next argmax is   *)
(* handed out without being sampled.                                       *)
(*                                                                         *)
(* A logit is a small integer, exp a power of two, and the random number a *)
(* share of the mass: probabilities stay exact.  Logits come from LogitSet *)
(* and carry the rows they were computed from.                             *)
(***************************************************************************)
EXTENDS Integers, FiniteSets, Sequences, Functions

CONSTANTS
    V,          \* size of the vocabulary
    LogitSet,   \* the logits a forward pass may give: functions 0..V-1 -> Int
    MaxSeq,     \* max_seq: rows of the cache
    Cut,        \* large vocabularies: candidates this far below the best are left out
    Parts,      \* top_p is a number of Parts
    Setups      \* [prompt (not empty), ntokens, temp, topp, eos, large, mtp, hits]: see setup

Token == 0..(V - 1)
None == -1

VARIABLES
    setup,    \* the call: prompt, tokens asked for, temperature (0 greedy), top_p, end of
              \* text, whether the vocabulary is large, MTP, and whether drafts may be right
    pc,
    rows,     \* the token each position was computed from
    pos,
    logits,   \* the logits, the rows they follow, and whether they are as computed
    nxt, draft, pending,
    round,    \* i
    out       \* tokens handed out

vars == <<setup, pc, rows, pos, logits, nxt, draft, pending, round, out>>

-----------------------------------------------------------------------------
(* engine_sample.                                                          *)

Best(z) == CHOOSE t \in Token : /\ \A u \in Token : z[u] <= z[t]
                                /\ \A u \in 0..(t - 1) : z[u] < z[t]
Tempered(z) == IF setup.temp \in {0, 1} THEN z ELSE [t \in Token |-> z[t] \div setup.temp]

\* expf(z - max), for the tokens that are looked at.
Candidates(z) == {t \in Token : setup.large => z[Best(z)] - z[t] <= Cut}
Mass(z) == [t \in Candidates(z) |-> 2 ^ (Cut + 2 - z[Best(z)] + z[t])]

Total(w, S) == SumFunctionOnSet(w, S)
Prefix(order, k) == {order[j] : j \in 1..k}

\* qsort leaves the order of equal probabilities open; without top_p nothing is sorted.
Sorted == setup.topp < Parts
Orders(w) ==
    {o \in [1..Cardinality(DOMAIN w) -> DOMAIN w] :
        \A j, k \in DOMAIN o :
            j < k => IF Sorted THEN o[j] # o[k] /\ w[o[j]] >= w[o[k]] ELSE o[j] < o[k]}

\* How many tokens reach top_p, the mass they have, and the token that a random number falls on.
Reached(w, order) ==
    {k \in DOMAIN order : Total(w, Prefix(order, k)) * Parts >= setup.topp * Total(w, DOMAIN w)}
Keep(w, order) ==
    IF Sorted /\ Reached(w, order) # {}
    THEN CHOOSE k \in Reached(w, order) : \A j \in Reached(w, order) : k <= j
    ELSE Len(order)
KeptAll(w, order) == Total(w, DOMAIN w)   \* mutant: the random number is not scaled to what is kept
Kept(w, order) == Total(w, Prefix(order, Keep(w, order)))
Pick(w, order, r) ==
    LET keep == Keep(w, order)
        hit  == {k \in 1..keep : r < Total(w, Prefix(order, k))}
    IN  order[IF hit = {} THEN keep ELSE CHOOSE k \in hit : \A j \in hit : k <= j]

-----------------------------------------------------------------------------
(* engine_generate_mix.                                                    *)

Pos == 0..(MaxSeq - 1)
RowsTo(p) == [j \in 1..(p + 1) |-> rows'[j - 1]]
Computed(z, p) == [z |-> z, after |-> RowsTo(p), raw |-> TRUE]

\* The cache holds what earlier calls left; None stands for any of it.
Init ==
    /\ setup \in Setups
    /\ pc = "prefill" /\ rows = [p \in Pos |-> None] /\ pos = 0
    /\ logits = [z |-> [t \in Token |-> 0], after |-> <<>>, raw |-> FALSE]
    /\ nxt = None /\ draft = None /\ pending = FALSE /\ round = 0 /\ out = <<>>

\* The whole prompt at once; it may be too long.
Prefill ==
    /\ pc = "prefill"
    /\ LET n == Len(setup.prompt)
       IN  IF n > MaxSeq THEN pc' = "failed" /\ UNCHANGED <<rows, pos, logits>>
           ELSE /\ rows' = [p \in Pos |-> IF p < n THEN setup.prompt[p + 1] ELSE rows[p]]
                /\ \E z \in LogitSet : logits' = Computed(z, n - 1)
                /\ pos' = n /\ pc' = "loop"
    /\ UNCHANGED <<setup, nxt, draft, pending, round, out>>

Stop == /\ pc = "loop" /\ (round >= setup.ntokens \/ pos >= MaxSeq)
        /\ pc' = "done" /\ UNCHANGED <<setup, rows, pos, logits, nxt, draft, pending, round, out>>

\* engine_sample divides and normalises in the buffer of the logits, unless it takes the best
\* or leaves candidates out.
Untouched == setup.temp = 0 \/ (setup.temp = 1 /\ setup.large)
Drawn(z) ==
    IF setup.temp = 0 THEN {Best(z)}
    ELSE LET w == Mass(Tempered(z))
         IN  UNION {{Pick(w, o, r) : r \in 0..(Kept(w, o) - 1)} : o \in Orders(w)}

Sampling == pc = "loop" /\ round < setup.ntokens /\ pos < MaxSeq /\ ~pending

\* The end of text is not handed out; the client may have gone (on_token fails).
Sample ==
    /\ Sampling
    /\ nxt' \in Drawn(logits.z)
    /\ logits' = [logits EXCEPT !.raw = @ /\ Untouched]
    /\ IF nxt' = setup.eos THEN pc' = "done" /\ UNCHANGED out
       ELSE out' = Append(out, nxt') /\ pc' \in {"draft", "done"}
    /\ UNCHANGED <<setup, rows, pos, draft, pending, round>>

\* A draft that was right is the next token; it has been handed out.
TakePending ==
    /\ pc = "loop" /\ round < setup.ntokens /\ pos < MaxSeq /\ pending
    /\ pending' = FALSE /\ pc' = "draft"
    /\ UNCHANGED <<setup, rows, pos, logits, nxt, draft, round, out>>

\* engine_mtp_predict guesses some token from the last hidden state.
Draft ==
    /\ pc = "draft"
    /\ draft' \in IF setup.mtp THEN Token ELSE {None}
    /\ pc' = "forward"
    /\ UNCHANGED <<setup, rows, pos, logits, nxt, pending, round, out>>

\* The row of the token, and the logits of what follows it.
Forward ==
    /\ pc = "forward"
    /\ rows' = [rows EXCEPT ![pos] = nxt]
    /\ \E z \in LogitSet : /\ draft # None /\ ~setup.hits => Best(z) # draft
                           /\ logits' = Computed(z, pos)
    /\ pos' = pos + 1
    /\ IF draft = None THEN pc' = "loop" /\ round' = round + 1
       ELSE pc' = "verify" /\ UNCHANGED round
    /\ UNCHANGED <<setup, nxt, draft, pending, out>>

\* A draft equal to the argmax is handed out, and its position passed over.
Verify ==
    /\ pc = "verify"
    /\ LET right == Best(logits.z) = draft /\ draft # setup.eos
       IN  /\ IF right THEN /\ out' = Append(out, draft) /\ nxt' = draft
                            /\ \/ pending' = TRUE /\ pos' = pos + 1
                                  /\ pc' = IF pos' >= MaxSeq THEN "done" ELSE "loop"
                               \/ pc' = "done" /\ UNCHANGED <<pos, pending>>
              ELSE pc' = "loop" /\ UNCHANGED <<pos, nxt, pending, out>>
           /\ round' = round + 1
    /\ UNCHANGED <<setup, rows, logits, draft>>

Next == Prefill \/ Stop \/ Sample \/ TakePending \/ Draft \/ Forward \/ Verify

Spec == Init /\ [][Next]_vars

-----------------------------------------------------------------------------
\* Every token is drawn from fresh logits of the prompt and all that was handed out, row by
\* row; nothing is skipped, written twice or left over from an earlier call.
FollowsTheText ==
    Sampling => logits.raw /\ logits.after = setup.prompt \o out

\* The nucleus: the fewest most probable tokens that reach top_p.
IsNucleus(w, S) ==
    /\ S # {} /\ \A t \in S, u \in DOMAIN w \ S : w[t] >= w[u]
    /\ setup.topp >= Parts => S = DOMAIN w
    /\ setup.topp < Parts =>
          /\ Total(w, S) * Parts >= setup.topp * Total(w, DOMAIN w)
          /\ \A t \in S : \/ S = {t}
                          \/ Total(w, S \ {t}) * Parts < setup.topp * Total(w, DOMAIN w)
                          \/ \E u \in S : w[u] < w[t]

\* engine_sample draws each token of the nucleus with its share of the nucleus' mass, and no
\* other token, however the sort orders equal ones.
DrawsFairly ==
    Sampling /\ setup.temp # 0 =>
        LET w == Mass(Tempered(logits.z))
        IN  \A o \in Orders(w) :
                LET draws == 0..(Kept(w, o) - 1)
                    share == [t \in DOMAIN w |-> Cardinality({r \in draws : Pick(w, o, r) = t})]
                    drawn == {t \in DOMAIN w : share[t] > 0}
                IN  /\ IsNucleus(w, drawn)
                    /\ \A t \in drawn : share[t] * Total(w, drawn) = w[t] * Cardinality(draws)

GeneratedRight == FollowsTheText /\ DrawsFairly
=============================================================================
