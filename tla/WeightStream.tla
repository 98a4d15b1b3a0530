----------------------------- MODULE WeightStream -----------------------------
(***************************************************************************)
(* Weights larger than memory (inference/core/engine.c): the model file is *)
(* mapped, a prefetch thread (worker_loop) asks the kernel for the layers  *)
(* to come, and behind the layer that is computed the engine drops pages   *)
(* until what it holds fits the budget (sched_release_budget).  The two    *)
(* threads share the ring of jobs, under a mutex, and pstate, under none.  *)
(*                                                                         *)
(* What is mapped stays readable whatever the scheduler does: a page that  *)
(* was dropped is read again.  So the states of a layer decide what is     *)
(* held in memory and who may still touch the mapping, not a result.  This *)
(* is a Linux build with TENSOR_STREAM, of a model without a draft layer   *)
(* and a process that is not a rank of a pipeline (README, section 6).     *)
(***************************************************************************)
EXTENDS Integers, FiniteSets, Functions

CONSTANTS
    NL,        \* n_layers: 0 the embedding, NL - 2 the last norm, NL - 1 the head
    Depth,     \* layers between the one computed and the window asked for
    RingSize,  \* 256 in the code
    Setups,    \* [size, budget, thread]: see setup
    MaxTurns   \* bound: calls of the engine

Layer  == 0..(NL - 1)
Blocks == 1..(NL - 3)

\* What the code has of them: embedding, norm and head besides at least one block, and a
\* ring with room for every layer.
StreamAssumption ==
    /\ NL \in Nat /\ NL >= 4
    /\ Depth \in Nat \ {0}
    /\ RingSize \in Nat /\ NL <= RingSize
    /\ MaxTurns \in Nat
    /\ Setups \subseteq [size : [Layer -> Nat], budget : Nat, thread : BOOLEAN]

VARIABLES
    setup,      \* bytes per layer, the byte budget asked for, and whether the
                \* thread could be created
    maxLayers,  \* budget_layers
    pstate,     \* per layer: "out" (0), "queued" (1), "in" (2), "dropped" (4)
    mapped,     \* layers with pages in the process
    ring, head, tail,
    worker,     \* the prefetch thread
    stop,
    pc, kind,   \* where a call of the engine is; by token or in batches
    cur,        \* its layer
    span,       \* the layers it is about to enqueue
    turns

vars == <<setup, maxLayers, pstate, mapped, ring, head, tail, worker, stop, pc, kind, cur, span, turns>>

Bytes(S) == SumFunctionOnSet(setup.size, S)
\* A budget that covers the model is none.
Budget == IF setup.budget >= Bytes(Layer) THEN 0 ELSE setup.budget
Lowest(S) == CHOOSE l \in S : \A k \in S : l <= k
AtMost(a, b) == IF a <= b THEN a ELSE b
AtLeast(a, b) == IF a >= b THEN a ELSE b

\* The byte budget in layers of average size.
FirstMax ==
    LET average == Bytes(Layer) \div NL
    IN  IF setup.budget = 0 THEN NL
        ELSE IF average = 0 THEN 1
        ELSE AtMost(AtLeast(setup.budget \div average, 1), NL)

Idle == [pc |-> "poll", i |-> 0, end |-> 0]

Init ==
    /\ setup \in Setups
    /\ maxLayers = FirstMax
    /\ pstate = [l \in Layer |-> "out"] /\ mapped = {}
    /\ ring = [s \in 0..(RingSize - 1) |-> <<0, 0>>] /\ head = 0 /\ tail = 0
    /\ worker = IF setup.thread THEN Idle ELSE [Idle EXCEPT !.pc = "gone"]
    /\ stop = ~setup.thread
    /\ pc = "idle" /\ kind = "token" /\ cur = 0 /\ span = <<0, 0>> /\ turns = 0

schedVars == <<ring, head, tail, worker>>

-----------------------------------------------------------------------------
(* The prefetch thread.                                                    *)

Poll ==
    /\ worker.pc = "poll"
    /\ worker' = [worker EXCEPT !.pc = IF stop THEN "gone" ELSE "look"]
    /\ UNCHANGED <<setup, maxLayers, pstate, mapped, ring, head, tail, stop, pc, kind, cur, span, turns>>

\* The oldest job, taken under the mutex; also if it has been asked to stop meanwhile.
TakeJob ==
    /\ worker.pc = "look"
    /\ IF head = tail THEN worker' = Idle /\ UNCHANGED head
       ELSE LET job == ring[head % RingSize]
            IN  worker' = [pc |-> "scan", i |-> job[1], end |-> job[2]] /\ head' = head + 1
    /\ UNCHANGED <<setup, maxLayers, pstate, mapped, ring, tail, stop, pc, kind, cur, span, turns>>

\* Layers that are not, or no longer, queued are passed over.
Scan ==
    /\ worker.pc = "scan"
    /\ worker' = IF worker.i >= worker.end THEN Idle
                 ELSE IF pstate[worker.i] = "queued" THEN [worker EXCEPT !.pc = "fetch"]
                 ELSE [worker EXCEPT !.i = @ + 1]
    /\ UNCHANGED <<setup, maxLayers, pstate, mapped, ring, head, tail, stop, pc, kind, cur, span, turns>>

\* ws_prefetch (MADV_WILLNEED) has returned; the engine went on meanwhile.
Fetched ==
    /\ worker.pc = "fetch"
    /\ pstate' = [pstate EXCEPT ![worker.i] = "in"]
    /\ worker' = [worker EXCEPT !.pc = "scan", !.i = @ + 1]
    /\ UNCHANGED <<setup, maxLayers, mapped, ring, head, tail, stop, pc, kind, cur, span, turns>>

-----------------------------------------------------------------------------
(* The engine: token by token (engine_forward_range) or a batch of the     *)
(* prompt (prefill_run_batch).                                             *)

\* sched_adapt_budget: one more layer if pages were missed and memory is left, one less if
\* there is little.
Adapted == {maxLayers, AtMost(maxLayers + 1, NL), AtLeast(maxLayers - 1, 1)}

\* The row of a picture is there already; that of a token is read from layer 0, whose pages
\* go at once if there is a budget.
StartToken ==
    /\ pc = "idle" /\ turns < MaxTurns
    /\ maxLayers' \in IF Budget > 0 THEN Adapted ELSE {maxLayers}
    /\ mapped' \in {mapped, IF Budget > 0 THEN mapped \ {0} ELSE mapped \cup {0}}
    /\ kind' = "token" /\ cur' = 1 /\ pc' = "ensure" /\ turns' = turns + 1
    /\ UNCHANGED <<setup, pstate, schedVars, stop, span>>

StartBatch ==
    /\ pc = "idle" /\ turns < MaxTurns
    /\ mapped' = mapped \cup {0}
    /\ kind' = "batch" /\ cur' = 1 /\ turns' = turns + 1
    /\ pc' = IF Budget > 0 THEN "ensure" ELSE "compute"
    /\ UNCHANGED <<setup, maxLayers, pstate, schedVars, stop, span>>

EnsureOnlyNew(s) == IF s = "out" THEN "in" ELSE s   \* mutant: what was dropped is not re-armed
\* sched_ensure.  It fetches the layer, or does not, because it is cached or larger than
\* the budget; the state is the same.
Ensured(s) == IF s \in {"out", "dropped"} THEN "in" ELSE s
Ensure ==
    /\ pc = "ensure"
    /\ pstate' = [pstate EXCEPT ![cur] = Ensured(@)]
    /\ pc' = "compute"
    /\ UNCHANGED <<setup, maxLayers, mapped, schedVars, stop, kind, cur, span, turns>>

\* The layer reads its weights.  lm_head_chunked drops most of the head's pages again, and
\* ws_release all of them if its rows have no fixed size.
Compute ==
    /\ pc = "compute"
    /\ \/ mapped' = mapped \cup {cur}
       \/ cur = NL - 1 /\ Budget > 0 /\ mapped' = mapped \ {cur}
    /\ pc' = IF kind = "token" THEN "window" ELSE "release"
    /\ UNCHANGED <<setup, maxLayers, pstate, schedVars, stop, kind, cur, span, turns>>

\* The window begins at its first layer nobody has asked for ...
Window == {l \in Layer : cur + Depth <= l /\ l < cur + 2 * Depth}
Wanted(w) == {l \in w : pstate[l] = "out"}

\* ... and with a budget ends before the first that does not fit next to the current layer;
\* that one is left to page faults.
TooMuch(first) ==
    {l \in Window : /\ first <= l
                    /\ \/ setup.size[l] > Budget
                       \/ setup.size[cur] + Bytes(first..l) > Budget}
Ask ==
    /\ pc = "window"
    /\ IF Wanted(Window) = {}
       THEN pc' = "release" /\ UNCHANGED <<pstate, span>>
       ELSE LET first == Lowest(Wanted(Window))
                after == AtMost(cur + 2 * Depth, NL)
                over  == IF Budget > 0 THEN TooMuch(first) ELSE {}
                end   == IF over = {} THEN after ELSE Lowest(over)
                asked == IF Budget > 0 THEN first..(end - 1) ELSE {first}
            IN  /\ pstate' = [l \in Layer |-> IF l \in asked THEN "queued"
                                              ELSE IF l = end /\ over # {} THEN "in" ELSE pstate[l]]
                /\ span' = <<first, end>>
                /\ pc' = IF first < end THEN "enqueue" ELSE "release"
    /\ UNCHANGED <<setup, maxLayers, mapped, schedVars, stop, kind, cur, turns>>

\* sched_enqueue, under the mutex.  Nothing asks whether the ring has room.
Enqueue ==
    /\ pc = "enqueue"
    /\ ring' = [ring EXCEPT ![tail % RingSize] = span]
    /\ tail' = tail + 1
    /\ pc' = "release"
    /\ UNCHANGED <<setup, maxLayers, pstate, mapped, head, worker, stop, kind, cur, span, turns>>

Last == IF kind = "token" THEN NL - 1 ELSE NL - 3

\* The next layer, or the end of the call; the last batch of a prompt reads norm and head.
GoOn ==
    /\ cur' = IF cur < Last THEN cur + 1 ELSE cur
    /\ pc' = IF cur = Last THEN "idle" ELSE IF kind = "token" \/ Budget > 0 THEN "ensure" ELSE "compute"
    /\ \/ mapped' = mapped
       \/ cur = Last /\ kind = "batch" /\ mapped' = mapped \cup {NL - 2, NL - 1}
    /\ UNCHANGED pstate

\* sched_release_budget, one turn of its loop: the lowest layer behind the current one goes
\* as long as the layers held are too many or too big.
Held == {l \in Layer : pstate[l] = "in"}
Behind == {l \in Held : l < cur}
Fits == Cardinality(Held) <= maxLayers /\ Bytes(Held) <= Budget
Drop(l) ==
    /\ pstate' = [pstate EXCEPT ![l] = "dropped"]
    /\ mapped' = mapped \ {l}
    /\ UNCHANGED <<pc, cur>>
Release ==
    /\ pc = "release"
    /\ IF Budget = 0 \/ Fits \/ Behind = {} THEN GoOn ELSE Drop(Lowest(Behind))
    /\ UNCHANGED <<setup, maxLayers, schedVars, stop, kind, span, turns>>

\* engine_free: the thread is asked to stop and joined, then the file is unmapped.
Free ==
    /\ pc = "idle"
    /\ stop' = TRUE /\ pc' = "join"
    /\ UNCHANGED <<setup, maxLayers, pstate, mapped, schedVars, kind, cur, span, turns>>
Unmap ==
    /\ pc = "join" /\ worker.pc = "gone"
    /\ pc' = "closed" /\ mapped' = {}
    /\ UNCHANGED <<setup, maxLayers, pstate, schedVars, stop, kind, cur, span, turns>>

Next ==
    \/ Poll \/ TakeJob \/ Scan \/ Fetched
    \/ StartToken \/ StartBatch \/ Ensure \/ Compute \/ Ask \/ Enqueue \/ Release
    \/ Free \/ Unmap

Spec == Init /\ [][Next]_vars

-----------------------------------------------------------------------------
\* Types (proved in WeightStreamProofs; maxLayers comes from a sum over the layers, of
\* which the provers know nothing).
TypeOK ==
    /\ setup \in Setups
    /\ pstate \in [Layer -> {"out", "queued", "in", "dropped"}]
    /\ mapped \in SUBSET Layer
    /\ ring \in [0..(RingSize - 1) -> Layer \X (0..NL)] /\ head \in Nat /\ tail \in Nat
    /\ worker \in [pc : {"poll", "look", "scan", "fetch", "gone"}, i : 0..NL, end : 0..NL]
    /\ stop \in BOOLEAN
    /\ pc \in {"idle", "ensure", "compute", "window", "enqueue", "release", "join", "closed"}
    /\ kind \in {"token", "batch"} /\ cur \in Layer /\ span \in Layer \X (0..NL) /\ turns \in Nat

Covers(job, l) == job[1] <= l /\ l < job[2]
\* Somebody still has to come to layer l: a job in the ring, the thread, or the engine that
\* is about to enqueue it.
Awaited(l) ==
    \/ \E k \in head..(tail - 1) : Covers(ring[k % RingSize], l)
    \/ worker.pc \in {"scan", "fetch"} /\ worker.i <= l /\ l < worker.end
    \/ pc = "enqueue" /\ Covers(span, l)

\* The ring of jobs is never overrun, although sched_enqueue does not look: a layer is asked
\* for once in the life of the engine.
NeverOverrun == head <= tail /\ tail - head <= RingSize

\* A layer that is queued is not forgotten.  It would be held for good: the thread does not
\* come to it, sched_ensure leaves it alone, sched_release_budget does not see it.
NotForgotten == \A l \in Layer : pstate[l] = "queued" => Awaited(l)

\* With a budget, every block with pages in the process is one that sched_release_budget
\* counts and can drop, or one that the thread is still to come to.
Accounted ==
    Budget > 0 => \A l \in Blocks \cap mapped : pstate[l] = "in" \/ (pstate[l] = "queued" /\ Awaited(l))

\* The layer that is computed is not one the scheduler has dropped.
InUse ==
    pc \in {"compute", "window", "enqueue"} /\ (kind = "token" \/ Budget > 0) => pstate[cur] \in {"queued", "in"}

\* The thread is gone before the file is unmapped: it asks for no page of a closed mapping.
ClosedAlone == pc = "closed" => worker.pc = "gone"

WeightsAccounted == NeverOverrun /\ NotForgotten /\ Accounted /\ InUse /\ ClosedAlone
=============================================================================
