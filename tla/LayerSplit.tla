----------------------------- MODULE LayerSplit -----------------------------
(* How a rank finds its share of the layers (dist_split_layers in              *)
(* inference/core/dist.c): one pass over the blocks, a cut wherever the bytes  *)
(* so far reach a rank's part of the total. The last layers of a gemma4 model  *)
(* that share KV rows are pinned to the last rank. Every rank computes all     *)
(* cuts for itself, from the same file.                                        *)
EXTENDS Integers

CONSTANTS NB,       \* n_blocks: layer 0 is the embedding, NB + 1 the norm, NB + 2 the head
          MaxRanks, \* no more than fit into bs[64]
          Plans     \* [ranks, size, part, shared]: see plan

ASSUME SplitAssumption ==
    /\ NB \in Nat \ {0} /\ MaxRanks \in Nat \ {0}
    /\ Plans \subseteq [ranks : 1..MaxRanks, size : [1..NB -> Nat],
                        part : [1..MaxRanks -> Nat], shared : Nat]

VARIABLES
    plan,   \* ranks; bytes of each block; bytes after which rank r should start
            \* (the shares of YLLM_DIST_WEIGHTS); n_kv_shared_layers of gemma4, or 0
    block, rank, bytes,
    bs,     \* the first layer of each rank
    split   \* "cutting", "done", or "refused"

splitVars == <<plan, block, rank, bytes, bs, split>>

NLayers == NB + 3

\* The first layer of the last rank, where layers share rows: the shared ones
\* read layer kv_from, or kv_from - 1 with a sliding window.
PinShared == IF plan.shared \in 1..(NB - 1) THEN NB - plan.shared + 1 ELSE 0   \* mutant
Pin == IF plan.shared \in 1..(NB - 1)
       THEN LET from == NB - plan.shared IN IF from > 1 THEN from - 1 ELSE 1
       ELSE 0
SplitHi == IF Pin > 0 THEN Pin - 1 ELSE NB
Early   == IF Pin = 0 THEN plan.ranks ELSE IF plan.ranks > 1 THEN plan.ranks - 1 ELSE 1

SplitInit ==
    /\ plan \in Plans
    /\ block = 1 /\ rank = 1 /\ bytes = 0
    /\ bs = [i \in 0..(MaxRanks - 1) |-> 1]
    /\ split = IF plan.ranks > NB \/ SplitHi < 1 \/ Early > SplitHi THEN "refused" ELSE "cutting"

\* One block: at most one rank starts behind it.
Cut ==
    /\ split = "cutting" /\ block <= SplitHi /\ rank < Early
    /\ bytes' = bytes + plan.size[block]
    /\ IF bytes' >= plan.part[rank]
       THEN bs' = [bs EXCEPT ![rank] = block + 1] /\ rank' = rank + 1
       ELSE UNCHANGED <<bs, rank>>
    /\ block' = block + 1
    /\ UNCHANGED <<plan, split>>

\* mutant: ranks that found no cut keep the initial value
FinishUnfilled ==
    /\ split = "cutting" /\ ~(block <= SplitHi /\ rank < Early)
    /\ bs' = IF Pin > 0 THEN [bs EXCEPT ![plan.ranks - 1] = Pin] ELSE bs
    /\ split' = "done"
    /\ UNCHANGED <<plan, block, rank, bytes>>

\* Ranks that found no cut start behind the last block; then the pinned rank.
Finish ==
    /\ split = "cutting" /\ ~(block <= SplitHi /\ rank < Early)
    /\ bs' = [i \in DOMAIN bs |->
                 CASE Pin > 0 /\ i = plan.ranks - 1 -> Pin
                   [] ~(Pin > 0 /\ i = plan.ranks - 1) /\ i \in rank..(Early - 1) -> SplitHi + 1
                   [] OTHER -> bs[i]]
    /\ split' = "done"
    /\ UNCHANGED <<plan, block, rank, bytes>>

SplitNext == Cut \/ Finish

SplitSpec == SplitInit /\ [][SplitNext]_splitVars

\* engine_set_layers of rank i: [begin, end).
Begins(i) == IF i = 0 THEN 0 ELSE bs[i]
Ends(i)   == IF i + 1 < plan.ranks THEN bs[i + 1] ELSE NLayers
Share(i)  == Begins(i)..(Ends(i) - 1)

\* The layers whose rows layer l of gemma4 may read: kv_layer, with and without
\* a sliding window.
Sources(l) == IF Pin > 0 /\ l > NB - plan.shared /\ l <= NB
              THEN {NB - plan.shared, NB - plan.shared - 1} \cap 1..NB ELSE {l}

-----------------------------------------------------------------------------
SplitTypeOK ==
    /\ plan \in Plans
    /\ block \in Nat /\ rank \in Nat /\ bytes \in Nat
    /\ bs \in [0..(MaxRanks - 1) -> Nat]
    /\ split \in {"cutting", "done", "refused"}

\* Whatever the sizes and weights, a token visits every layer once and in order:
\* the shares dist_split_layers gives the ranks are disjoint, ascending and leave
\* no layer out, although each rank computes only its own, and may be empty.
EveryLayerOnce ==
    split = "done" =>
        /\ \A l \in 0..(NLayers - 1) : \E i \in 0..(plan.ranks - 1) : l \in Share(i)
        /\ \A i, j \in 0..(plan.ranks - 1) : i < j => \A l \in Share(i), m \in Share(j) : l < m

\* No rank reads KV rows that another rank holds: gemma4 layers that share rows
\* are in the segment of the layers that write them (the comment at
\* dist_split_layers says what happens otherwise: an empty cache is read).
RowsStayLocal ==
    split = "done" =>
        \A i \in 0..(plan.ranks - 1) : \A l \in Share(i) \cap 1..NB : Sources(l) \subseteq Share(i)
=============================================================================
