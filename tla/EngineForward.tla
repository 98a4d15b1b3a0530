---------------------------- MODULE EngineForward ----------------------------
(* The forward pass of the engine (inference/core/engine.c) over its three     *)
(* architectures (inference/arch) and its devices (inference/device, cuda,     *)
(* vulkan): where the activation and the KV rows live, which copy is the       *)
(* current one, how a prompt is cut into batches, and how segments of the      *)
(* layers in several ranks hand activations on.                                *)
(*                                                                             *)
(* Numbers are abstracted to the term that computes them: the activation after *)
(* a block is the tuple of the block, its input, the KV rows it attended to    *)
(* and its per-layer embedding. Two results are equal when every operand is.   *)
EXTENDS LayerSplit, Sequences

CONSTANTS Prompts,    \* token sequences a caller prefills
          Decoded,    \* tokens a caller may append one at a time
          Images,     \* tokens of a prompt whose embedding comes from a picture
          MaxSeq,     \* max_seq
          Cap,        \* pb_cap, the largest batch
          BatchMin,   \* [arch -> prefill_batch_min], at the scale of Cap
          Shared,     \* n_kv_shared_layers of gemma4
          Swa,        \* the layers of gemma4 with a sliding window
          Window,     \* swa_window
          Gdn,        \* the recurrent layers of qwen35
          Deepstack,  \* vis_nds
          MaxCalls,   \* bound on the calls of a behaviour
          Configs     \* the deployments, see cfg

ASSUME ShapeAssumption ==
    /\ MaxSeq \in Nat \ {0} /\ Cap \in Nat \ {0}
    /\ Shared \in 0..(NB - 1) /\ Swa \subseteq 1..NB /\ Gdn \subseteq 1..NB

VARIABLES
    cfg,    \* [arch, dev, vk, gpuEnd, vision, reuse, ranks]: never changes
    text,   \* the tokens the calls so far have put into the cache
    call,   \* the call in progress: [op, toks, start, off]
    run,    \* the tokens on their way through the layers: [kind, n, b, seg, layer]
    eng,    \* one Engine for every segment
    wire,   \* activations on their way to the next segment
    calls

engineVars == <<cfg, text, call, run, eng, wire, calls>>
vars == <<engineVars, splitVars>>

-----------------------------------------------------------------------------
(* Terms.                                                                     *)

Zero              == <<"zero">>                \* a buffer nobody has written
Emb(t)            == <<"emb", t>>
Vis(p)            == <<"vis", p>>
Scaled(x)         == <<"scaled", x>>
Ple(t, x)         == <<"ple", t, x>>
Row(l, p, x)      == <<"row", l, p, x>>
Blk(l, x, rs, pe) == <<"blk", l, x, rs, pe>>
Ds(l, p, x)       == <<"ds", l, p, x>>
Norm(x)           == <<"norm", x>>
Proj(x)           == <<"proj", x>>
Capped(y)         == <<"cap", y>>

Gemma == cfg.arch = "gemma4"

\* The first position a token attends to, and the layer whose rows it reads.
First(l, p) == IF Gemma /\ l \in Swa /\ p + 1 > Window THEN p + 1 - Window ELSE 0
HasKv(l)    == ~Gemma \/ Shared = 0 \/ l <= NB - Shared
KvLayer(l)  == IF HasKv(l) THEN l ELSE NB - Shared + 1 - (IF l \in Swa THEN 2 ELSE 1)
Recurrent(l) == cfg.arch = "qwen35" /\ l \in Gdn

-----------------------------------------------------------------------------
(* What the logits should be: the network on the whole text at once.          *)

Embedding(t, p) == IF t[p + 1] \in Images THEN Vis(p)
                   ELSE IF Gemma THEN Scaled(Emb(t[p + 1])) ELSE Emb(t[p + 1])

LayerEmbedding(t, p) == IF Gemma THEN Ple(t[p + 1], Embedding(t, p)) ELSE Zero

WithDeepstack(t, l, p, x) == IF t[p + 1] \in Images /\ l <= Deepstack THEN Ds(l, p, x) ELSE x

Network(t) ==
    LET out[l \in 0..NB] ==
          IF l = 0 THEN [p \in 0..(Len(t) - 1) |-> Embedding(t, p)]
          ELSE LET k == KvLayer(l)
                   seen(p) == [s \in First(l, p)..p |->
                                 IF Recurrent(l) THEN out[l - 1][s] ELSE Row(k, s, out[k - 1][s])]
               IN [p \in 0..(Len(t) - 1) |->
                     WithDeepstack(t, l, p, Blk(l, out[l - 1][p], seen(p), LayerEmbedding(t, p)))]
    IN out

LogitsOf(t) ==
    IF t = <<>> THEN Zero
    ELSE LET y == Proj(Norm(Network(t)[NB][Len(t) - 1])) IN IF Gemma THEN Capped(y) ELSE y

-----------------------------------------------------------------------------
(* Engine and device state.                                                   *)

NoRows == [l \in 1..NB |-> [p \in 0..(MaxSeq - 1) |-> Zero]]
NoBatch == [b \in 0..(Cap - 1) |-> Zero]

NewEngine ==
    [x |-> Zero, dx |-> Zero, xdev |-> FALSE,          \* e->x, d_x, x_on_dev
     pb |-> NoBatch, dpb |-> NoBatch,                  \* e->pb, d_pb
     kv |-> NoRows, dkv |-> NoRows, kvdev |-> FALSE,   \* e->kv, kv_blob, kv_on_dev
     ple |-> Zero, pleb |-> NoBatch,                   \* ple, ple_batch
     dple |-> Zero, plepos |-> MaxSeq,                 \* d_ple, ple_pos
     rec |-> [l \in 1..NB |-> <<>>],                   \* ssm_state, ssm_conv
     logits |-> Zero]

Cuda   == cfg.dev = "cuda" /\ cfg.arch # "qwen35"      \* DEV_MODE_CUDA
Vulkan == cfg.dev = "vulkan" /\ cfg.arch = "llama"     \* kernels set up, fwd_block attached
HasFwdBlock == Cuda \/ Vulkan
LmFused == cfg.vk # "ops"

OnDev(l)         == cfg.gpuEnd = 0 \/ l < cfg.gpuEnd
LayerOnDevice(l) == HasFwdBlock /\ OnDev(l)

CudaMarkXHostForgets(e) == e   \* mutant
CudaMarkXHost(e) == [e EXCEPT !.xdev = FALSE]
VulkanUploadX(e) == [e EXCEPT !.dx = e.x, !.xdev = TRUE]
MarkXHost(e) == IF Vulkan THEN VulkanUploadX(e) ELSE IF Cuda THEN CudaMarkXHost(e) ELSE e
SyncX(e)     == IF e.xdev THEN [e EXCEPT !.x = e.dx] ELSE e

-----------------------------------------------------------------------------
(* Blocks on the CPU: the row of the token is stored, then it attends.        *)

Stored(kv, l, p, x) == IF HasKv(l) THEN [kv EXCEPT ![l][p] = Row(l, p, x)] ELSE kv
Seen(kv, l, p)      == [s \in First(l, p)..p |-> kv[KvLayer(l)][s]]

LlamaBlock(e, l, p) ==
    LET kv == Stored(e.kv, l, p, e.x)
    IN [e EXCEPT !.kv = kv, !.x = Blk(l, e.x, Seen(kv, l, p), Zero)]

Gemma4Block(e, l, p) ==
    LET kv == Stored(e.kv, l, p, e.x)
    IN [e EXCEPT !.kv = kv, !.x = Blk(l, e.x, Seen(kv, l, p), e.ple)]

\* A recurrent layer folds the token into its state, which has no positions.
Qwen35Block(e, l, p) ==
    IF ~Recurrent(l) THEN LlamaBlock(e, l, p)
    ELSE LET st == Append(e.rec[l], e.x)
         IN [e EXCEPT !.rec[l] = st,
                      !.x = Blk(l, e.x, [s \in 0..(Len(st) - 1) |-> st[s + 1]], Zero)]

CpuBlock(e, l, p) == CASE cfg.arch = "llama"  -> LlamaBlock(e, l, p)
                       [] cfg.arch = "gemma4" -> Gemma4Block(e, l, p)
                       [] cfg.arch = "qwen35" -> Qwen35Block(e, l, p)

\* A batch of n tokens from position p: all rows are stored before any attends.
StoredBatch(kv, l, p, xs, n) ==
    IF HasKv(l)
    THEN [kv EXCEPT ![l] = [s \in DOMAIN @ |-> IF s \in p..(p + n - 1) THEN Row(l, s, xs[s - p]) ELSE @[s]]]
    ELSE kv
Attended(kv, l, p, xs, n, pe) ==
    [b \in DOMAIN xs |-> IF b < n THEN Blk(l, xs[b], Seen(kv, l, p + b), pe[b]) ELSE xs[b]]

LlamaBlockBatch(e, l, p, n) ==
    LET kv == StoredBatch(e.kv, l, p, e.pb, n)
    IN [e EXCEPT !.kv = kv, !.pb = Attended(kv, l, p, e.pb, n, NoBatch)]

Gemma4BlockBatch(e, l, p, n) ==
    LET kv == StoredBatch(e.kv, l, p, e.pb, n)
    IN [e EXCEPT !.kv = kv, !.pb = Attended(kv, l, p, e.pb, n, e.pleb)]

\* qwen35 copies every row of the batch through e->x.
Qwen35BlockBatch(e, l, p, n) ==
    LET one(b, f) == LET g == Qwen35Block([f EXCEPT !.x = f.pb[b]], l, p + b) IN [g EXCEPT !.pb[b] = g.x]
        upto[b \in 0..n] == IF b = 0 THEN e ELSE one(b - 1, upto[b - 1])
    IN upto[n]

CpuBlockBatch(e, l, p, n) == CASE cfg.arch = "llama"  -> LlamaBlockBatch(e, l, p, n)
                               [] cfg.arch = "gemma4" -> Gemma4BlockBatch(e, l, p, n)
                               [] cfg.arch = "qwen35" -> Qwen35BlockBatch(e, l, p, n)

-----------------------------------------------------------------------------
(* Gemma's scaling of the embedding and its per-layer embeddings.             *)

AfterEmbed(e, t) == [e EXCEPT !.x = Scaled(e.x), !.ple = Ple(t, Scaled(e.x))]
RefreshPle(e, t) == [e EXCEPT !.ple = Ple(t, Scaled(Emb(t)))]
AfterEmbedBatch(e, ts) ==
    [e EXCEPT !.pb   = [b \in DOMAIN @ |-> IF b < Len(ts) THEN Scaled(@[b]) ELSE @[b]],
              !.pleb = [b \in DOMAIN @ |-> IF b < Len(ts) THEN Ple(ts[b + 1], Scaled(e.pb[b])) ELSE @[b]]]

-----------------------------------------------------------------------------
(* CUDA.                                                                      *)

CudaUploadX(e) == IF e.xdev THEN e ELSE [e EXCEPT !.dx = e.x, !.xdev = TRUE]

CudaBlockLlama(e, l, p) ==
    LET u  == CudaUploadX(e)
        kv == Stored(u.dkv, l, p, u.dx)
    IN [u EXCEPT !.dkv = kv, !.dx = Blk(l, u.dx, Seen(kv, l, p), Zero)]

\* The per-layer embeddings of a position go up once, the host's rows of a
\* CPU prefill before the first token that needs them.
GemmaEnsureRope(e, p) == IF e.plepos = p THEN e ELSE [e EXCEPT !.dple = e.ple, !.plepos = p]
GemmaUploadKv(e, p)   == IF e.kvdev \/ p = 0 THEN e ELSE [e EXCEPT !.dkv = e.kv, !.kvdev = TRUE]

CudaBlockGemma4(e, l, p) ==
    LET u  == GemmaUploadKv(CudaUploadX(GemmaEnsureRope(e, p)), p)
        kv == Stored(u.dkv, l, p, u.dx)
    IN [u EXCEPT !.dkv = kv, !.kvdev = u.kvdev \/ HasKv(l),
                 !.dx = Blk(l, u.dx, Seen(kv, l, p), u.dple)]

CudaBlock(e, l, p) == IF Gemma THEN CudaBlockGemma4(e, l, p) ELSE CudaBlockLlama(e, l, p)

CudaBlockBatch(e, l, p, n) ==
    LET kv == StoredBatch(e.dkv, l, p, e.dpb, n)
    IN [e EXCEPT !.dkv = kv, !.dpb = Attended(kv, l, p, e.dpb, n, NoBatch)]

CudaEmbed(e, t)  == [e EXCEPT !.dx = Emb(t), !.xdev = TRUE]
CudaFinalNorm(e) == LET u == CudaUploadX(e) IN [u EXCEPT !.dx = Norm(u.dx)]
CudaLmHead(e)    == LET u == CudaUploadX(e) IN [u EXCEPT !.logits = Proj(u.dx), !.x = u.dx]

-----------------------------------------------------------------------------
(* Vulkan. cfg.vk: the whole block is one submission and rows stay on the     *)
(* device ("full"); only attention is, the host keeps a copy ("attn"); single *)
(* products on the device and everything else on the host ("ops").            *)

VulkanBlockFull(e, l, p, sync) ==
    LET x  == IF e.xdev THEN e.dx ELSE e.x
        kv == Stored(e.dkv, l, p, x)
        y  == Blk(l, x, Seen(kv, l, p), Zero)
    IN [e EXCEPT !.dkv = kv, !.dx = y, !.xdev = ~sync, !.x = IF sync THEN y ELSE e.x]

VulkanBlockParts(e, l, p) ==
    LET x == IF e.xdev THEN e.dx ELSE e.x
        k == Stored(e.kv, l, p, x)
        d == Stored(e.dkv, l, p, x)
    IN IF cfg.vk = "attn"
       THEN [e EXCEPT !.xdev = FALSE, !.kv = k, !.dkv = d, !.x = Blk(l, x, Seen(d, l, p), Zero)]
       ELSE [e EXCEPT !.xdev = FALSE, !.kv = k, !.x = Blk(l, x, Seen(k, l, p), Zero)]

VulkanBlock(e, l, p, sync) ==
    IF cfg.vk = "full" THEN VulkanBlockFull(e, l, p, sync) ELSE VulkanBlockParts(e, l, p)

VulkanEmbed(e, t)  == [e EXCEPT !.dx = Emb(t), !.xdev = TRUE]
VulkanFinalNorm(e) == IF LmFused THEN e
                      ELSE [e EXCEPT !.x = Norm(SyncX(e).x), !.xdev = FALSE]
VulkanLmHead(e) ==
    IF LmFused
    THEN LET x == Norm(IF e.xdev THEN e.dx ELSE e.x)
         IN [e EXCEPT !.dx = x, !.xdev = TRUE, !.logits = Proj(x)]
    ELSE [SyncX(e) EXCEPT !.logits = Proj(SyncX(e).x)]

-----------------------------------------------------------------------------
(* One layer of one token (forward_layer).                                    *)

PostLogits(e) == IF Gemma THEN [e EXCEPT !.logits = Capped(e.logits)] ELSE e

DevEmbeds == (Cuda /\ ~Gemma) \/ (Vulkan /\ cfg.vk # "ops")

EmbedLayer(e, t) ==
    LET a == IF OnDev(0) /\ DevEmbeds
             THEN IF Cuda THEN CudaEmbed(e, t) ELSE VulkanEmbed(e, t)
             ELSE MarkXHost([e EXCEPT !.x = Emb(t)])
    IN IF Gemma THEN MarkXHost(AfterEmbed(a, t)) ELSE a

BlockLayer(e, l, p) ==
    IF LayerOnDevice(l)
    THEN IF Cuda THEN CudaBlock(e, l, p) ELSE VulkanBlock(e, l, p, FALSE)
    ELSE CpuBlock(IF HasFwdBlock THEN MarkXHost(SyncX(e)) ELSE e, l, p)

NormLayer(e) ==
    IF OnDev(NB + 1) /\ HasFwdBlock
    THEN IF Cuda THEN CudaFinalNorm(e) ELSE VulkanFinalNorm(e)
    ELSE LET a == MarkXHost(SyncX(e)) IN [a EXCEPT !.x = Norm(a.x)]

HeadLayer(e) ==
    PostLogits(IF OnDev(NB + 2) /\ HasFwdBlock
               THEN IF Cuda THEN CudaLmHead(e) ELSE VulkanLmHead(e)
               ELSE LET a == MarkXHost(SyncX(e)) IN [a EXCEPT !.logits = Proj(a.x)])

ForwardLayer(e, l, t, p) ==
    CASE l = 0         -> EmbedLayer(e, t)
      [] l \in 1..NB   -> BlockLayer(e, l, p)
      [] l = NB + 1    -> NormLayer(e)
      [] l = NB + 2    -> HeadLayer(e)

\* Rows of the deepstack are added after the first layers of a picture's token.
AddDsRow(x, l, i) == IF l \in 1..Deepstack /\ call.toks[i + 1] \in Images THEN Ds(l, i, x) ELSE x

-----------------------------------------------------------------------------
(* Calls, and how they are cut.                                               *)

Idle   == [op |-> "idle", toks |-> <<>>, start |-> 0, off |-> 0]
NoRun  == [kind |-> "none", n |-> 0, b |-> 0, seg |-> 1, layer |-> 0]
Batch  == IF run.kind = "none" THEN <<>> ELSE SubSeq(call.toks, call.off + 1, call.off + run.n)
Tok    == Batch[run.b + 1]
Pos    == call.start + call.off
Segs   == plan.ranks
Begin  == IF run.seg = 1 THEN 1 ELSE Begins(run.seg - 1)
End    == Ends(run.seg - 1)
LastSeg == run.seg = Segs
LastBatch == call.off + run.n = Len(call.toks)
IsImage(i) == call.toks[i + 1] \in Images
Mix    == \E i \in 1..Len(call.toks) : call.toks[i] \in Images

Init ==
    /\ SplitInit
    /\ cfg \in Configs /\ plan.ranks = cfg.ranks /\ plan.shared = IF Gemma THEN Shared ELSE 0
    /\ text = <<>> /\ call = Idle /\ run = NoRun /\ calls = 0
    /\ eng = [s \in 1..plan.ranks |-> NewEngine]
    /\ wire = NoBatch

\* The positions a caller continues from: a session keeps any prefix of the
\* rows ("any"), or all of them ("append"); every prompt starts over ("anew"), or
\* only the first one is prefilled ("once").
Starts == CASE cfg.reuse = "any"    -> 0..Len(text)
            [] cfg.reuse = "append" -> {Len(text)}
            [] cfg.reuse = "anew"   -> {0}
            [] cfg.reuse = "once"   -> IF text = <<>> THEN {0} ELSE {}

Ask(op, toks, start) ==
    /\ split = "done" /\ call = Idle /\ calls < MaxCalls
    /\ start + Len(toks) <= MaxSeq
    /\ text' = SubSeq(text, 1, start) \o toks
    /\ call' = [op |-> op, toks |-> toks, start |-> start, off |-> 0]
    /\ calls' = calls + 1
    /\ UNCHANGED <<cfg, run, eng, wire, splitVars>>

\* A delta behind the rows of the session; pictures only at the beginning.
Prefill == \E toks \in Prompts : \E start \in Starts :
    /\ (\E i \in 1..Len(toks) : toks[i] \in Images) => cfg.vision /\ start = 0
    /\ (\E i \in 1..Len(text) : text[i] \in Images) => start = 0
    /\ Ask("prefill", toks, start)

Decode == \E t \in Decoded : text # <<>> /\ Ask("decode", <<t>>, Len(text))

\* How engine_forward_prefill, its device's prefill and the picture variant
\* take the next tokens of a prompt.
NextBatch ==
    LET rest == Len(call.toks) - call.off
        nb   == IF rest > Cap THEN Cap ELSE rest
    IN CASE call.op = "decode" -> [kind |-> "token", n |-> 1]
         [] Segs > 1 -> [kind |-> IF HasFwdBlock THEN "token" ELSE "batch", n |-> nb]
         [] Segs = 1 /\ ~Mix /\ Cuda /\ ~Gemma /\ cfg.gpuEnd = 0 -> [kind |-> "cuda", n |-> nb]
         [] Segs = 1 /\ ~Mix /\ Vulkan /\ cfg.gpuEnd = 0 -> [kind |-> "vulkan", n |-> nb]
         [] Segs = 1 /\ ~Mix /\ HasFwdBlock /\ ~Gemma /\ cfg.gpuEnd # 0 -> [kind |-> "token", n |-> rest]
         [] OTHER -> [kind |-> IF nb < BatchMin[cfg.arch] THEN "token" ELSE "batch", n |-> nb]

Chunk ==
    /\ call # Idle /\ run = NoRun /\ call.off < Len(call.toks)
    /\ run' = [kind |-> NextBatch.kind, n |-> NextBatch.n, b |-> 0, seg |-> 1, layer |-> 0]
    /\ UNCHANGED <<cfg, text, call, eng, wire, calls, splitVars>>

Return ==
    /\ call # Idle /\ run = NoRun /\ call.off = Len(call.toks)
    /\ call' = Idle
    /\ UNCHANGED <<cfg, text, run, eng, wire, calls, splitVars>>

E == eng[run.seg]

\* A step of the running tokens leaves engine e behind and goes on at layer l.
Go(e, l) ==
    /\ eng' = [eng EXCEPT ![run.seg] = e]
    /\ run' = [run EXCEPT !.layer = l]
    /\ UNCHANGED <<cfg, text, call, wire, calls, splitVars>>

\* The tokens leave a segment: to the next one, or they are done.
Leave ==
    IF LastSeg
    THEN run' = NoRun /\ call' = [call EXCEPT !.off = @ + run.n]
    ELSE /\ run' = [kind |-> IF run.n = 1 \/ cfg.dev = "cuda" THEN "token" ELSE "batch",
                    n |-> run.n, b |-> 0, seg |-> run.seg + 1, layer |-> 0]
         /\ UNCHANGED call

-----------------------------------------------------------------------------
(* One token after the other (engine_forward_range).                          *)

\* need_embed, a picture's row, or the activation of the previous segment.
RangeInput(e, x) == LET a == MarkXHost([e EXCEPT !.x = x]) IN IF Gemma THEN RefreshPle(a, Tok) ELSE a

TokenInput ==
    /\ run.kind = "token" /\ run.layer = 0
    /\ Go(CASE run.seg > 1 -> RangeInput(E, wire[run.b])
             [] run.seg = 1 /\ IsImage(call.off + run.b) -> MarkXHost([E EXCEPT !.x = Vis(call.off + run.b)])
             [] OTHER -> ForwardLayer(E, 0, Tok, Pos + run.b),
          Begin)

TokenLayer ==
    /\ run.kind = "token" /\ run.layer \in 1..(End - 1)
    /\ LET e == ForwardLayer(E, run.layer, Tok, Pos + run.b)
       IN Go([e EXCEPT !.x = AddDsRow(@, run.layer, call.off + run.b)], run.layer + 1)

TokenOut ==
    /\ run.kind = "token" /\ run.layer = End
    /\ LET e == IF LastSeg THEN E ELSE SyncX(E)
       IN /\ eng' = [eng EXCEPT ![run.seg] = e]
          /\ wire' = IF LastSeg THEN wire ELSE [wire EXCEPT ![run.b] = e.x]
    /\ IF run.b + 1 < run.n
       THEN run' = [run EXCEPT !.b = @ + 1, !.layer = 0] /\ UNCHANGED call
       ELSE Leave
    /\ UNCHANGED <<cfg, text, calls, splitVars>>

-----------------------------------------------------------------------------
(* A batch on the CPU (prefill_run_batch, engine_forward_batch_tokens / _x).  *)

\* The rows of a batch, in a buffer that may hold more.
Filled(xs, rows) == [b \in DOMAIN xs |-> IF b < run.n THEN rows[b] ELSE xs[b]]

BatchInput ==
    /\ run.kind = "batch" /\ run.layer = 0
    /\ LET rows == [b \in 0..(run.n - 1) |->
                       IF IsImage(call.off + b) THEN Vis(call.off + b) ELSE Emb(Batch[b + 1])]
           a == [E EXCEPT !.pb = Filled(@, rows)]
           g == IF Gemma THEN AfterEmbedBatch(a, Batch) ELSE a
       IN Go(IF run.seg = 1 THEN g
             ELSE [(IF Gemma THEN g ELSE E) EXCEPT !.pb = Filled(@, wire)], Begin)

BlockBatch(e, l, p, n) == IF LayerOnDevice(l) /\ Cuda /\ ~Gemma THEN CudaBlockBatch(e, l, p, n)
                          ELSE CpuBlockBatch(e, l, p, n)

\* Only the last batch of a prompt, or any batch of the last rank, is projected.
BatchLayer ==
    /\ run.kind = "batch" /\ run.layer \in 1..(End - 1)
    /\ run.layer > NB => LastSeg /\ (LastBatch \/ Segs > 1)
    /\ LET e == CASE run.layer <= NB ->
                     LET a == BlockBatch(E, run.layer, Pos, run.n)
                         rows == [b \in 0..(run.n - 1) |-> AddDsRow(a.pb[b], run.layer, call.off + b)]
                     IN [a EXCEPT !.pb = Filled(@, rows)]
                 [] run.layer = NB + 1 -> [E EXCEPT !.x = Norm(E.pb[run.n - 1])]
                 [] run.layer = NB + 2 -> PostLogits([E EXCEPT !.logits = Proj(E.x)])
       IN Go(e, run.layer + 1)

BatchOut ==
    /\ run.kind = "batch" 
    /\ run.layer = End \/ (run.layer = NB + 1 /\ ~(LastSeg /\ (LastBatch \/ Segs > 1)))
    /\ wire' = IF LastSeg THEN wire ELSE Filled(wire, E.pb)
    /\ Leave
    /\ UNCHANGED <<cfg, text, eng, calls, splitVars>>

-----------------------------------------------------------------------------
(* A batch on the GPU (cuda_prefill).                                         *)

CudaInput ==
    /\ run.kind = "cuda" /\ run.layer = 0
    /\ LET rows == [b \in 0..(run.n - 1) |-> Emb(Batch[b + 1])]
       IN  Go([E EXCEPT !.dpb = Filled(@, rows)], 1)

CudaLayer ==
    /\ run.kind = "cuda" /\ run.layer \in 1..NB
    /\ Go(CudaBlockBatch(E, run.layer, Pos, run.n), run.layer + 1)

CudaOut ==
    /\ run.kind = "cuda" /\ run.layer = NB + 1
    /\ LET last == [E EXCEPT !.dx = E.dpb[run.n - 1], !.xdev = TRUE]
       IN eng' = IF LastBatch THEN [eng EXCEPT ![1] = CudaLmHead(CudaFinalNorm(last))] ELSE eng
    /\ Leave
    /\ UNCHANGED <<cfg, text, wire, calls, splitVars>>

-----------------------------------------------------------------------------
(* A prompt on Vulkan, token by token with a copy of each result in e->pb     *)
(* (vulkan_prefill).                                                          *)

VulkanInput ==
    /\ run.kind = "vulkan" /\ run.layer = 0
    /\ Go(IF LmFused THEN VulkanEmbed(E, Tok)
          ELSE [E EXCEPT !.pb[run.b] = Emb(Tok), !.dx = Emb(Tok), !.xdev = TRUE], 1)

VulkanLayer ==
    /\ run.kind = "vulkan" /\ run.layer \in 1..NB
    /\ Go(VulkanBlock(E, run.layer, Pos + run.b, TRUE), run.layer + 1)

VulkanOut ==
    /\ run.kind = "vulkan" /\ run.layer = NB + 1
    /\ LET e == [E EXCEPT !.pb[run.b] = IF E.xdev THEN E.dx ELSE E.x, !.xdev = FALSE]
           last == [e EXCEPT !.x = e.pb[run.b]]
       IN IF run.b + 1 < run.n
          THEN /\ eng' = [eng EXCEPT ![1] = e]
               /\ run' = [run EXCEPT !.b = @ + 1, !.layer = 0] /\ UNCHANGED call
          ELSE /\ eng' = [eng EXCEPT ![1] = IF LastBatch THEN VulkanLmHead(VulkanFinalNorm(last)) ELSE e]
               /\ Leave
    /\ UNCHANGED <<cfg, text, wire, calls, splitVars>>

Work == \/ Chunk \/ Return
        \/ TokenInput \/ TokenLayer \/ TokenOut
        \/ BatchInput \/ BatchLayer \/ BatchOut
        \/ CudaInput \/ CudaLayer \/ CudaOut
        \/ VulkanInput \/ VulkanLayer \/ VulkanOut

Split == SplitNext /\ UNCHANGED engineVars

Next == Split \/ Prefill \/ Decode \/ Work

\* An engine call runs to its end in the thread that made it.
Spec == Init /\ [][Next]_vars /\ WF_vars(Work)

-----------------------------------------------------------------------------
Logits == eng[Segs].logits

\* When a call of engine_forward_prefill, engine_forward or a round of dist_gen
\* has returned, the logits are those of the whole text: the rows of earlier
\* calls, on host and device, the batches and the segments all fitted together.
AnswersText == call = Idle => Logits = LogitsOf(text)

Wrong == <<"wrong">>
Promise == INSTANCE Completion WITH
    Inputs <- Prompts \cup {<<t>> : t \in Decoded}, MaxLen <- MaxSeq,
    answer <- IF call # Idle THEN <<"busy">> ELSE IF Logits = LogitsOf(text) THEN text ELSE Wrong

\* The engine implements Completion: every call answers, and with the logits of
\* the text the caller has built, in every architecture, on every device and
\* across segments.
ImplementsCompletion == Promise!Spec
=============================================================================
