---------------------------- MODULE MCStandalone ----------------------------
(***************************************************************************)
(* Instances for TLC of the components that share no state with any other: *)
(* RateLimit, ChatTemplate, Tokenizer, ImageSlots, FileSync, VulkanQueue,  *)
(* VisionEncoder, MatVec, Attention, CudaKernels, ModelFile, WeightStream  *)
(* and Generate.  One run explores them one at a time: "part" says which,  *)
(* the variables of the others stay at 0 (those of RateLimit in their      *)
(* initial state).                                                         *)
(***************************************************************************)
EXTENDS RateLimit, TLC, Sequences

VARIABLES part,
    tpl, msgs, mi, si, stk, ids,                       \* ChatTemplate
    vocab, text, at, syms, phase,                      \* Tokenizer
    prompt, grid, nPad, slots, scan, place, outcome,   \* ImageSlots
    second, src, dest, tmp, fetch, sent,               \* FileSync
    vk, job, script, rec, pend, mem, dev,              \* VulkanQueue
    vis, queue, image, todo, rows, tokens, rc, answer, \* VisionEncoder
    work, from, width, pool, worker, bufs, res,        \* MatVec; some of them Attention and CudaKernels
    conv, pc, items, head, disk, done, torn            \* ModelFile; with those of MatVec, WeightStream and Generate

chatVars == <<tpl, msgs, mi, si, stk, ids>>
textVars == <<vocab, text, at, syms, phase>>
slotVars == <<prompt, grid, nPad, slots, scan, place, outcome>>
syncVars == <<second, src, dest, tmp, fetch, sent>>
gpuVars == <<vk, job, script, rec, pend, mem, dev>>
visVars == <<vis, queue, image, todo, rows, tokens, rc, answer>>
kernelVars == <<work, from, width, pool, worker, bufs, res>>
modelVars == <<conv, pc, items, head, disk, done, torn>>

NoChat  == tpl = 0 /\ msgs = 0 /\ mi = 0 /\ si = 0 /\ stk = 0 /\ ids = 0
NoText  == vocab = 0 /\ text = 0 /\ at = 0 /\ syms = 0 /\ phase = 0
NoSlots == prompt = 0 /\ grid = 0 /\ nPad = 0 /\ slots = 0 /\ scan = 0 /\ place = 0 /\ outcome = 0
NoSync  == second = 0 /\ src = 0 /\ dest = 0 /\ tmp = 0 /\ fetch = 0 /\ sent = 0
NoGpu   == vk = 0 /\ job = 0 /\ script = 0 /\ rec = 0 /\ pend = 0 /\ mem = 0 /\ dev = 0
NoVision == vis = 0 /\ queue = 0 /\ image = 0 /\ todo = 0 /\ rows = 0 /\ tokens = 0 /\ rc = 0 /\ answer = 0
NoMatVec == from = 0 /\ width = 0 /\ bufs = 0
NoModel  == conv = 0 /\ pc = 0 /\ items = 0 /\ head = 0 /\ disk = 0 /\ done = 0 /\ torn = 0
NoKernel == work = 0 /\ pool = 0 /\ worker = 0 /\ res = 0 /\ NoMatVec

\* Threads are interchangeable.
Symmetry == Permutations(Thread)

-----------------------------------------------------------------------------
(* Templates: a chain of up to three branches in a loop, one branch of     *)
(* which may be such a chain itself, followed by an expression.            *)

St(k, c) == [kind |-> k, cond |-> c]
One == <<St("expr", {})>>
Openers == {St("if", {"user"}), St("if", {"system"}), St("if_last", {})}
Elifs == {St("elif", {"user"}), St("elif", {"system", "user"}), St("elif", {"always"})}
EndIfs == <<St("endif", {})>>
Chains(bodies) ==
    UNION {{<<o>> \o b \o EndIfs, <<o>> \o b \o <<e>> \o One \o EndIfs,
            <<o>> \o One \o <<e>> \o b \o EndIfs,
            <<o>> \o One \o <<e>> \o One \o <<f>> \o b \o EndIfs} :
                o \in Openers, e \in Elifs, f \in Elifs, b \in bodies}
Flat == Chains({One})
Looped(c) == <<St("for", {})>> \o c \o <<St("endfor", {})>> \o One
TheTemplates == {Looped(c) : c \in Flat \cup Chains(Flat)}
                \cup {<<[kind |-> "macro", cond |-> {}]>>}
TheDialogs == {<<"user">>, <<"system", "user">>, <<"user", "assistant", "user">>}

-----------------------------------------------------------------------------
(* Vocabularies and texts.  "D0 90" is a character of two bytes outside    *)
(* Latin-1, "<>" a special token.                                          *)

Chars == {<<"a">>, <<"b">>, <<"_">>, <<"C3", "A9">>, <<"D0", "90">>, <<"<", ">">>}
Concat3(s) == IF Len(s) = 0 THEN <<>> ELSE IF Len(s) = 1 THEN s[1]
              ELSE IF Len(s) = 2 THEN s[1] \o s[2] ELSE s[1] \o s[2] \o s[3]
TheTexts == {Concat3(s) : s \in UNION {[1..n -> Chars] : n \in 0..3}}
            \cup UNION {[1..n -> {"a", "b"}] : n \in 4..6}
TheBytes == {"<", ">", "a", "b", "_", "C3", "A9", "E9", "D0", "90"}
TheWidth == [b \in TheBytes |-> IF b \in {"C3", "D0"} THEN 2 ELSE IF b = "E9" THEN 3 ELSE 1]
TheSpecials == {<<"<", ">">>, <<"<", ">", "a">>}
TheLatin == [c \in {<<"C3", "A9">>} |-> "E9"]

BPE == [kind |-> "merges", unk |-> {}, scores |-> <<>>,
        pieces |-> <<<<"a">>, <<"b">>, <<"_">>, <<"C3">>, <<"A9">>, <<"E9">>, <<"D0">>, <<"90">>,
                     <<"a", "b">>, <<"a", "a">>, <<"a", "b", "a">>, <<"D0", "90">>,
                     <<"<">>, <<">">>, <<"<", ">">>>>,
        merges |-> <<<<<<"a">>, <<"b">>>>, <<<<"a">>, <<"a">>>>, <<<<"a", "b">>, <<"a">>>>,
                     <<<<"D0">>, <<"90">>>>>>]
Byte(b) == <<"byte", b>>
SPM == [kind |-> "scores", unk |-> {1}, merges |-> <<>>,
        pieces |-> <<<<"special">>, Byte("b"), Byte("D0"), Byte("90"), Byte("<"), Byte(">"), <<"_">>, <<"a">>,
                     <<"_", "a">>, <<"C3", "A9">>, <<"a", "C3", "A9">>, <<"a", "a">>>>,
        scores |-> <<0, 0, 0, 0, 0, 0, 1, 1, 3, 1, 4, 2>>]
Greedy == [kind |-> "greedy", unk |-> {1}, merges |-> <<>>, scores |-> <<>>,
           pieces |-> <<<<"special">>, Byte("C3"), Byte("A9"), <<"D0", "90">>, <<"<", ">">>, <<"_">>,
                        <<"a">>, <<"b">>, <<"a", "b">>, <<"b", "a", "b">>>>]
Unknown(v) == [v EXCEPT !.pieces[2] = <<"special">>]
TheVocabs == {BPE, [BPE EXCEPT !.pieces = SubSeq(@, 1, 14)], SPM, Greedy, Unknown(SPM),
              [Unknown(Greedy) EXCEPT !.unk = {}]}

ThePrompts == UNION {[1..n -> {"<image>", "</image>", "<slice>", "</slice>", "x"}] : n \in 0..5}

-----------------------------------------------------------------------------
(* Devices, models and switches of the Vulkan back end.  Left out are the  *)
(* set-ups whose recording is wrong in the code (README, section 6): two   *)
(* norms of a layer through one slot in one submission (OneSlot), slot 0   *)
(* of the resident norms overwritten (Clobbered), and the bias buffer or a *)
(* fallback layer while other layers are recorded or pending (Several);    *)
(* further scratch memory the host cannot map under steps of the host.     *)

Q4K == {"q", "k", "v", "o", "gate", "up", "down"}
Full == <<Q4K, Q4K>>
\* Q4_K_M, and layers that leave single steps to the host.
Mixed == {<<Q4K \ {"v", "down"}, Q4K>>, <<Q4K, Q4K \ {"o"}>>, <<Q4K \ {"gate"}, Q4K \ {"q", "o", "up"}>>}
AllDevices ==
    [integrated : BOOLEAN, vram : BOOLEAN, stream : BOOLEAN, pack : BOOLEAN, cpu : BOOLEAN, fuse : BOOLEAN,
     batch : {TRUE}, group : {1, 2}, bias : BOOLEAN, qknorm : BOOLEAN, embed : BOOLEAN,
     head : {"q4", "q6", "q6h", "cpu"}, q4 : {Full} \cup Mixed]
Resident(d) == d.pack /\ ~d.stream
Rope(d) == d.fuse /\ ~(d.integrated /\ (d.stream \/ d.cpu))
Whole(d) == IF d.fuse /\ ~d.qknorm THEN {l \in {1, 2} : d.q4[l] = Q4K} ELSE {}
OneSlot(d) == Rope(d) /\ ~Resident(d) /\ Whole(d) # {}
Clobbered(d) == Resident(d) /\ 1 \in Whole(d) /\ (Whole(d) # {1, 2} \/ d.head \notin {"q4", "q6"})
Several(d) == Resident(d) /\ Rope(d) /\ (d.group > 1 \/ d.vram)
TheDevices ==
    {d \in AllDevices :
        /\ ~OneSlot(d) /\ ~Clobbered(d)
        /\ Several(d) => ~d.bias /\ Whole(d) = {1, 2}
        /\ d.vram => ~d.integrated /\ ~d.stream /\ ~d.bias /\ ~d.qknorm /\ (d.fuse => Several(d))
        /\ d.cpu => d.integrated /\ d.fuse
        /\ d.group = 2 => Several(d)
        /\ d.q4 # Full \/ d.qknorm \/ ~d.fuse => ~d.embed /\ d.pack
        /\ d.stream => ~d.pack
        /\ d.qknorm => d.q4 = Full \/ d.head = "q6h"}

-----------------------------------------------------------------------------
(* Encoders with two layers, patches of one pixel and trained pictures of  *)
(* 4 or 8; of every optional tensor a file with it and a file without.     *)

VI == INSTANCE VisionImage WITH PosFloor <- 1
File(p, tensors) ==
    [kind |-> VI!KindOf(p), projector |-> p, patch |-> 1, merge |-> 2, size |-> 4, nl |-> 2,
     has |-> tensors, deep |-> {}, insert |-> 1, perhead |-> TRUE, down |-> 16, slices |-> 1,
     tokmin |-> 0, tokmax |-> 0]
QwenFiles == {[File("qwen3vl_merger", {"qkv", "ropeq", "ropek"} \cup s) EXCEPT !.deep = d] :
                 s \in {{}, {"gate"}, {"pre", "post"}}, d \in {{}, {2}, {1, 2}}}
MiniCpmFiles == {[File("resampler", {"post"}) EXCEPT !.merge = 4, !.size = z, !.insert = i] :
                    z \in {4, 8}, i \in {1, 2}}
GemmaOptional == {"pre", "qnorm", "knorm", "ls1", "post1", "gate", "post2", "ls2", "xscale", "std"}
GemmaFiles == {[File("gemma4v", {"ropeq", "ropek", "vnorm"} \cup s) EXCEPT
                    !.merge = m, !.perhead = m = 2, !.tokmin = 1, !.tokmax = 2] :
                  s \in {{}, GemmaOptional}, m \in {2, 3}}
TheFiles == QwenFiles \cup MiniCpmFiles \cup GemmaFiles
NoOption == [down |-> 0, slices |-> 0, tokmin |-> 0, tokmax |-> 0]
TheOptions == {NoOption, [NoOption EXCEPT !.down = 4], [NoOption EXCEPT !.slices = 2],
               [NoOption EXCEPT !.tokmax = 3]}
ThePictures == {<< <<3, 5>>, <<9, 4>> >>, << <<1, 9>>, <<4, 4>> >>, << <<6, 1>>, <<2, 5>> >>}

-----------------------------------------------------------------------------
(* Products and attention.  Left out is what the code computes wrongly     *)
(* (README, section 6): rows of several blocks in matmul_iq4xs and         *)
(* embed_iq4xs, and the layout Arm86 in loops that do not undo it.         *)

Kernels(op, dtypes, builds, out, nb, toks) ==
    [op : {op}, dtype : dtypes, build : builds, out : out, nb : nb, tokens : toks, row : {1},
     layout : {"arm82"}, prefer : {FALSE}]
KTypes == {"q4k", "q6k", "q5k", "iq4xs", "f16"}
KBuilds == {"scalar", "avx2", "neon"}
KProducts == Kernels("matmul", KTypes, KBuilds, {2, 3}, 1..2, {1})
             \cup Kernels("head", KTypes, KBuilds, 1..5, 1..2, {1})
             \cup Kernels("batch", KTypes, {"scalar"}, {2}, 1..2, {1, 3})
             \cup Kernels("embed", KTypes, {"scalar"}, {3}, 1..2, {1})
             \cup Kernels("dequant", KTypes, {"scalar"}, {2}, 1..2, {1})
W4Builds == KBuilds \cup {"dotprod", "i8mm"}
W4Products == {[c EXCEPT !.layout = l, !.prefer = p] :
                   l \in {"arm82", "arm86"}, p \in BOOLEAN,
                   c \in Kernels("matmul", {"w4"}, W4Builds, {5, 8, 11}, 1..2, {1})
                         \cup Kernels("batch", {"w4"}, W4Builds, {5, 11}, 1..2, 1..5)
                         \cup Kernels("dequant", {"w4"}, {"scalar"}, {5, 11}, 1..2, {1})}
FirstScale(c) == c.dtype = "iq4xs" /\ c.op \in {"matmul", "head", "embed"} /\ c.nb > 1
BlindToLayout(c) ==
    c.layout = "arm86" /\ c.build # "i8mm" /\ ~(c.build = "dotprod" /\ c.op = "matmul")
Preferring(c) == c.prefer => c.build = "i8mm" /\ c.op = "matmul"
TheProducts == {c \in KProducts \cup W4Products : ~FirstScale(c) /\ ~BlindToLayout(c) /\ Preferring(c)}

TheAttentions ==
    {c \in [cache : {"f16", "q8"}, heads : {2, 4}, kvheads : {1, 2}, s0 : {1}, pos : {2, 3},
            score : [1..3 -> -1..1]] : c.heads = 2 * c.kvheads}
Workers == {"w1", "w2"}

-----------------------------------------------------------------------------
(* Calls of CUDA kernels, in warps of 2 and blocks of 4 threads, as        *)
(* cuda_fwd.c makes them: on one token or several, in place or not.  Heads *)
(* are as wide as a warp or wider, as in models, with one row or several.  *)

Cuda(op, n, B) ==
    [op |-> op, n |-> n, B |-> B, inplace |-> TRUE, heads |-> 1, kvheads |-> 1, pos |-> 0, s0 |-> 0,
     out |-> 0, nb |-> 0, cublas |-> FALSE, tokens |-> <<>>, score |-> <<>>]
CudaElementwise ==
    {[Cuda(op, n, B) EXCEPT !.inplace = i] : op \in {"add", "swiglu"}, n \in {3, 5}, B \in 1..2, i \in BOOLEAN}
    \cup {[Cuda(op, 5, 1) EXCEPT !.inplace = op # "geglu"] : op \in {"geglu", "gelu", "mul", "scale"}}
    \cup {Cuda("bias", n, B) : n \in {3, 5}, B \in 1..2}
CudaNorms ==
    {[Cuda("norm", n, B) EXCEPT !.inplace = i] : n \in {3, 4, 6}, B \in 1..2, i \in BOOLEAN}
    \cup {Cuda("unit", n, 1) : n \in {3, 6}}
CudaRopes ==
    {[Cuda(op, n, B) EXCEPT !.heads = h, !.pos = p] :
        op \in {"llama", "qwen"}, n \in {2, 6}, B \in 1..2, h \in 1..2, p \in {0, 2}}
    \cup {[Cuda("neox", n, 1) EXCEPT !.heads = h, !.pos = p] : n \in {2, 6}, h \in 1..2, p \in {0, 2}}
CudaRows ==
    {[Cuda("store", n, B) EXCEPT !.pos = p] : n \in {3, 5}, B \in 1..2, p \in 0..1}
    \cup {[Cuda("embed", n, Len(s)) EXCEPT !.tokens = s] : n \in {3, 5}, s \in {<<2>>, <<1, 0>>}}
    \cup {[Cuda("embedq4k", 0, Len(s)) EXCEPT !.nb = k, !.tokens = s] : k \in 1..2, s \in {<<2>>, <<1, 0>>}}
CudaProducts ==
    {[Cuda("f16", 3, B) EXCEPT !.out = o, !.cublas = c] : B \in 1..2, o \in {2, 5}, c \in BOOLEAN}
    \cup {[Cuda("q4k", 0, b[1]) EXCEPT !.nb = k, !.out = b[2]] :
             b \in {<<1, 1>>, <<1, 2>>, <<2, 1>>}, k \in {1, 2, 3, 6}}
CudaAttention(n, B, h, kv, s0, pos) ==
    {[Cuda("attn", n, B) EXCEPT !.heads = h, !.kvheads = kv, !.s0 = s0, !.pos = pos, !.score = sc] :
        sc \in [s0..(pos + B - 1) -> -1..1]}
CudaHeads ==
    UNION {CudaAttention(n, 1, 1, 1, s0, 2) : n \in 1..2, s0 \in 0..1}
    \cup UNION {CudaAttention(n, 2, 1, 1, 0, p) : n \in 1..2, p \in 0..1}
    \cup UNION {CudaAttention(2, B, 2, kv, 0, 0) : B \in 1..2, kv \in 1..2}
    \cup UNION {CudaAttention(2, 1, 2, kv, 0, 1) : kv \in 1..2}
    \cup UNION {CudaAttention(n, 1, 2, kv, s, s) : n \in 3..4, kv \in 1..2, s \in 0..1}
    \cup UNION {CudaAttention(n, 1, 1, 1, 0, p) : n \in 3..4, p \in 1..2}
    \cup CudaAttention(3, 2, 1, 1, 0, 0) \cup CudaAttention(5, 1, 1, 1, 0, 1)
OutOfPlace(calls) == {[c EXCEPT !.inplace = FALSE] : c \in calls}
CudaCalls ==
    CudaElementwise \cup CudaNorms \cup CudaRopes
    \cup OutOfPlace(CudaRows \cup CudaProducts \cup CudaHeads)

-----------------------------------------------------------------------------
(* Conversions of models with one or two blocks, heads of one row and      *)
(* matrices of three.  Left out is what the code gets wrong (README,       *)
(* section 6): attn_q of qwen35 in BF16, per_layer_token_embd in Q4_K for  *)
(* the target w4, MTP tensors of unknown types, and a file cut off within  *)
(* a quantised tensor.                                                     *)

Tensor(n, b, nd, r, f) == [name |-> n, block |-> b, ndim |-> nd, rows |-> r, form |-> f]
Vec(n, b, f) == Tensor(n, b, 1, 1, f)
Mat(n, b, f) == Tensor(n, b, 2, 3, f)
Vecs(names, b) == [i \in 1..Len(names) |-> Vec(names[i], b, "f32")]
Mats(names, b, f) == [i \in 1..Len(names) |-> Mat(names[i], b, f)]
Outer(e, o) == <<Mat("token_embd", -1, e), Vec("output_norm", -1, "f32")>>
               \o (IF o = "" THEN <<>> ELSE <<Mat("output", -1, o)>>)
Ffn(b, f) == <<Vec("attn_norm", b, "f32"), Mat("ffn_down", b, "q6k")>> \o Mats(<<"ffn_gate", "ffn_up">>, b, f)
LlamaFile(e, f, o) ==
    Mats(<<"attn_q", "attn_k", "attn_v", "attn_output">>, 0, f) \o Ffn(0, f)
    \o Vecs(<<"ffn_norm", "attn_q_bias">>, 0) \o Outer(e, o)
Qwen35File(f, o) ==
    Mats(<<"attn_qkv", "attn_gate", "ssm_alpha", "ssm_beta", "ssm_out">>, 0, f) \o Ffn(0, f)
    \o Vecs(<<"post_attention_norm", "ssm_a", "ssm_dt", "ssm_norm">>, 0) \o Ffn(1, f)
    \o <<Tensor("attn_q", 1, 2, 4, f), Vec("post_attention_norm", 1, "f32"), Vec("attn_q_norm", 1, "iq2"),
         Mat("nextn.eh_proj", 1, "q8"), Vec("nextn.enorm", 1, "f32")>> \o Outer("q6k", o)
GemmaBlock(b, f) ==
    Ffn(b, f) \o Mats(<<"attn_q", "attn_output", "inp_gate", "proj">>, b, f)
    \o Vecs(<<"ffn_norm", "post_attention_norm", "post_ffw_norm", "layer_output_scale", "post_norm", "rope_freqs">>, b)
GemmaFile(f) ==
    GemmaBlock(0, f) \o Mats(<<"attn_k", "attn_v">>, 0, f) \o GemmaBlock(1, f)
    \o <<Mat("per_layer_token_embd", -1, "q6k"), Mat("per_layer_model_proj", -1, "bf16"),
         Vec("per_layer_proj_norm", -1, "f32")>> \o Outer("q6k", "")
Backwards(s) == [i \in 1..Len(s) |-> s[Len(s) + 1 - i]]
Conversion(fmt, arch, nb, source) ==
    [fmt |-> fmt, arch |-> arch, nb |-> nb, source |-> source, target |-> "keep", same |-> FALSE, cut |-> FALSE,
     heads |-> 2, shared |-> IF arch = "gemma4" THEN 1 ELSE 0, layout |-> "arm82", w4 |-> FALSE]
FromGguf ==
    {Conversion("gguf", a, 1, LlamaFile("q4k", f, o)) :
        a \in {"llama", "qwen"}, f \in {"q4k", "bf16", "iq4xs"}, o \in {"", "q4k", "q6k"}}
    \cup {Conversion("gguf", "qwen35", 2, Qwen35File("q4k", "q5k")),
          Conversion("gguf", "qwen35", 2, Backwards(Qwen35File("q4k", ""))),
          Conversion("gguf", "gemma4", 2, GemmaFile("q4k")),
          Conversion("gguf", "gemma4", 2, Tail(GemmaFile("q4k")))}
FromLlf ==
    {Conversion("llf", "llama", 1, LlamaFile("q4k", "q4k", "q6k"))}
    \cup {[Conversion("llf", "llama", 1, LlamaFile("q4k", "w4", o)) EXCEPT !.layout = l, !.w4 = TRUE] :
              l \in {"arm82", "arm86"}, o \in {"w4", "q4k"}}
FromSafetensors ==
    {Conversion("safetensors", "llama", 1, s) :
        s \in {LlamaFile("f16", "f16", ""), LlamaFile("f16", "f16", "f16"), Tail(LlamaFile("f16", "f16", "f16"))}}
TheConvs ==
    {[c EXCEPT !.target = t, !.same = same] :
        c \in FromGguf \cup FromLlf, t \in {"keep", "q4k", "w4"}, same \in BOOLEAN} \cup FromSafetensors
    \cup {[c EXCEPT !.cut = TRUE] :
             c \in FromSafetensors \cup {Conversion("gguf", "llama", 1, LlamaFile("q4k", "q4k", "f16"))}}

-----------------------------------------------------------------------------
(* A model of four blocks whose layers differ in size, with budgets for    *)
(* all of them, some, and little more than the largest.  Calls of the      *)
(* generator: every top_p at which the nucleus changes, prompts that fill  *)
(* the cache, drafts.  Left out are two tokens after a draft that was      *)
(* right: the code passes over a row (README, section 6).                  *)

FromZero(s) == [i \in 0..(Len(s) - 1) |-> s[i + 1]]
TheWeights == {[size |-> FromZero(<<1, 2, 2, 3, 2, 1, 3>>), budget |-> b, thread |-> t] :
                  b \in {0, 4, 6}, t \in BOOLEAN}

TheLogits == {FromZero(z) : z \in {<<0, 0, 0>>, <<0, 2, -1>>, <<2, -1, 2>>}}
Greedily == [prompt |-> <<1>>, ntokens |-> 3, temp |-> 0, topp |-> 10, eos |-> -1, large |-> FALSE,
             mtp |-> FALSE, hits |-> FALSE]
TheGenerations ==
    {[Greedily EXCEPT !.ntokens = 2, !.temp = t, !.topp = p, !.large = l] : t \in 1..2, p \in {0, 5, 8, 10}, l \in BOOLEAN}
    \cup {[Greedily EXCEPT !.mtp = m, !.eos = e, !.prompt = q] :
             m \in BOOLEAN, e \in {-1, 1}, q \in {<<1>>, <<0, 2>>, <<0, 1, 0, 2>>}}
    \cup {[Greedily EXCEPT !.ntokens = 2, !.mtp = TRUE, !.hits = TRUE, !.temp = t, !.prompt = q, !.eos = e] :
             t \in 0..1, q \in {<<1>>, <<0, 2>>}, e \in {-1, 2}}

-----------------------------------------------------------------------------
CT == INSTANCE ChatTemplate WITH Templates <- TheTemplates, Dialogs <- TheDialogs, IdCap <- 4
TK == INSTANCE Tokenizer WITH Vocabs <- TheVocabs, Texts <- TheTexts, Width <- TheWidth,
                              Specials <- TheSpecials, Latin <- TheLatin, OutCap <- 6
IS == INSTANCE ImageSlots WITH Prompts <- ThePrompts, PadCounts <- {0, 1, 3}, IdRoom <- 9,
                               MaxPlaces <- 2
FS == INSTANCE FileSync WITH MaxBlocks <- 2, MaxVersion <- 3, LastSecond <- 4
VQ == INSTANCE VulkanQueue WITH NB <- 2, MaxTok <- 2, Configs <- TheDevices

VE == INSTANCE VisionEncoder WITH Files <- TheFiles, Options <- TheOptions, Pictures <- ThePictures,
                                  PosFloor <- 1, mem <- rows, grid <- rc
MV == INSTANCE MatVec WITH Threads <- Workers, Calls <- TheProducts, Page <- 12, MaxRows <- 3,
                           call <- work, first <- from, n <- width, tmp <- bufs, y <- res
AT == INSTANCE Attention WITH Threads <- Workers, Calls <- TheAttentions, call <- work, out <- res
CK == INSTANCE CudaKernels WITH Calls <- CudaCalls, Warp <- 2, Wide <- 4, GemvMax <- 4, call <- work,
                                todo <- pool, warp <- worker, sh <- bufs, mem <- res, half <- width
MF == INSTANCE ModelFile WITH Convs <- {c \in TheConvs : c.same => c.fmt = "llf"}, Align <- 4, PanelRows <- 2
WS == INSTANCE WeightStream WITH NL <- 7, Depth <- 2, RingSize <- 7, Setups <- TheWeights, MaxTurns <- 2,
                                 setup <- conv, maxLayers <- width, pstate <- disk, mapped <- pool,
                                 ring <- items, tail <- bufs, stop <- done, kind <- torn, cur <- from,
                                 span <- work, turns <- res
GE == INSTANCE Generate WITH V <- 3, LogitSet <- TheLogits, MaxSeq <- 4, Cut <- 1, Parts <- 10,
                             Setups <- TheGenerations, setup <- conv, rows <- items, pos <- head,
                             logits <- disk, nxt <- done, draft <- torn, pending <- work,
                             round <- from, out <- width

ASSUME WS!StreamAssumption

\* Which components are idle, and which variables a step of a component leaves alone.
IdleBut(p) ==
    /\ p # "chat" => NoChat
    /\ p # "text" => NoText
    /\ p # "slots" => NoSlots
    /\ p # "sync" => NoSync
    /\ p # "gpu" => NoGpu
    /\ p # "vision" => NoVision
    /\ p \notin {"matvec", "attn", "cuda", "weights", "generate"} => NoKernel
    /\ p = "attn" => NoMatVec
    /\ p = "cuda" => from = 0
    /\ p = "generate" => pool = 0 /\ worker = 0 /\ bufs = 0 /\ res = 0
    /\ p \notin {"file", "weights", "generate"} => NoModel
KeptBut(p) ==
    /\ p # "limits" => UNCHANGED vars
    /\ p # "chat" => UNCHANGED chatVars
    /\ p # "text" => UNCHANGED textVars
    /\ p # "slots" => UNCHANGED slotVars
    /\ p # "sync" => UNCHANGED syncVars
    /\ p # "gpu" => UNCHANGED gpuVars
    /\ p # "vision" => UNCHANGED visVars
    /\ p \notin {"matvec", "attn", "cuda", "weights", "generate"} => UNCHANGED kernelVars
    /\ p = "attn" => UNCHANGED <<from, width, bufs>>
    /\ p = "cuda" => UNCHANGED from
    /\ p = "generate" => UNCHANGED <<pool, worker, bufs, res>>
    /\ p \notin {"file", "weights", "generate"} => UNCHANGED modelVars

InitAll ==
    /\ Init
    /\ part \in {"limits", "chat", "text", "slots", "sync", "gpu", "vision", "matvec", "attn",
                "cuda", "file", "weights", "generate"}
    /\ IdleBut(part)
    /\ part = "chat" => CT!Init
    /\ part = "text" => TK!Init
    /\ part = "slots" => IS!Init
    /\ part = "sync" => FS!Init
    /\ part = "gpu" => VQ!Init
    /\ part = "vision" => VE!Init
    /\ part = "matvec" => MV!Init
    /\ part = "attn" => AT!Init
    /\ part = "cuda" => CK!Init
    /\ part = "file" => MF!Init
    /\ part = "weights" => WS!Init
    /\ part = "generate" => GE!Init

NextAll ==
    /\ UNCHANGED part
    /\ KeptBut(part)
    /\ \/ part = "limits" /\ Next
       \/ part = "chat" /\ CT!Next
       \/ part = "text" /\ TK!Next
       \/ part = "slots" /\ IS!Next
       \/ part = "sync" /\ FS!Next
       \/ part = "gpu" /\ VQ!Next
       \/ part = "vision" /\ VE!Next
       \/ part = "matvec" /\ MV!Next
       \/ part = "attn" /\ AT!Next
       \/ part = "cuda" /\ CK!Next
       \/ part = "file" /\ MF!Next
       \/ part = "weights" /\ WS!Next
       \/ part = "generate" /\ GE!Next

SpecAll ==
    InitAll /\ [][NextAll]_<<part, vars, chatVars, textVars, slotVars, syncVars, gpuVars, visVars, kernelVars, modelVars>>

-----------------------------------------------------------------------------
\* ChatTemplate, Tokenizer and ImageSlots: the ids of a prompt.  vocab_chat_ids_multi
\* renders what stands in first true branches and nothing that stands in a false one or
\* in the one behind a first true one (a matched chain is looked at again after that),
\* vocab_encode loses nothing and merges as BPE is defined, and the slots of a picture
\* stand between their markers while the other ids keep their order.
PromptRight ==
    /\ part = "chat" => CT!BranchesRendered
    /\ part = "text" => TK!EncodesTheText
    /\ part = "slots" => IS!SlotsFilled

\* FileSync: a successful sync_file leaves the content of the source.
SyncedIsCurrent == part = "sync" => FS!SyncedIsCurrent

\* VulkanQueue: the logits the engine reads are those of the reference forward pass.
LogitsRight == part = "gpu" => VQ!LogitsRight

\* VisionEncoder: the tokens of a picture are those of the reference network, in order.
TokensRight == part = "vision" => VE!TokensRight

\* MatVec, Attention and CudaKernels: every product is that of its row and its token, and
\* every head has the softmax of its scores, whichever loop on whichever thread computes
\* it; and what a call leaves in the memory of a CUDA device is what it is to compute, in
\* whatever order __syncthreads lets warps and blocks run, except what attn_block_sum's
\* missing barrier can do to a head wider than a warp (CudaKernels!Torn).
KernelsRight ==
    /\ part = "matvec" => MV!DotsRight
    /\ part = "attn" => AT!SoftmaxRight
    /\ part = "cuda" => CK!LaunchesRight

\* ModelFile: a file the engine accepts has every tensor where the engine reads it.
FileHolds == part = "file" => MF!FileHolds

\* WeightStream: no job is lost, no layer forgotten or dropped while it is computed, and
\* with a budget every block with pages in the process can be dropped.
WeightsAccounted == part = "weights" => WS!WeightsAccounted

\* Generate: every token is drawn from the logits of all that was handed out, with the
\* share its probability has in the nucleus.
GeneratedRight == part = "generate" => GE!GeneratedRight
=============================================================================
