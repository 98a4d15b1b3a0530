---------------------------- MODULE VulkanQueue ----------------------------
(***************************************************************************)
(* The Vulkan back end as a queue of commands (vulkan_fwd.c and            *)
(* vulkan_compute.c).  The host copies data into buffers, records          *)
(* dispatches and barriers into a command buffer and submits it; the GPU   *)
(* runs submitted dispatches in any order the barriers leave open.  Layers *)
(* may be recorded together, submitted one by one in a chain, or cut in    *)
(* two by a step of the host, and a layer the fused kernels cannot do      *)
(* falls back to single operations and to the host.                        *)
(*                                                                         *)
(* The contents of a buffer is a term <<op, l, t>>: what operation op of   *)
(* layer l computes for token t in the reference forward pass, or Bad.  A  *)
(* dispatch yields such a term only if its operands and the weights in the *)
(* buffers are the ones the reference uses.                                *)
(***************************************************************************)
EXTENDS Naturals, SequencesExt

CONSTANTS NB,        \* transformer layers
          MaxTok,    \* tokens of a session
          Configs    \* devices, models and environment switches

VARIABLES vk,      \* the device, the model and the switches
          job,     \* the token under way, the layer to call next, length of the prompt
          script,  \* what the call under way still does on the host
          rec,     \* commands recorded in the command buffer
          pend,    \* submitted commands that have not run
          mem,     \* contents of the buffers and of the host's arrays
          dev      \* x_on_dev, cmd_open, tokb_i (links) and stream_layer

vars == <<vk, job, script, rec, pend, mem, dev>>

Token == 1..MaxTok
Layer == 1..NB
Output == NB + 1     \* the final norm and the output matrix
Bad == <<"bad", 0, 0>>

-----------------------------------------------------------------------------
(* What the device is set up to do.  vk has the fields integrated (shares  *)
(* memory with the host), vram (scratch buffers the host cannot map),      *)
(* stream (weights of one layer at a time), pack (norm weights fit), fuse  *)
(* (no YLLM_VK_NOFUSE), cpu (YLLM_VK_CPU_ROPE), batch (no YLLM_VK_NOTOKB   *)
(* and a single bank of weights), group (YLLM_VK_TOKB_GRP), bias and       *)
(* qknorm (the model has them), embed (Q4_K embedding), head (the output   *)
(* matrix: Q4_K, Q6_K, Q6_K without the quantising kernel, or a format     *)
(* only the host does) and q4 (the matrices of each layer that are Q4_K).  *)
(* Every kernel the switches leave on could be created, no call of the     *)
(* driver fails, and YLLM_VK_LM_CPU, YLLM_VK_HOSTW, YLLM_VK_NOBLOCK and    *)
(* YLLM_VK_TOKB_ONECB are not set (README, section 6).                     *)

Norms == vk.pack /\ ~vk.stream
GpuRope == vk.fuse /\ ~(vk.integrated /\ (vk.stream \/ vk.cpu))
TokenBatch == Norms /\ GpuRope /\ vk.batch
Chain == vk.vram /\ ~vk.integrated

\* lm_one_submit: one product for all of the logits; lm_fused: with the norm before it.
LmOneSubmit == vk.fuse /\ vk.head # "cpu" /\ ~vk.stream
LmFusedOn == LmOneSubmit /\ vk.head \in {"q4", "q6"}

-----------------------------------------------------------------------------
(* The reference: what an operation works on.                              *)

Feed == [norm1 |-> <<"x">>, q |-> <<"norm1">>, k |-> <<"norm1">>, v |-> <<"norm1">>,
         biasq |-> <<"q">>, biask |-> <<"k">>, biasv |-> <<"v">>,
         qn |-> <<IF vk.bias THEN "biasq" ELSE "q">>,
         kn |-> <<IF vk.bias THEN "biask" ELSE "k">>,
         ropeq |-> <<IF vk.qknorm THEN "qn" ELSE IF vk.bias THEN "biasq" ELSE "q">>,
         ropek |-> <<IF vk.qknorm THEN "kn" ELSE IF vk.bias THEN "biask" ELSE "k">>,
         attn |-> <<"ropeq">>, o |-> <<"attn">>, mid |-> <<"x", "o">>, norm2 |-> <<"mid">>,
         gate |-> <<"norm2">>, up |-> <<"norm2">>, act |-> <<"gate", "up">>,
         down |-> <<"act">>, x |-> <<"mid", "down">>,
         normf |-> <<"x">>, q8 |-> <<"normf">>,
         logits |-> <<IF vk.head \in {"q6", "q6h"} THEN "q8" ELSE "normf">>]

\* The activation a layer starts from is the result of the layer before.
From(op, in, l) == IF in = "x" /\ op \in {"norm1", "mid", "normf"} THEN l - 1 ELSE l

\* The rows of K, then of V, that the attention of position t reads.
Rows(l, t) == [i \in 1..(2 * t) |->
                 IF i <= t THEN <<"ropek", l, i>>
                 ELSE <<IF vk.bias THEN "biasv" ELSE "v", l, i - t>>]

Operands(op, l, t) ==
    [i \in DOMAIN Feed[op] |-> <<Feed[op][i], From(op, Feed[op][i], l), t>>]
    \o (IF op = "attn" THEN Rows(l, t) ELSE <<>>)

\* The term that arguments make, if one of the operations can be meant.
Term(ops, ls, ts, args) ==
    LET meant == {v \in ops \X ls \X ts : Operands(v[1], v[2], v[3]) = args}
    IN  IF meant = {} THEN Bad ELSE CHOOSE v \in meant : TRUE

-----------------------------------------------------------------------------
(* Commands.                                                               *)

\* The descriptor sets of the pipelines: buffers read and buffer written.
BindRms == [rms |-> <<<<"x">>, "y">>, rmsi |-> <<<<"x">>, "x">>]
BindGemv == [gemv |-> <<<<"x">>, "y">>, ds0 |-> <<<<"y">>, "o0">>, ds1 |-> <<<<"y">>, "o1">>,
             ds2 |-> <<<<"y">>, "o2">>, xo |-> <<<<"o2">>, "y">>, lm |-> <<<<"x">>, "logits">>]
BindOthers == [q8k |-> <<<<"x">>, "x">>, swi |-> <<<<"o0", "o1">>, "y">>,
               embed |-> <<<<"emb">>, "x">>]
BindBlock == [addxy |-> <<<<"x", "y">>, "x">>, addxo |-> <<<<"x", "o0">>, "x">>,
              bq |-> <<<<"o0">>, "o0">>, bk |-> <<<<"o1">>, "o1">>, bv |-> <<<<"o2">>, "o2">>,
              skvk |-> <<<<"o1">>, "k">>, skvv |-> <<<<"o2">>, "v">>]
BindAttn == [attn |-> <<<<"o0">>, "o2">>, ropeq |-> <<<<"o0">>, "o0">>,
             ropek |-> <<<<"o1">>, "o1">>]
Bind == BindRms @@ BindGemv @@ BindOthers @@ BindBlock @@ BindAttn

\* Command op on buffers; l and t are its push constants: a layer or a slot of
\* the norm buffer, and a position.  The host takes weights from the file.
Cmd(op, in, out, l, t) == [op |-> op, in |-> in, out |-> out, l |-> l, t |-> t, host |-> FALSE]
Gpu(op, ds, l, t) == Cmd(op, Bind[ds][1], Bind[ds][2], l, t)
Host(op, in, out, l, t) ==
    [do |-> "host", cmd |-> [Cmd(op, in, out, l, t) EXCEPT !.host = TRUE]]
Rms(ds, slot) == Gpu("rms", ds, slot, 0)
Quant == Gpu("quant", "q8k", 0, 0)
Gemv(op, ds, l) == Gpu(op, ds, l, 0)
Swiglu == Gpu("swiglu", "swi", 0, 0)
Rope(ds, t) == Gpu("rope", ds, 0, t)
Attn(l, t) == Gpu("attn", "attn", l, t)
Add(ds) == Gpu("add", ds, 0, 0)
AddBias(ds) == Gpu("bias", ds, 0, 0)
Store(ds, l, t) == Gpu("store", ds, l, t)
Bar == Cmd("barrier", <<>>, "", 0, 0)

\* What the host does with commands: begin a buffer anew or go on with the open one.
Begin(cmds) == [do |-> "begin", cmds |-> cmds]
Record(cmds) == [do |-> "record", cmds |-> cmds]
Submit(chained) == [do |-> "submit", chained |-> chained]
Wait == [do |-> "wait"]
SubmitAndWait == <<Submit(FALSE), Wait>>
RunNow(cmds) == <<Begin(cmds)>> \o SubmitAndWait

IsBarrier(c) == c.op = "barrier"
Makes == [bias |-> {"biasq", "biask", "biasv"}, qknorm |-> {"qn", "kn"}, rope |-> {"ropeq", "ropek"},
          add |-> {"mid", "x"}, swiglu |-> {"act"}, quant |-> {"q8"}, attn |-> {"attn"}]
Weighted == {"norm1", "norm2", "q", "k", "v", "o", "gate", "up", "down", "logits"}

\* What command c computes: matrices come from the resident weights or from the
\* layer that was streamed in, norm weights and bias from their buffers.
Result(m, c) ==
    LET args == [i \in DOMAIN c.in |-> m[c.in[i]]]
    IN  CASE c.op = "copy" -> args[1]
          [] c.op = "embed" -> <<"x", 0, IF c.host THEN c.t ELSE args[1]>>
          [] c.op = "rms" -> Term({m.wn[c.l][1]}, {m.wn[c.l][2]}, Token, args)
          [] c.op \in Weighted ->
                Term({c.op}, {IF vk.stream /\ ~c.host THEN m.wq ELSE c.l}, Token, args)
          [] c.op = "bias" -> Term(Makes.bias, {IF c.host THEN c.l ELSE m.bias}, Token, args)
          [] c.op = "qknorm" -> Term(Makes.qknorm, {c.l}, Token, args)
          [] c.op = "rope" -> Term(Makes.rope, Layer, {c.t}, args)
          [] c.op = "attn" ->
                LET keys == IF c.host THEN m.kh ELSE m.k
                    vals == IF c.host THEN m.vh ELSE m.v
                IN  Term({"attn"}, {c.l}, {c.t},
                         args \o SubSeq(keys[c.l], 1, c.t) \o SubSeq(vals[c.l], 1, c.t))
          [] OTHER -> Term(Makes[c.op], 1..Output, Token, args)

\* The memory after c: a row of the cache, one norm slot, or a whole buffer.
After(m, c) ==
    CASE c.op = "store" -> [m EXCEPT ![c.out][c.l][c.t] = m[c.in[1]]]
      [] c.op = "setnorm" -> [m EXCEPT !.wn[0] = <<c.out, c.l>>]
      [] c.op = "set" -> [m EXCEPT ![c.out] = c.l]
      [] OTHER -> [m EXCEPT ![c.out] = Result(m, c)]

-----------------------------------------------------------------------------
(* Transfers and kernels of single operations.                             *)

\* map_copy and map_read: directly, or by a staging copy that is submitted.
MapCopy(from, to) ==
    IF vk.vram THEN RunNow(<<Cmd("copy", <<from>>, to, 0, 0)>>)
    ELSE <<Host("copy", <<from>>, to, 0, 0)>>

\* The weights of a norm into slot 0 of the norm buffer.
SetNorm(name, l) == <<Host("setnorm", <<>>, name, l, 0)>>
\* The weights of one layer, or of the output matrix, into the weight buffer.
SetWeights(l) == <<Host("set", <<>>, "wq", l, 0)>>

\* The slots of resident norm weights; without them everything uses slot 0.
NormSlot1(l) == IF Norms THEN 2 * (l - 1) ELSE 0
NormSlot2(l) == IF Norms THEN 2 * (l - 1) + 1 ELSE 0
NormSlotF == IF Norms THEN 2 * NB ELSE 0

KRmsnorm(name, l, from, to) ==
    MapCopy(from, "x") \o SetNorm(name, l) \o RunNow(<<Rms("rms", 0)>>) \o MapCopy("y", to)
\* Between single operations an integrated device leaves the norm to the host.
OrCpuRmsnorm(name, l, from, to) ==
    IF vk.integrated THEN <<Host(name, <<from>>, to, l, 0)>> ELSE KRmsnorm(name, l, from, to)
KGemv(op, l, from, to) ==
    MapCopy(from, "x") \o RunNow(<<Gemv(op, "gemv", l)>>) \o MapCopy("y", to)
OrCpuMatmul(op, l, from, to) ==
    IF op \in vk.q4[l] THEN KGemv(op, l, from, to) ELSE <<Host(op, <<from>>, to, l, 0)>>

\* A layer's weights are copied unless they are the ones in the buffer.
StreamLayer(l) == IF vk.stream /\ dev.layer # l THEN SetWeights(l) ELSE <<>>

-----------------------------------------------------------------------------
(* vulkan_fused_block: the whole layer on the device.                      *)

Matrices == {"q", "k", "v", "o", "gate", "up", "down"}
Whole(l) == vk.fuse /\ ~vk.qknorm /\ vk.q4[l] = Matrices

Qkv(l, slot) == <<Rms("rms", slot), Bar,
                  Gemv("q", "ds0", l), Gemv("k", "ds1", l), Gemv("v", "ds2", l)>>
Bias == IF vk.bias
        THEN <<Bar, AddBias("bq"), AddBias("bk"), AddBias("bv")>>
        ELSE <<Bar>>
RopeOnGpu(t) == <<Bar, Rope("ropeq", t), Bar, Rope("ropek", t), Bar>>
HostRope(t, q, k) == <<Host("rope", <<q>>, q, 0, t), Host("rope", <<k>>, k, 0, t)>>
StoreKV(l, t) == <<Store("skvk", l, t), Store("skvv", l, t), Bar>>
HostRows(l, t, k, v) == <<Host("store", <<k>>, "kh", l, t), Host("store", <<v>>, "vh", l, t)>>
AttnO(l, t) == <<Attn(l, t), Bar, Gemv("o", "xo", l)>>
GateUp(l) == <<Bar, Gemv("gate", "ds0", l), Gemv("up", "ds1", l)>>
Down(l) == <<Bar, Swiglu, Bar, Gemv("down", "ds0", l)>>
Rest(l, t) ==
    AttnO(l, t) \o <<Bar, Add("addxy"), Bar, Rms("rms", NormSlot2(l))>>
    \o GateUp(l) \o Down(l) \o <<Bar, Add("addxo")>>

\* Submission of a link of the chain waits for the semaphore of the link before.
SubmitChainedUnordered(finish) == <<Submit(FALSE)>> \o (IF finish THEN <<Wait>> ELSE <<>>) \* mutant
SubmitChained(finish) == <<Submit(dev.links > 0)>> \o (IF finish THEN <<Wait>> ELSE <<>>)

FusedBlock(l, t, sync) ==
    LET batch   == TokenBatch /\ ~sync
        chain   == batch /\ Chain
        deferLm == ~chain /\ batch /\ l = NB /\ LmFusedOn
        deferSubmit == ~chain /\ batch /\ l # NB /\ l % vk.group # 0
        finish  == l = NB /\ ~LmFusedOn
        inputs  == (IF ~dev.x /\ ~dev.open THEN MapCopy("hx", "x") ELSE <<>>)
                   \o (IF Norms THEN <<>> ELSE SetNorm("norm1", l))
                   \o (IF vk.bias THEN <<Host("set", <<>>, "bias", l, 0)>> ELSE <<>>)
        norm2   == IF Norms THEN <<>> ELSE SetNorm("norm2", l)
        first   == Qkv(l, NormSlot1(l)) \o Bias \o (IF GpuRope THEN RopeOnGpu(t) ELSE <<>>)
        second  == StoreKV(l, t)
        open    == IF chain \/ ~GpuRope \/ ~dev.open THEN <<Begin(first)>> ELSE <<Record(<<Bar>> \o first)>>
        record  == inputs \o open
                   \o (IF GpuRope THEN <<Record(second)>> \o norm2 \o <<Record(Rest(l, t))>>
                       ELSE SubmitAndWait \o HostRope(t, "o0", "o1") \o HostRows(l, t, "o1", "o2")
                            \o norm2 \o <<Begin(second \o Rest(l, t))>>)
        submit  == IF chain THEN SubmitChained(finish) ELSE SubmitAndWait
    IN  IF deferLm \/ deferSubmit
        THEN [run |-> record, dev |-> [dev EXCEPT !.x = TRUE, !.open = TRUE]]
        ELSE [run |-> record \o submit \o (IF sync THEN MapCopy("x", "hx") ELSE <<>>),
              dev |-> [dev EXCEPT !.x = ~sync, !.open = FALSE,
                         !.links = IF ~chain THEN @ ELSE IF finish THEN 0 ELSE @ + 1]]

-----------------------------------------------------------------------------
(* A layer the fused block does not do: the activation goes to the host.   *)

\* Bias, QK norm and RoPE are steps of the host, on its arrays or in mapped buffers.
HostQkv(l, t, q, k, v) ==
    (IF vk.bias THEN [i \in 1..3 |-> Host("bias", <<(<<q, k, v>>)[i]>>, (<<q, k, v>>)[i], l, 0)] ELSE <<>>)
    \o (IF vk.qknorm THEN <<Host("qknorm", <<q>>, q, l, 0), Host("qknorm", <<k>>, k, l, 0)>> ELSE <<>>)
    \o HostRope(t, q, k)
DeviceRows(l, t, k, v) == <<Host("store", <<k>>, "k", l, t), Host("store", <<v>>, "v", l, t)>>
HostAdd == <<Host("add", <<"hx", "ha">>, "hx", 0, 0)>>

FusedAttn(l, t) ==
    MapCopy("hx", "x") \o SetNorm("norm1", l) \o RunNow(Qkv(l, 0))
    \o HostQkv(l, t, "o0", "o1", "o2")
    \o DeviceRows(l, t, "o1", "o2") \o HostRows(l, t, "o1", "o2")
    \o RunNow(AttnO(l, t)) \o MapCopy("y", "ha")

FusedQkv(l) ==
    MapCopy("hx", "x") \o SetNorm("norm1", l) \o RunNow(Qkv(l, 0))
    \o MapCopy("o0", "hq") \o MapCopy("o1", "hk") \o MapCopy("o2", "hv")

SingleQkv(l) ==
    OrCpuRmsnorm("norm1", l, "hx", "hx2") \o OrCpuMatmul("q", l, "hx2", "hq")
    \o OrCpuMatmul("k", l, "hx2", "hk") \o OrCpuMatmul("v", l, "hx2", "hv")

\* Attention over the rows of the device, with the output projection if that is Q4_K;
\* without the fused kernels by the host, over its own rows.
AttnDecode(l, t) ==
    LET fuseO == "o" \in vk.q4[l]
    IN  MapCopy("hq", "o0") \o DeviceRows(l, t, "hk", "hv") \o HostRows(l, t, "hk", "hv")
        \o RunNow(IF fuseO THEN AttnO(l, t) ELSE <<Attn(l, t)>>)
        \o MapCopy(IF fuseO THEN "y" ELSE "o2", "ha")
HostAttn(l, t) == HostRows(l, t, "hk", "hv") \o <<Host("attn", <<"hq">>, "ha", l, t)>>

SingleAttn(l, t) ==
    (IF vk.fuse /\ {"q", "k", "v"} \subseteq vk.q4[l] THEN FusedQkv(l) ELSE SingleQkv(l))
    \o HostQkv(l, t, "hq", "hk", "hv")
    \o (IF vk.fuse THEN AttnDecode(l, t) ELSE HostAttn(l, t))
    \o (IF vk.fuse /\ "o" \in vk.q4[l] THEN <<>>
        ELSE <<Host("copy", <<"ha">>, "hx2", 0, 0)>> \o OrCpuMatmul("o", l, "hx2", "ha"))

FusedFfn(l) ==
    MapCopy("hx", "x") \o SetNorm("norm2", l)
    \o RunNow(<<Rms("rms", 0)>> \o GateUp(l) \o Down(l)) \o MapCopy("o0", "ha")

SingleFfn(l) ==
    OrCpuRmsnorm("norm2", l, "hx", "hx2")
    \o OrCpuMatmul("gate", l, "hx2", "hg") \o OrCpuMatmul("up", l, "hx2", "hu")
    \o <<Host("swiglu", <<"hg", "hu">>, "hx2", 0, 0)>> \o OrCpuMatmul("down", l, "hx2", "ha")

\* A buffer that is still open is dropped with what was recorded in it.
Fallback(l, t) ==
    [run |-> (IF dev.open THEN <<Begin(<<>>)>> ELSE <<>>)
             \o (IF dev.x THEN MapCopy("x", "hx") ELSE <<>>)
             \o (IF vk.fuse /\ {"q", "k", "v", "o"} \subseteq vk.q4[l]
                 THEN FusedAttn(l, t) ELSE SingleAttn(l, t)) \o HostAdd
             \o (IF vk.fuse /\ {"gate", "up", "down"} \subseteq vk.q4[l]
                 THEN FusedFfn(l) ELSE SingleFfn(l)) \o HostAdd,
     dev |-> [dev EXCEPT !.x = FALSE, !.open = FALSE]]

FwdBlock(l, t, sync) ==
    LET block == IF Whole(l) THEN FusedBlock(l, t, sync) ELSE Fallback(l, t)
    IN  [run |-> StreamLayer(l) \o block.run,
         dev |-> [block.dev EXCEPT !.layer = IF vk.stream THEN l ELSE @]]

-----------------------------------------------------------------------------
(* Embedding, final norm and output matrix.                                *)

\* The embedding kernel on a row of the table, whose buffer map_copy always fills by a
\* staging copy, or the host's embedding and an upload.
Embed(t, sync) ==
    LET array == IF sync THEN "pb" ELSE "hx"
    IN  [run |-> IF vk.embed /\ vk.fuse
                 THEN <<Host("set", <<>>, "stage", t, 0)>>
                      \o RunNow(<<Cmd("copy", <<"stage">>, "emb", 0, 0)>>)
                      \o RunNow(<<Gpu("embed", "embed", 0, 0)>>)
                 ELSE <<Host("embed", <<>>, array, 0, t)>> \o MapCopy(array, "x"),
         dev |-> [dev EXCEPT !.x = TRUE]]

\* The end of a prefill token: the activation goes to the batch, the device forgets it.
SaveX ==
    [run |-> IF dev.x THEN MapCopy("x", "pb") ELSE <<Host("copy", <<"hx">>, "pb", 0, 0)>>,
     dev |-> [dev EXCEPT !.x = FALSE]]

LmFused ==
    LET chained == Chain /\ dev.links > 0
        cmds == <<Rms("rmsi", NormSlotF), Bar>>
                \o (IF vk.head = "q6" THEN <<Quant, Bar>> ELSE <<>>) \o <<Gemv("logits", "lm", Output)>>
    IN  [run |-> (IF ~dev.x /\ ~dev.open THEN MapCopy("hx", "x") ELSE <<>>)
                 \o (IF Norms THEN <<>> ELSE SetNorm("normf", Output))
                 \o <<IF dev.open THEN Record(<<Bar>> \o cmds) ELSE Begin(cmds)>>
                 \o (IF chained THEN SubmitChained(TRUE) ELSE SubmitAndWait)
                 \o <<Host("copy", <<"logits">>, "hlogits", 0, 0)>>,
         dev |-> [dev EXCEPT !.x = TRUE, !.open = FALSE, !.links = IF chained THEN 0 ELSE @]]

\* vulkan_final_norm in place on the device, the host's quantisation of what it can see
\* there, and one product of the whole matrix.
NormThenOneSubmit ==
    [run |-> (IF dev.x THEN <<>> ELSE MapCopy("hx", "x")) \o SetNorm("normf", Output)
             \o RunNow(<<Rms("rmsi", 0)>>)
             \o <<Host("quant", <<IF vk.vram THEN "hx" ELSE "x">>, "hxq", 0, 0)>>
             \o MapCopy("hxq", "x") \o RunNow(<<Gemv("logits", "lm", Output)>>)
             \o <<Host("copy", <<"logits">>, "hlogits", 0, 0)>>,
     dev |-> [dev EXCEPT !.x = TRUE]]

\* vulkan_final_norm and vulkan_lm_head by single operations, in chunks of rows; or the
\* host's matrix product, before which the engine uploads the activation again.
NormAndOutput(sync) ==
    LET cpu == vk.head = "cpu"
        quantised == <<Host(IF vk.head = "q4" THEN "copy" ELSE "quant", <<"hx">>, "hxq", 0, 0)>>
    IN  [run |-> (IF dev.x THEN MapCopy("x", "hx") ELSE <<>>) \o KRmsnorm("normf", Output, "hx", "hx")
                 \o (IF cpu THEN (IF sync THEN <<>> ELSE MapCopy("hx", "x"))
                                 \o <<Host("logits", <<"hx">>, "hlogits", Output, 0)>>
                     ELSE quantised \o (IF vk.stream THEN SetWeights(Output) ELSE <<>>)
                          \o KGemv("logits", Output, "hxq", "hlogits")),
         dev |-> [dev EXCEPT !.x = cpu /\ ~sync, !.layer = IF cpu \/ ~vk.stream THEN @ ELSE 0]]

-----------------------------------------------------------------------------
Init ==
    /\ vk \in Configs
    /\ job \in [tok : {1}, layer : {0}, prompt : 0..MaxTok]
    /\ script = <<>> /\ rec = <<>> /\ pend = <<>>
    /\ dev = [x |-> FALSE, open |-> FALSE, links |-> 0, layer |-> 0]
    /\ mem = [b \in {"x", "y", "o0", "o1", "o2", "logits", "pb", "hx", "hx2", "hxq", "hq", "hk",
                     "hv", "ha", "hg", "hu", "hlogits"} |-> Bad]
             @@ [b \in {"stage", "emb", "bias", "wq"} |-> 0]
             @@ [b \in {"k", "v", "kh", "vh"} |-> [l \in Layer |-> [t \in Token |-> Bad]]]
             @@ [b \in {"wn"} |-> [s \in 0..(2 * NB) |->
                    IF ~Norms THEN <<"none", 0>>
                    ELSE IF s = 2 * NB THEN <<"normf", Output>>
                    ELSE <<IF s % 2 = 0 THEN "norm1" ELSE "norm2", 1 + s \div 2>>]]

\* A call of the back end: what it will do on the host, and the flags it leaves.
Call(c) == script' = c.run /\ dev' = c.dev /\ UNCHANGED <<vk, rec, pend, mem>>

Sync == job.tok <= job.prompt     \* vulkan_prefill copies the activation back

CallEmbed ==
    /\ script = <<>> /\ job.layer = 0
    /\ Call(Embed(job.tok, Sync))
    /\ job' = [job EXCEPT !.layer = 1]

CallBlock ==
    /\ script = <<>> /\ job.layer \in Layer
    /\ Call(FwdBlock(job.layer, job.tok, Sync))
    /\ job' = [job EXCEPT !.layer = @ + 1]

\* A prompt token: only the last one of the prompt goes on to the logits.
CallSave ==
    /\ script = <<>> /\ job.layer = Output /\ Sync
    /\ Call(IF job.tok < job.prompt THEN SaveX
            ELSE [SaveX EXCEPT !.run = @ \o <<Host("copy", <<"pb">>, "hx", 0, 0)>>])
    /\ job' = IF job.tok < job.prompt THEN [job EXCEPT !.tok = @ + 1, !.layer = 0]
              ELSE [job EXCEPT !.layer = Output + 1]

CallOutput ==
    /\ script = <<>> /\ job.layer = (IF Sync THEN Output + 1 ELSE Output)
    /\ Call(IF LmFusedOn THEN LmFused
            ELSE IF LmOneSubmit THEN NormThenOneSubmit ELSE NormAndOutput(Sync))
    /\ job' = [job EXCEPT !.layer = Output + 2]

NextToken ==
    /\ script = <<>> /\ job.layer = Output + 2 /\ job.tok < MaxTok
    /\ job' = [job EXCEPT !.tok = @ + 1, !.layer = 0]
    /\ UNCHANGED <<vk, script, rec, pend, mem, dev>>

\* Barriers with nothing before them hold nothing back.
Settled(s) ==
    LET work == {i \in DOMAIN s : ~IsBarrier(s[i])}
    IN  IF work = {} THEN <<>> ELSE SubSeq(s, Min(work), Len(s))

HostStep ==
    /\ script # <<>>
    /\ LET i == Head(script)
       IN  \/ /\ i.do = "host"
              /\ mem' = After(mem, i.cmd)
              /\ UNCHANGED <<rec, pend>>
           \/ /\ i.do \in {"begin", "record"}
              /\ rec' = (IF i.do = "begin" THEN <<>> ELSE rec) \o i.cmds
              /\ UNCHANGED <<mem, pend>>
           \/ /\ i.do = "submit"
              /\ pend' = Settled(pend \o (IF i.chained THEN <<Bar>> ELSE <<>>) \o rec)
              /\ rec' = <<>>
              /\ UNCHANGED mem
           \/ /\ i.do = "wait" /\ pend = <<>>
              /\ UNCHANGED <<mem, rec, pend>>
    /\ script' = Tail(script)
    /\ UNCHANGED <<vk, job, dev>>

\* The GPU runs a dispatch once everything before the last barrier in front of it has run.
GpuStep ==
    /\ \E i \in DOMAIN pend :
          /\ \A j \in 1..i : ~IsBarrier(pend[j])
          /\ mem' = After(mem, pend[i])
          /\ pend' = Settled(RemoveAt(pend, i))
    /\ UNCHANGED <<vk, job, script, rec, dev>>

Next == CallEmbed \/ CallBlock \/ CallSave \/ CallOutput \/ NextToken \/ HostStep \/ GpuStep

Spec == Init /\ [][Next]_vars

-----------------------------------------------------------------------------
\* Whatever order the GPU takes and however the layers are recorded, the logits
\* the engine reads after a token are those of the reference for that token over
\* the rows of all tokens before it, and nothing of it is left in the queue.
LogitsRight ==
    (script = <<>> /\ job.layer = Output + 2)
        => mem.hlogits = <<"logits", Output, job.tok>> /\ pend = <<>> /\ ~dev.open
=============================================================================
