--------------------------- MODULE VisionEncoder ---------------------------
(***************************************************************************)
(* The vision encoders: qwen3vl.c, minicpmv.c and gemma4v.c.  The views of *)
(* a picture (VisionImage) go through a vision transformer one after the   *)
(* other: one row per patch is carried through the layers, and neighbouring*)
(* rows are merged into the tokens handed to the language model.  Every    *)
(* kernel works on whole buffers, the buffers are reused all the time and  *)
(* from picture to picture, and rows change places when patches are        *)
(* merged.  A row holds a term <<op, l, at, shows>>, "what operation op of *)
(* layer l computes in the reference network for the patches at of a       *)
(* view", or Bad.  A kernel yields such a term only if its operands are    *)
(* those of the reference.                                                 *)
(*                                                                         *)
(* A view goes through an encoder as a list of kernels ("todo"), which the *)
(* code runs in that order; the threads inside a kernel work on disjoint   *)
(* rows.  One picture is encoded at a time (README, section 6).            *)
(***************************************************************************)
EXTENDS VisionImage

CONSTANTS Files,      \* encoders as their files describe them
          Options,    \* values of --opt
          Pictures    \* sequences of picture sizes <<width, height>>

VARIABLES vis,      \* the encoder
          queue,    \* pictures still to encode
          image,    \* the picture under way: views to encode, and views done
          todo,     \* the kernels still to run for the first of the former
          mem,      \* the rows of every buffer
          tokens,   \* the tokens written to the caller's buffers
          grid,     \* n_row and n_col
          answer    \* what the last call returned

vars == <<vis, queue, image, todo, mem, tokens, grid, answer>>

(* vis has, beside the fields that VisionImage uses, nl (layers), has (the *)
(* optional tensors in the file), perhead (the norms of q and k are for a  *)
(* head), deep (the layers with a deepstack head) and insert (the layers   *)
(* before the window merger).                                              *)

\* "qkv" is ffg in gemma4v.c; "table" stands for the position and rope tables.
Buffers == {"x", "res", "tmp", "q", "k", "v", "attn", "ff", "qkv", "table", "out", "ds1", "ds2"}
DsSlot == <<"ds1", "ds2">>
Bad == <<"bad", 0, <<>>, <<>>>>

View == image.views[1]
Gh == View.gh
Gw == View.gw
N == Gh * Gw
Term(op, l, at) == <<op, l, at, View.shows>>
Merger == vis.kind = "minicpmv" /\ vis.down # 4

-----------------------------------------------------------------------------
(* Orders of the patches.                                                  *)

Patch(y, x) == <<y, x>>
Row(gw, y, x) == y * gw + x + 1
Raster(gh, gw) == [t \in 1..(gh * gw) |-> Patch((t - 1) \div gw, (t - 1) % gw)]

\* Four patches of a square one after the other, squares in raster order.
Squares(gh, gw) ==
    [t \in 1..(gh * gw) |->
        LET cell == (t - 1) \div 4
            dy == ((t - 1) % 4) \div 2
            dx == (t - 1) % 2
        IN  Patch(2 * (cell \div (gw \div 2)) + dy, (2 * (cell % (gw \div 2))) + dx)]

\* The row order that a sequence of patches stands for.
Order(places, gw) == [t \in DOMAIN places |-> Row(gw, places[t][1], places[t][2])]
SpatialMerge(gh, gw) == Order(Squares(gh, gw), gw)
RopePositionsRaster(gh, gw) == Raster(gh, gw) \* mutant
RopePositions(gh, gw) == Squares(gh, gw)
WindowOrder(gh, gw) == Order(Squares(gh, gw), gw)
Backwards(order) == [t \in DOMAIN order |-> CHOOSE i \in DOMAIN order : order[i] = t]
\* Every second row and column, from (r, c).
Gather2x2(gh, gw, r, c) ==
    [t \in 1..((gh \div 2) * (gw \div 2)) |->
        Row(gw, 2 * ((t - 1) \div (gw \div 2)) + r, (2 * ((t - 1) % (gw \div 2))) + c)]

-----------------------------------------------------------------------------
(* The reference network.                                                  *)

Optional == {"pre", "qnorm", "knorm", "ropeq", "ropek", "vnorm", "ls1", "post1", "gate", "post2",
             "ls2", "xscale", "std", "post", "qkv"}
On(op) == op \in Optional => op \in vis.has

\* Operations that follow one another, as far as the model has them.
Chain == [start |-> <<"sum", "pre">>, query |-> <<"q", "qnorm", "ropeq">>,
          key |-> <<"k", "knorm", "ropek">>, value |-> <<"v", "vnorm">>,
          attn |-> <<"o", "ls1", "post1">>, ffn |-> <<"down", "post2", "ls2">>,
          out |-> <<"x", "xscale">>, pooled |-> <<"pool", "std">>]
Path(c) == SelectSeq(Chain[c], On)
End(c) == Last(Path(c))
\* What operation op of chain c works on.
Into(c, op) == LET p == Path(c) IN p[(CHOOSE i \in DOMAIN p : p[i] = op) - 1]
Follows(c, op) == op \in {Path(c)[i] : i \in 2..Len(Path(c))}

\* The activation that layer l starts from, as an operation of a layer.
Entering(l) == IF l = 1 THEN <<End("start"), 0>>
               ELSE IF Merger /\ l = vis.insert + 1 THEN <<"merged", 0>>
               ELSE <<End("out"), l - 1>>
Entered == <<End("out"), vis.insert>>
Leaving == IF On("post") THEN <<"post", 0>> ELSE Entering(vis.nl + 1)

\* Operands of each operation, of the same layer ...
Feed ==
    [emb |-> <<"pix">>, bias |-> <<"emb">>,
     sum |-> <<IF vis.kind = "qwen3vl" THEN "bias" ELSE "emb", "pos">>,
     q |-> <<IF On("qkv") THEN "qkv" ELSE "norm1">>, k |-> <<IF On("qkv") THEN "qkv" ELSE "norm1">>,
     v |-> <<IF On("qkv") THEN "qkv" ELSE "norm1">>, qkv |-> <<"norm1">>,
     o |-> <<"attn">>, norm2 |-> <<"mid">>, up |-> <<"norm2">>, gate |-> <<"norm2">>,
     act |-> IF On("gate") THEN <<"gate", "up">> ELSE <<"up">>, down |-> <<"act">>,
     x |-> <<"mid", End("ffn")>>,
     dsup |-> <<"dsnorm">>, dsact |-> <<"dsup">>, dsdown |-> <<"dsact">>,
     wq |-> <<"wnorm">>, wk |-> <<"wnorm">>, wv |-> <<"wnorm">>, wo |-> <<"wattn">>,
     mnorm |-> <<"cat">>, mup |-> <<"mnorm">>, mact |-> <<"mup">>, mdown |-> <<"mact">>,
     merged |-> <<"mdown", "mean">>,
     mmnorm |-> <<"mmcat">>, mmup |-> <<"mmnorm">>, mmact |-> <<"mmup">>, mmdown |-> <<"mmact">>,
     unit |-> <<End("pooled")>>, proj |-> <<"unit">>]

\* ... and of the operations that start from another layer's activation.
FeedFrom(l) ==
    [norm1 |-> <<Entering(l)>>, mid |-> <<Entering(l), <<End("attn"), l>>>>,
     wnorm |-> <<Entered>>, wsum |-> <<Entered, <<"wo", 0>>>>, post |-> <<Entering(vis.nl + 1)>>]

\* Operations on several neighbouring rows, which stand for all their patches.
Gathered(l) ==
    [dsnorm |-> <<End("out"), l>>, mean |-> <<"wsum", 0>>, cat |-> <<"wsum", 0>>,
     pool |-> Entering(vis.nl + 1)]
    @@ (IF vis.kind = "qwen3vl" THEN "mmup" :> Leaving ELSE "mmcat" :> Leaving)
Parts(op) == IF op = "pool" THEN vis.merge * vis.merge ELSE 4
Part(at, i, n) == LET k == Len(at) \div n IN SubSeq(at, (i - 1) * k + 1, i * k)

Cell(y, x, s) == [i \in 1..(s * s) |-> Patch(s * y + (i - 1) \div s, s * x + ((i - 1) % s))]
Cells(s) == {Cell(y, x, s) : y \in 0..(Gh \div s - 1), x \in 0..(Gw \div s - 1)}
\* The patches whose keys and values the attention of layer l reads.
Attended(l) == IF Merger /\ l > vis.insert THEN Cells(2) ELSE Cells(1)
Window(at) == {<<p>> : p \in Range(CHOOSE c \in Cells(2) : at[1] \in Range(c))}

Pairs(k, v, l, places) == {<<Term(k, l, b), Term(v, l, b)>> : b \in places}
Of(source, at) == Term(source[1], source[2], at)
Operands(op, l, at) ==
    CASE op \in DOMAIN Gathered(l) ->
            [i \in 1..Parts(op) |-> Of(Gathered(l)[op], Part(at, i, Parts(op)))]
      [] op = "attn" -> <<Term(End("query"), l, at), Pairs(End("key"), End("value"), l, Attended(l))>>
      [] op = "wattn" -> <<Term("wq", 0, at), Pairs("wk", "wv", 0, Window(at))>>
      [] op \in {"ropeq", "ropek"} ->
            <<Term(Into(IF op = "ropeq" THEN "query" ELSE "key", op), l, at), Term("at", 0, at)>>
      [] \E c \in DOMAIN Chain : Follows(c, op) ->
            <<Term(Into(CHOOSE c \in DOMAIN Chain : Follows(c, op), op), l, at)>>
      [] op \in DOMAIN FeedFrom(l) ->
            [i \in DOMAIN FeedFrom(l)[op] |-> Of(FeedFrom(l)[op][i], at)]
      [] OTHER -> [i \in DOMAIN Feed[op] |-> Term(Feed[op][i], l, at)]

-----------------------------------------------------------------------------
(* Kernels.  n rows of buffer out; "how" says which rows of the buffers in *)
(* row t is computed from.  What a buffer held beyond row n is lost: the   *)
(* rows of some kernels are wider.                                         *)

Kernel(how, op, l, in, out, n) ==
    [how |-> how, op |-> op, l |-> l, in |-> in, out |-> out, n |-> n, order |-> <<>>]
Rows(op, l, in, out, n) == Kernel("row", op, l, in, out, n)
Quads(op, l, in, out, n) == Kernel("quad", op, l, <<in>>, out, n)
Copy(in, out, n) == Rows("copy", 0, <<in>>, out, n)
Move(in, out, order) == [Kernel("move", "copy", 0, <<in>>, out, Len(order)) EXCEPT !.order = order]
\* A table that does not depend on other buffers: pixels, position embeddings, angles.
Fill(op, out, places) == [Kernel("fill", op, 0, <<>>, out, Len(places)) EXCEPT !.order = places]
Pool(in, out, n) == Kernel("pool", "pool", 0, <<in>>, out, n)

Held(buffer, t) == IF t \in DOMAIN mem[buffer] THEN mem[buffer][t] ELSE Bad
KeysAndValues(c, rows) == {<<Held(c.in[2], j), Held(c.in[3], j)>> : j \in rows}
Arguments(c, t) ==
    CASE c.how = "row" -> [i \in DOMAIN c.in |-> Held(c.in[i], t)]
      [] c.how = "quad" -> [i \in 1..4 |-> Held(c.in[1], 4 * (t - 1) + i)]
      [] c.how = "move" -> <<Held(c.in[1], c.order[t])>>
      [] c.how = "full" -> <<Held(c.in[1], t), KeysAndValues(c, 1..c.n)>>
      [] c.how = "window" ->
            LET base == 4 * ((t - 1) \div 4)
            IN  <<Held(c.in[1], t), KeysAndValues(c, (base + 1)..(base + 4))>>
      [] c.how = "pool" ->
            LET m == vis.merge
                oy == (t - 1) \div (Gw \div m)
                ox == (t - 1) % (Gw \div m)
            IN  [i \in 1..(m * m) |->
                    Held(c.in[1], Row(Gw, oy * m + (i - 1) \div m, ox * m + ((i - 1) % m)))]

Result(c, t) ==
    IF c.how = "fill" THEN Term(c.op, 0, <<c.order[t]>>)
    ELSE LET args == Arguments(c, t)
             at == IF c.op \in DOMAIN Gathered(c.l)
                   THEN FlattenSeq([i \in DOMAIN args |-> args[i][3]])
                   ELSE args[1][3]
         IN  IF c.op = "copy" THEN args[1]
             ELSE IF at # <<>> /\ args = Operands(c.op, c.l, at) THEN Term(c.op, c.l, at)
             ELSE Bad

If(op, kernels) == IF On(op) THEN kernels ELSE <<>>
Unless(op, kernels) == IF On(op) THEN <<>> ELSE kernels
Layers(from, to, kernels) == FlattenSeq(SubSeq(kernels, from, to))

\* A normalisation of all rows that goes through tmp.
NormAll(op, n) == If(op, <<Rows(op, 0, <<"x">>, "tmp", n), Copy("tmp", "x", n)>>)

-----------------------------------------------------------------------------
(* qwen3vl.c.  Rows change into the order of Squares right after the patch *)
(* embedding; a token is then made of four neighbouring rows.              *)

QwenNorm(op, l, in, out, n) == Rows(op, l, <<in>>, out, n)
QwenLin(op, l, in, out, n) == Rows(op, l, <<in>>, out, n)
QwenAct(op, l, in, n) == Rows(op, l, <<in>>, in, n)
QwenAttn(l, q, k, v) == Kernel("full", "attn", l, <<q, k, v>>, "attn", N)
SplitQkv(l) == <<Rows("q", l, <<"qkv">>, "q", N), Rows("k", l, <<"qkv">>, "k", N), Rows("v", l, <<"qkv">>, "v", N)>>
RopeApply(op, l, buffer) == Rows(op, l, <<buffer, "table">>, buffer, N)
RopeFill(positions) == Fill("at", "table", positions)
PackHeads(in, out) == Copy(in, out, N)
InterpPos(out) == Fill("pos", out, Raster(Gh, Gw))
QwenPatchEmbed == <<Fill("pix", "ff", Raster(Gh, Gw)), Rows("emb", 0, <<"ff">>, "x", N)>>

QwenStart ==
    QwenPatchEmbed
    \o <<Move("x", "res", SpatialMerge(Gh, Gw)), Copy("res", "x", N), Rows("bias", 0, <<"x">>, "x", N),
         InterpPos("tmp"), Move("tmp", "res", SpatialMerge(Gh, Gw)), Rows("sum", 0, <<"x", "res">>, "x", N)>>
    \o NormAll("pre", N) \o <<RopeFill(RopePositions(Gh, Gw))>>

QwenAttention(l) ==
    <<QwenNorm("norm1", l, "x", "tmp", N), QwenLin("qkv", l, "tmp", "qkv", N)>> \o SplitQkv(l)
    \o <<RopeApply("ropeq", l, "q"), RopeApply("ropek", l, "k"), PackHeads("k", "ff"),
         PackHeads("v", "qkv"), QwenAttn(l, "q", "ff", "qkv"), QwenLin("o", l, "attn", "tmp", N),
         Rows("mid", l, <<"x", "tmp">>, "x", N)>>

QwenFfn(l) ==
    <<QwenLin("up", l, "tmp", "ff", N)>>
    \o If("gate", <<QwenLin("gate", l, "tmp", "qkv", N), Rows("act", l, <<"qkv", "ff">>, "ff", N)>>)
    \o Unless("gate", <<QwenAct("act", l, "ff", N)>>)
    \o <<QwenLin("down", l, "ff", "tmp", N)>>

\* The head of a deepstack layer, kept in the next slot of ds.
Deepstack(l) ==
    LET slot == Cardinality({d \in vis.deep : d <= l})
    IN  <<Quads("dsnorm", l, "x", "tmp", N \div 4), QwenLin("dsup", l, "tmp", "ff", N \div 4),
          QwenAct("dsact", l, "ff", N \div 4), QwenLin("dsdown", l, "ff", "tmp", N \div 4)>>
        \o (IF slot <= Len(DsSlot) THEN <<Copy("tmp", DsSlot[slot], N \div 4)>> ELSE <<>>)

QwenLayer(l) ==
    QwenAttention(l) \o <<QwenNorm("norm2", l, "x", "tmp", N)>> \o QwenFfn(l)
    \o <<Rows("x", l, <<"x", "tmp">>, "x", N)>> \o (IF l \in vis.deep THEN Deepstack(l) ELSE <<>>)

QwenRun ==
    QwenStart \o Layers(1, vis.nl, [l \in 1..vis.nl |-> QwenLayer(l)]) \o NormAll("post", N)
    \o <<Quads("mmup", 0, "x", "ff", N \div 4), QwenAct("mmact", 0, "ff", N \div 4),
         QwenLin("mmdown", 0, "ff", "out", N \div 4)>>

-----------------------------------------------------------------------------
(* minicpmv.c.  Rows stay in raster order, except around the attention in  *)
(* windows; every merge gathers one corner of the squares into each of q,  *)
(* k, v and attn.                                                          *)

MiniNorm(op, l, in, n) == Rows(op, l, <<in>>, "tmp", n)
MiniLin(op, l, in, out, n) == Rows(op, l, <<in>>, out, n)
AttnFull(l, n) == Kernel("full", "attn", l, <<"q", "k", "v">>, "attn", n)
AttnWin4(l, n) == Kernel("window", "wattn", l, <<"q", "k", "v">>, "attn", n)
MiniPatchEmbed == <<Fill("pix", "ff", Raster(Gh, Gw)), MiniLin("emb", 0, "ff", "x", N)>>
AddPos == <<Fill("pos", "table", Raster(Gh, Gw)), Rows("sum", 0, <<"x", "table">>, "x", N)>>

VitAttn(l, attn, names, n) ==
    <<MiniLin(names[1], l, "tmp", "q", n), MiniLin(names[2], l, "tmp", "k", n),
      MiniLin(names[3], l, "tmp", "v", n), attn, MiniLin(names[4], l, "attn", "tmp", n)>>
VitFfn(l, n) == <<MiniLin("up", l, "tmp", "ff", n), Rows("act", l, <<"ff">>, "ff", n),
                  MiniLin("down", l, "ff", "tmp", n)>>

VitBlock(l, n) ==
    <<Copy("x", "res", n), MiniNorm("norm1", l, "x", n)>>
    \o VitAttn(l, AttnFull(l, n), <<"q", "k", "v", "o">>, n)
    \o <<Copy("res", "x", n), Rows("mid", l, <<"x", "tmp">>, "x", n), Copy("x", "res", n),
         MiniNorm("norm2", l, "x", n)>>
    \o VitFfn(l, n) \o <<Copy("res", "x", n), Rows("x", l, <<"x", "tmp">>, "x", n)>>

WindowAttention ==
    LET widx == WindowOrder(Gh, Gw)
    IN  <<Copy("x", "res", N), MiniNorm("wnorm", 0, "x", N), Move("tmp", "q", widx), Copy("q", "tmp", N)>>
        \o VitAttn(0, AttnWin4(0, N), <<"wq", "wk", "wv", "wo">>, N)
        \o <<Move("tmp", "q", Backwards(widx)), Rows("wsum", 0, <<"res", "q">>, "x", N)>>

Corners(gh, gw) == <<Move("x", "q", Gather2x2(gh, gw, 0, 0)), Move("x", "k", Gather2x2(gh, gw, 0, 1)),
                     Move("x", "v", Gather2x2(gh, gw, 1, 0)), Move("x", "attn", Gather2x2(gh, gw, 1, 1))>>
InCorners == <<"q", "k", "v", "attn">>

Downsample ==
    LET ds == N \div 4
    IN  Corners(Gh, Gw)
        \o <<Rows("mean", 0, InCorners, "res", ds), Rows("cat", 0, InCorners, "ff", ds),
             MiniNorm("mnorm", 0, "ff", ds), MiniLin("mup", 0, "tmp", "ff", ds),
             Rows("mact", 0, <<"ff">>, "ff", ds), MiniLin("mdown", 0, "ff", "tmp", ds),
             Rows("merged", 0, <<"tmp", "res">>, "x", ds)>>

FinalMerger(gh, gw) ==
    LET ds == (gh \div 2) * (gw \div 2)
    IN  Corners(gh, gw)
        \o <<Rows("mmcat", 0, InCorners, "ff", ds), MiniNorm("mmnorm", 0, "ff", ds),
             MiniLin("mmup", 0, "tmp", "ff", ds), Rows("mmact", 0, <<"ff">>, "ff", ds),
             MiniLin("mmdown", 0, "ff", "out", ds)>>

MiniCpmRun ==
    LET side == IF Merger THEN Gh \div 2 ELSE Gh
        All == [l \in 1..vis.nl |-> VitBlock(l, N)]
        Late == [l \in 1..vis.nl |-> VitBlock(l, side * side)]
    IN  MiniPatchEmbed \o AddPos
        \o (IF Merger
            THEN Layers(1, vis.insert, All) \o WindowAttention \o Downsample
                 \o Layers(vis.insert + 1, vis.nl, Late)
            ELSE Layers(1, vis.nl, All))
        \o NormAll("post", side * side) \o FinalMerger(side, side)

-----------------------------------------------------------------------------
(* gemma4v.c.  Rows stay in raster order; the squares are averaged at the  *)
(* end.  Some normalisations go through ff.                                *)

RmsW(op, l, in, out) == Rows(op, l, <<in>>, out, N)
GemmaLin(op, l, in, out, n) == Rows(op, l, <<in>>, out, n)
GemmaAttn(l) == Kernel("full", "attn", l, <<"q", "k", "v">>, "attn", N)
ActGate(l, gate, up) == Rows("act", l, <<gate, up>>, "ff", N)
ScaleVec(op, l, buffer) == If(op, <<Rows(op, l, <<buffer>>, buffer, N)>>)
RopeNeox(op, l, buffer) == Rows(op, l, <<buffer, "table">>, buffer, N)
Through(op, l, buffer) == If(op, <<RmsW(op, l, buffer, "ff"), Copy("ff", buffer, N)>>)
HeadNorm(op, l, buffer) ==
    IF vis.perhead THEN If(op, <<RmsW(op, l, buffer, buffer)>>) ELSE Through(op, l, buffer)

GemmaAttention(l) ==
    <<Copy("x", "res", N), RmsW("norm1", l, "x", "tmp"), GemmaLin("q", l, "tmp", "q", N),
      GemmaLin("k", l, "tmp", "k", N), GemmaLin("v", l, "tmp", "v", N)>>
    \o HeadNorm("qnorm", l, "q") \o HeadNorm("knorm", l, "k")
    \o <<RopeNeox("ropeq", l, "q"), RopeNeox("ropek", l, "k"), Rows("vnorm", l, <<"v">>, "v", N),
         GemmaAttn(l), GemmaLin("o", l, "attn", "tmp", N)>>
    \o ScaleVec("ls1", l, "tmp") \o Through("post1", l, "tmp")
    \o <<Rows("mid", l, <<"res", "tmp">>, "x", N)>>

GemmaFfn(l) ==
    <<Copy("x", "res", N), RmsW("norm2", l, "x", "tmp"), GemmaLin("up", l, "tmp", "ff", N)>>
    \o If("gate", <<GemmaLin("gate", l, "tmp", "qkv", N), ActGate(l, "qkv", "ff")>>)
    \o Unless("gate", <<Rows("act", l, <<"ff">>, "ff", N)>>)
    \o <<GemmaLin("down", l, "ff", "tmp", N)>> \o Through("post2", l, "tmp") \o ScaleVec("ls2", l, "tmp")
    \o <<Rows("x", l, <<"res", "tmp">>, "x", N)>> \o ScaleVec("xscale", l, "x")

GemmaLayer(l) == GemmaAttention(l) \o GemmaFfn(l)

GemmaStart == <<Fill("pix", "ff", Raster(Gh, Gw)), GemmaLin("emb", 0, "ff", "x", N),
                Fill("pos", "table", Raster(Gh, Gw)), Rows("sum", 0, <<"x", "table">>, "x", N)>>
GemmaRun ==
    LET nout == N \div (vis.merge * vis.merge)
    IN  GemmaStart \o NormAll("pre", N) \o <<Fill("at", "table", Raster(Gh, Gw))>>
        \o Layers(1, vis.nl, [l \in 1..vis.nl |-> GemmaLayer(l)])
        \o <<Pool("x", "tmp", nout)>> \o If("std", <<Rows("std", 0, <<"tmp">>, "tmp", nout)>>)
        \o <<Rows("unit", 0, <<"tmp">>, "x", nout), GemmaLin("proj", 0, "x", "out", nout)>>

-----------------------------------------------------------------------------
(* A call: vision_encode_image_ds on the next picture.                     *)

Kernels == CASE vis.kind = "qwen3vl" -> QwenRun
             [] vis.kind = "minicpmv" -> MiniCpmRun
             [] OTHER -> GemmaRun

Idle == [views |-> <<>>, done |-> <<>>, slices |-> <<0, 0>>]

Init == /\ vis \in {v \in {ApplyOpt(f, o) : f \in Files, o \in Options} : v.kind # "refused"}
        /\ queue \in Pictures
        /\ image = Idle
        /\ todo = <<>>
        /\ mem = [b \in Buffers |-> <<>>]
        /\ tokens = <<>>
        /\ grid = <<0, 0>>
        /\ answer = 0

Reject == /\ answer' = -1
          /\ image' = Idle
          /\ todo' = <<>>
          /\ UNCHANGED grid

\* Rows and columns of the slices.
SlicesOf(p) == LET g == GridOf(vis, p[1], p[2])
               IN  IF vis.kind = "minicpmv" THEN <<g[2], g[1]>> ELSE <<0, 0>>

\* Is there no room for the tokens of this view, or no room for its rows?
QwenRejects(v) == \/ (v.gh \div 2) * (v.gw \div 2) \notin 1..Room(vis)
                  \/ v.gh * v.gw > Capacity(vis) \/ (v.gh * v.gw) % 4 # 0
GemmaRejects(v) == \/ (v.gh \div vis.merge) * (v.gw \div vis.merge) \notin 1..Room(vis)
                   \/ v.gh * v.gw > Capacity(vis) \/ v.gh % vis.merge # 0 \/ v.gw % vis.merge # 0
MiniCpmRejects(done) == Room(vis) < TileTokens(vis) * (done + 1)

\* The next picture, up to its first view.
Encode ==
    /\ image.views = <<>> /\ queue # <<>>
    /\ UNCHANGED <<vis, mem>>
    /\ LET views == ViewsOf(vis, Len(queue), Head(queue)[1], Head(queue)[2])
           rejected == CASE vis.kind = "qwen3vl" -> QwenRejects(Head(views))
                         [] vis.kind = "gemma4v" -> GemmaRejects(Head(views))
                         [] OTHER -> MiniCpmRejects(0)
       IN  IF rejected THEN Reject
           ELSE /\ image' = [views |-> views, done |-> <<>>, slices |-> SlicesOf(Head(queue))]
                /\ todo' = Kernels'
                /\ grid' = <<0, 0>>
                /\ UNCHANGED answer
    /\ queue' = Tail(queue)
    /\ tokens' = <<>>

\* The file of the next picture cannot be read.
Unreadable ==
    /\ image.views = <<>> /\ queue # <<>>
    /\ queue' = Tail(queue)
    /\ Reject
    /\ UNCHANGED <<vis, mem, tokens>>

\* The next kernel, on all its rows.
RunKernel ==
    /\ todo # <<>>
    /\ LET c == Head(todo)
       IN  mem' = [mem EXCEPT ![c.out] = [t \in 1..c.n |-> Result(c, t)]]
    /\ todo' = Tail(todo)
    /\ UNCHANGED <<vis, queue, image, tokens, grid, answer>>

\* The rows of a view that is done, with those of the deepstack slots.
Slots == Min({Cardinality(vis.deep), Len(DsSlot)})
Written == [j \in DOMAIN mem.out |->
              <<Held("out", j)>> \o [s \in 1..Slots |-> Held(DsSlot[s], j)]]

\* A view is done, and there is another one.
NextView ==
    /\ todo = <<>> /\ Len(image.views) > 1
    /\ UNCHANGED <<vis, queue, mem>>
    /\ tokens' = tokens \o Written
    /\ IF MiniCpmRejects(Len(image.done) + 1) THEN Reject
       ELSE /\ image' = [image EXCEPT !.views = Tail(@), !.done = Append(@, View)]
            /\ todo' = Kernels'
            /\ UNCHANGED <<grid, answer>>

Return ==
    /\ todo = <<>> /\ Len(image.views) = 1
    /\ tokens' = tokens \o Written
    /\ answer' = Len(tokens')
    /\ grid' = image.slices
    /\ image' = [image EXCEPT !.views = <<>>, !.done = Append(@, View)]
    /\ UNCHANGED <<vis, queue, todo, mem>>

Finished == image.views = <<>> /\ queue = <<>> /\ UNCHANGED vars

Next == Encode \/ Unreadable \/ RunKernel \/ NextView \/ Return \/ Finished

-----------------------------------------------------------------------------
(* What the encoders are for.                                              *)

\* A square of side 2s, corner by corner.
Nested(y, x) == Cell(2 * y, 2 * x, 2) \o Cell(2 * y, 2 * x + 1, 2)
                \o Cell(2 * y + 1, 2 * x, 2) \o Cell(2 * y + 1, 2 * x + 1, 2)
TokenSide == IF vis.kind = "minicpmv" /\ ~Merger THEN 2 ELSE vis.merge
TokenPatches(v, j) ==
    LET y == (j - 1) \div (v.gw \div TokenSide)
        x == (j - 1) % (v.gw \div TokenSide)
    IN  IF Merger THEN Nested(y, x) ELSE Cell(y, x, TokenSide)

DeepLayers == SubSeq(SetToSortSeq(vis.deep, <), 1, Slots)
TokenOf(v, j) ==
    LET Made(op, l) == <<op, l, TokenPatches(v, j), v.shows>>
    IN  <<Made(IF vis.kind = "gemma4v" THEN "proj" ELSE "mmdown", 0)>>
        \o [s \in 1..Slots |-> Made("dsdown", DeepLayers[s])]
TokensOfView(v) == [j \in 1..((v.gh \div TokenSide) * (v.gw \div TokenSide)) |-> TokenOf(v, j)]

\* The slices of a picture, all of one size, lie in n_row rows of n_col.
InGrid(slices) ==
    \A i \in DOMAIN slices :
        LET part == slices[i].shows[2]
        IN  part = <<((i - 1) % grid[2]) * part[3], ((i - 1) \div grid[2]) * part[4],
                     slices[1].shows[2][3], slices[1].shows[2][4]>>

\* vision_encode_image_ds: after a call that answers n >= 0 the caller's buffer, which
\* has room for vision_n_tokens, holds n tokens: those of the whole picture and then those
\* of its slices, row by row of the grid the caller is told.  Token j of a view, and row j
\* of every deepstack slot, is the reference network's output for the j-th square of
\* patches of this view, with every patch at its own position.
TokensRight ==
    image.views = <<>> /\ image.done # <<>> =>
        /\ answer = Len(tokens) /\ answer <= Room(vis)
        /\ tokens = FlattenSeq([i \in DOMAIN image.done |-> TokensOfView(image.done[i])])
        /\ Len(image.done) = 1 + grid[1] * grid[2]
        /\ InGrid(Tail(image.done))
=============================================================================
