------------------------------ MODULE ModelFile ------------------------------
(***************************************************************************)
(* Conversion into the model file (LLF) the engine maps: the plan made     *)
(* from a GGUF or safetensors file or from an older LLF (convert_gguf,     *)
(* convert_safetensors, convert_llf_repack), packing for "--dtype"         *)
(* (conv_items_apply_dtype), the file written (llf_emit) or permuted where *)
(* it is (convert_w4_arm86_inplace), and llf_read, which tells a finished  *)
(* file from another.  The process may be killed between any two steps,    *)
(* also where write_at gives up, and the conversion started again.         *)
(*                                                                         *)
(* The bytes of a tensor are a sequence of units, Width(form) for a row,   *)
(* or one for a panel of PanelRows rows.  A unit records the rows it       *)
(* holds, its form ("arm82" or "arm86" for a panel), and which part of the *)
(* row it is.  Header, directory and metas take one unit each.             *)
(***************************************************************************)
EXTENDS Integers, FiniteSets, SequencesExt, TLC

CONSTANTS Convs,    \* the conversions asked for, see MCStandalone
          Align,    \* LLF_ALIGN
          PanelRows

VARIABLES conv,   \* the conversion
          pc,     \* where it is
          items,  \* ConvItem[]
          head,   \* LlfHeader
          disk,   \* the files at the two paths
          done,   \* items written, panels permuted
          torn    \* a permutation of the input was interrupted

fileVars == <<conv, pc, items, head, disk, done, torn>>

AlignUp(v) == ((v + Align - 1) \div Align) * Align
DataStart == AlignUp(3)
NoHead == [size |-> -1, dtype |-> "f16", layout |-> "arm82", nb |-> 0]
NoFile == [len |-> 0, head |-> NoHead, dir |-> <<>>, metas |-> {}, data |-> <<>>]

\* Bytes of 256 weights, by which gg_probe_layout knows the formats of quantised tensors.
BlockBytes == [q6k |-> 210, q5k |-> 176, q4k |-> 144, iq4xs |-> 144, q8 |-> 272, iq2 |-> 82]
Width(form) == IF form = "f32" THEN 4 ELSE IF form \in {"f16", "bf16"} THEN 2 ELSE 1
Units(rows, form) ==
    FlattenSeq([r \in 1..Len(rows) |->
        [i \in 1..Width(form) |-> [rows |-> <<rows[r]>>, form |-> form, part |-> i]]])
Panels(rows, layout) ==
    [p \in 1..((Len(rows) + PanelRows - 1) \div PanelRows) |->
        [rows |-> SubSeq(rows, (p - 1) * PanelRows + 1, Min({p * PanelRows, Len(rows)})),
         form |-> layout, part |-> 1]]

RowsOf(t) == [r \in 1..t.rows |-> <<t.name, t.block, r>>]
Item(l, s, form, ndim, units) ==
    [layer |-> l, slot |-> s, dtype |-> form, ndim |-> ndim, own |-> TRUE, at |-> 0,
     n |-> Len(units), units |-> units]

-----------------------------------------------------------------------------
(* The plan from a GGUF file.                                              *)

\* gg_probe_layout: of the two formats of 144 bytes, a block of Q4_K has a small dmin
\* where one of IQ4_XS has weights.
Probe(form) ==
    IF form \in {"f32", "f16", "bf16"} THEN form
    ELSE IF BlockBytes[form] = 144 THEN IF form = "q4k" THEN "q4k" ELSE "iq4xs"
    ELSE IF BlockBytes[form] = 210 THEN "q6k"
    ELSE IF BlockBytes[form] = 176 THEN "q5k" ELSE "none"

MtpNames == {"nextn.eh_proj", "nextn.enorm", "nextn.hnorm", "nextn.shared_head_norm"}
Kept(t) == Probe(t.form) # "none" \/ t.name \in MtpNames

\* gg_slot_for, and where convert_gguf puts the special ones: the place in layer 0, in
\* the last layer but one, in the last, or the slot in the layer of the block.
FirstSlots == [token_embd |-> 0, per_layer_token_embd |-> 1, per_layer_model_proj |-> 2,
          per_layer_proj_norm |-> 3, rope_freqs |-> 4]
LastSlots == [output |-> 0] @@ ("nextn.eh_proj" :> 27) @@ ("nextn.enorm" :> 28)
        @@ ("nextn.hnorm" :> 29) @@ ("nextn.shared_head_norm" :> 30)
InBlock == [attn_norm |-> 0, attn_q |-> 1, attn_k |-> 2, attn_v |-> 3, attn_output |-> 4,
            ffn_norm |-> 5, post_attention_layernorm |-> 5, ffn_gate |-> 6, ffn_up |-> 7, ffn_down |-> 8,
            attn_q_bias |-> 9, attn_k_bias |-> 10, attn_v_bias |-> 11, attn_q_norm |-> 12,
            attn_k_norm |-> 13, attn_qkv |-> 14, attn_gate |-> 15, inp_gate |-> 14, proj |-> 15,
            post_norm |-> 16, ssm_conv1d |-> 17, ssm_a |-> 18, ssm_dt |-> 19, ssm_alpha |-> 20,
            ssm_beta |-> 21, ssm_norm |-> 22, ssm_out |-> 23, post_attention_norm |-> 24,
            post_ffw_norm |-> 25, layer_output_scale |-> 26]
SlotFor(c, t) ==
    CASE t.name \in DOMAIN FirstSlots -> <<0, FirstSlots[t.name]>>
      [] t.name = "output_norm" -> <<c.nb + 1, 0>>
      [] t.name \in DOMAIN LastSlots -> <<c.nb + 2, LastSlots[t.name]>>
      [] t.name = "post_attention_norm" /\ c.arch # "gemma4" -> <<t.block + 1, InBlock["ffn_norm"]>>
      [] t.name \in DOMAIN InBlock -> <<t.block + 1, InBlock[t.name]>>
      [] OTHER -> <<>>

\* attn_q of an attention layer of qwen35 holds, head by head, the rows of q and of its gate.
IsSplit(c, t) == c.arch = "qwen35" /\ t.name = "attn_q" /\ t.ndim = 2 /\ t.rows = 2 * c.heads
HalfOf(c, t, half) == [h \in 1..c.heads |-> RowsOf(t)[2 * h - 1 + half]]

\* The turn of the loop over the tensors for the i-th.
PlanTensor(c, i) ==
    LET t == c.source[i]
        at == SlotFor(c, t)
        form == IF Probe(t.form) = "bf16" \/ (t.name \in MtpNames /\ t.form = "q8") THEN "f16"
                ELSE Probe(t.form)
        again == t.name = "rope_freqs" /\ \E j \in 1..(i - 1) : c.source[j].name = t.name
    IN  IF ~Kept(t) \/ at = <<>> \/ again THEN <<>>
        ELSE IF IsSplit(c, t)
        THEN <<Item(at[1], at[2], form, 2, Units(HalfOf(c, t, 0), form)),
               Item(at[1], 16, form, 2, Units(HalfOf(c, t, 1), form))>>
        ELSE <<Item(at[1], at[2], form, t.ndim, Units(RowsOf(t), form))>>

Has(plan, l, s) == \E i \in 1..Len(plan) : plan[i].layer = l /\ plan[i].slot = s

\* A file without an output matrix uses the embedding.
Tied(c, plan) ==
    IF c.arch = "llama" \/ Has(plan, c.nb + 2, 0) \/ ~Has(plan, 0, 0) THEN plan
    ELSE LET i == CHOOSE i \in 1..Len(plan) : plan[i].layer = 0 /\ plan[i].slot = 0
         IN  Append(plan, [plan[i] EXCEPT !.layer = c.nb + 2])

PlanGguf(c) == Tied(c, FlattenSeq([i \in 1..Len(c.source) |-> PlanTensor(c, i)]))

\* What convert_gguf insists on.  The last c.shared layers of gemma4 have no K and V of
\* their own; the embeddings of each layer come together or not at all.
Complete(c, plan) ==
    /\ \A l \in 1..c.nb :
        IF c.arch = "gemma4"
        THEN /\ \A s \in {0, 5, 24, 25, 1, 4, 6, 7, 8} : Has(plan, l, s)
             /\ l <= c.nb - c.shared => Has(plan, l, 2) /\ Has(plan, l, 3)
             /\ Has(plan, 0, 1) => \A s \in 14..16 : Has(plan, l, s)
        ELSE /\ \A s \in {0, 5, 6, 7, 8} : Has(plan, l, s)
             /\ IF c.arch = "qwen35" THEN Has(plan, l, 14) \/ Has(plan, l, 1)
                ELSE \A s \in 1..4 : Has(plan, l, s)
    /\ c.arch = "gemma4" /\ Has(plan, 0, 1) => Has(plan, 0, 2) /\ Has(plan, 0, 3)

\* convert_safetensors: st_slot_for knows fewer names, everything becomes F16.
StNames == {"token_embd", "output_norm", "output", "attn_norm", "attn_q", "attn_k", "attn_v", "attn_output",
            "ffn_norm", "ffn_gate", "ffn_up", "ffn_down"}
PlanSafetensors(c) ==
    FlattenSeq([i \in 1..Len(c.source) |->
        LET t == c.source[i] IN
        IF t.name \notin StNames THEN <<>>
        ELSE <<Item(SlotFor(c, t)[1], SlotFor(c, t)[2], "f16", t.ndim, Units(RowsOf(t), "f16"))>>])

Begun(plan) == Has(plan, 0, 0) /\ Has(plan, 1, 1) /\ Has(plan, 1, 2)

-----------------------------------------------------------------------------
(* The target format.                                                      *)

\* llf_slot_linear_ok: Q, K, V, O, GATE, UP, DOWN, 14..16 and SSM_OUT; by the number of
\* the slot only, so in layer 0 also those of the embeddings of each layer.
LinearOk(c, l, s) ==
    IF <<l, s>> = <<0, 0>> \/ l = c.nb + 1 THEN FALSE
    ELSE <<l, s>> = <<c.nb + 2, 0>> \/ s \in {1, 2, 3, 4, 6, 7, 8, 14, 15, 16, 23}

Zipped(u) == [u EXCEPT !.form = IF @ = "arm82" THEN "arm86" ELSE "bad"]
RowsIn(units) == FlattenSeq([i \in 1..Len(units) |-> units[i].rows])
Owned(it, units) == [it EXCEPT !.dtype = "w4", !.own = TRUE, !.n = Len(units), !.units = units]
RemappedUnzipped(c, it, arm86) ==                                            \* mutant
    IF it.ndim = 2 /\ LinearOk(c, it.layer, it.slot) /\ it.dtype = "q4k"
    THEN Owned(it, Panels(RowsIn(it.units), "arm82")) ELSE it
Remapped(c, it, arm86) ==
    IF it.ndim # 2 \/ ~LinearOk(c, it.layer, it.slot) THEN it
    ELSE IF it.dtype = "w4" /\ ~arm86 THEN Owned(it, [i \in 1..it.n |-> Zipped(it.units[i])])
    ELSE IF it.dtype = "q4k" THEN Owned(it, Panels(RowsIn(it.units), "arm86"))
    ELSE it

\* conv_items_apply_dtype: the items and the header it leaves, or <<>> when it refuses.
ApplyDtype(c, its, hd) ==
    IF c.target = "keep" THEN <<its, hd>>
    ELSE IF c.target = "q4k"
    THEN IF \E it \in Range(its) : it.dtype = "w4" /\ it.ndim = 2 /\ LinearOk(c, it.layer, it.slot)
         THEN <<>> ELSE <<its, [hd EXCEPT !.dtype = "q4k"]>>
    ELSE LET new == [i \in 1..Len(its) |-> Remapped(c, its[i], hd.layout = "arm86")]
         IN  <<new, IF new # its \/ hd.layout = "arm86"
                    THEN [hd EXCEPT !.dtype = "w4", !.layout = "arm86"] ELSE hd>>

-----------------------------------------------------------------------------
(* The file.                                                               *)

\* conv_item_compare
Before(a, b) == a.layer < b.layer \/ (a.layer = b.layer /\ a.slot < b.slot)
Sorted(its) == SortSeq(its, Before)

\* llf_emit places the tensors in this order, each layer from a multiple of Align.
Opens(its, i) == i = 1 \/ its[i - 1].layer # its[i].layer
CursorAt(its, i, cursor) == IF Opens(its, i) THEN AlignUp(cursor) ELSE cursor
Ends(its) ==
    LET End[i \in 0..Len(its)] == IF i = 0 THEN DataStart ELSE CursorAt(its, i, End[i - 1]) + its[i].n
    IN  End
Start(its, i) == Ends(its)[i] - its[i].n
Of(its, l) == {i \in 1..Len(its) : its[i].layer = l}
LayerStart(its, l) == Start(its, Min(Of(its, l)))
LayerEnd(its, l) == Ends(its)[Max(Of(its, l))]
DirOf(its, nb) ==
    [l \in 0..nb + 2 |->
        LET from == AlignUp(LayerStart(its, l))
        IN  [offset |-> from, size |-> AlignUp(LayerEnd(its, l) + from - LayerStart(its, l)) - from]]
MetaOf(its, i) ==
    [layer |-> its[i].layer, slot |-> its[i].slot, dtype |-> its[i].dtype, ndim |-> its[i].ndim,
     offset |-> Start(its, i) - 2 * LayerStart(its, its[i].layer) + AlignUp(LayerStart(its, its[i].layer)),
     size |-> its[i].n]
MetasOf(its) == {MetaOf(its, i) : i \in 1..Len(its)}
FileSize(its) == AlignUp(Ends(its)[Len(its)])
MetaAt(metas, l, s) == CHOOSE m \in metas : m.layer = l /\ m.slot = s
AddressOf(f, m) == f.dir[m.layer].offset + m.offset
ItemsOk(its, nb) ==
    /\ its # <<>>
    /\ \A i \in 1..Len(its) : its[i].layer <= nb + 2 /\ its[i].slot < 31
    /\ \A l \in 0..nb + 2 : Of(its, l) # {}

\* llf_read
Accepted(f) ==
    /\ f.len >= 1 /\ f.head.size = f.len
    /\ f.head.nb + 2 \in DOMAIN f.dir
    /\ \A l \in 0..f.head.nb + 2 : f.dir[l].offset % Align = 0 /\ f.dir[l].offset + f.dir[l].size <= f.len

Stored(data, from, units) == data @@ [a \in from..(from + Len(units) - 1) |-> units[a - from + 1]]
WholeFile(c, its, hd) ==
    LET Data[i \in 0..Len(its)] == IF i = 0 THEN <<>> ELSE Stored(Data[i - 1], Start(its, i), its[i].units)
    IN  [len |-> FileSize(its), head |-> [hd EXCEPT !.size = FileSize(its)], dir |-> DirOf(its, c.nb),
         metas |-> MetasOf(its), data |-> Data[Len(its)]]

-----------------------------------------------------------------------------
OldLayout(c) == [NoHead EXCEPT !.nb = c.nb, !.layout = c.layout, !.dtype = IF c.w4 THEN "w4" ELSE "q4k"]
OldItem(c, t) ==
    Item(SlotFor(c, t)[1], SlotFor(c, t)[2], t.form, t.ndim,
         IF t.form = "w4" THEN Panels(RowsOf(t), c.layout) ELSE Units(RowsOf(t), t.form))
InputFile(c) ==
    IF c.fmt # "llf" THEN NoFile
    ELSE WholeFile(c, Sorted([i \in 1..Len(c.source) |-> OldItem(c, c.source[i])]), OldLayout(c))

Init ==
    /\ conv \in Convs
    /\ pc = "start" /\ items = <<>> /\ head = NoHead
    /\ disk = [in |-> InputFile(conv), out |-> NoFile]
    /\ done = 0 /\ torn = FALSE

Target == IF conv.same THEN "in" ELSE "out"
Goto(p) == pc' = p /\ UNCHANGED <<conv, items, head, disk, done, torn>>
Fail == Goto("failed")

\* convert_gguf up to the header, which calls every file Q4_K.
ConvertGguf ==
    /\ pc = "start" /\ conv.fmt = "gguf"
    /\ \/ (conv.cut \/ PlanGguf(conv) = <<>> \/ ~Complete(conv, PlanGguf(conv))) /\ Fail
       \/ /\ ~conv.cut /\ PlanGguf(conv) # <<>> /\ Complete(conv, PlanGguf(conv))
          /\ items' = PlanGguf(conv)
          /\ head' = [NoHead EXCEPT !.dtype = "q4k", !.nb = conv.nb]
          /\ pc' = "dtype" /\ UNCHANGED <<conv, disk, done, torn>>

ConvertSafetensors ==
    /\ pc = "start" /\ conv.fmt = "safetensors"
    /\ \/ (conv.cut \/ ~Begun(PlanSafetensors(conv))) /\ Fail
       \/ /\ ~conv.cut /\ Begun(PlanSafetensors(conv))
          /\ items' = PlanSafetensors(conv)
          /\ head' = [NoHead EXCEPT !.nb = conv.nb]
          /\ pc' = "emit" /\ UNCHANGED <<conv, disk, done, torn>>

\* convert_llf_repack: its items are the input file, still mapped while it writes.
MappedItem(f, m) ==
    [Item(m.layer, m.slot, m.dtype, m.ndim, [i \in 1..m.size |-> f.data[AddressOf(f, m) + i - 1]])
        EXCEPT !.own = FALSE, !.at = AddressOf(f, m)]
ConvertLlf ==
    LET f == disk["in"]
        Both == conv.target = "w4" /\ f.head.dtype = "w4"
    IN
    /\ pc = "start" /\ conv.fmt = "llf"
    /\ \/ (~Accepted(f) \/ conv.target = "keep") /\ Fail
       \/ Accepted(f) /\ Both /\ f.head.layout = "arm86" /\ Goto("as_it_was")
       \/ Accepted(f) /\ Both /\ f.head.layout # "arm86" /\ conv.same /\ Goto("permute")
       \/ /\ Accepted(f) /\ conv.target # "keep"
          /\ ~(Both /\ (f.head.layout = "arm86" \/ conv.same))
          /\ items' = FlattenSeq([k \in 1..(f.head.nb + 3) * 31 |->
                LET m == {m \in f.metas : m.layer = (k - 1) \div 31 /\ m.slot = (k - 1) % 31}
                IN  IF m = {} THEN <<>> ELSE <<MappedItem(f, CHOOSE x \in m : TRUE)>>])
          /\ head' = f.head
          /\ pc' = "dtype" /\ UNCHANGED <<conv, disk, done, torn>>

ChangeDtype ==
    LET new == ApplyDtype(conv, items, head) IN
    /\ pc = "dtype"
    /\ \/ new = <<>> /\ Fail
       \/ /\ new # <<>>
          /\ items' = new[1] /\ head' = new[2]
          /\ pc' = "emit" /\ UNCHANGED <<conv, disk, done, torn>>

\* llf_emit: opening the output empties it, even when it is the input.
Emit ==
    /\ pc = "emit"
    /\ \/ ~ItemsOk(items, head.nb) /\ Fail
       \/ /\ ItemsOk(items, head.nb)
          /\ items' = Sorted(items)
          /\ head' = [head EXCEPT !.size = FileSize(Sorted(items))]
          /\ disk' = [disk EXCEPT ![Target] = NoFile]
          /\ pc' = "head" /\ UNCHANGED <<conv, done, torn>>

WriteHead ==
    /\ pc = "head" /\ pc' = "dir"
    /\ disk' = [disk EXCEPT ![Target].head = head, ![Target].len = 1]
    /\ UNCHANGED <<conv, items, head, done, torn>>
WriteDir ==
    /\ pc = "dir" /\ pc' = "metas"
    /\ disk' = [disk EXCEPT ![Target].dir = DirOf(items, head.nb), ![Target].len = 2]
    /\ UNCHANGED <<conv, items, head, done, torn>>
WriteMetas ==
    /\ pc = "metas" /\ pc' = "data"
    /\ disk' = [disk EXCEPT ![Target].metas = MetasOf(items), ![Target].len = 3]
    /\ UNCHANGED <<conv, items, head, done, torn>>

\* The data of the next tensor.  Reading a mapped file past its new end kills the process.
Gone(it) == ~it.own /\ it.at + it.n > disk["in"].len
WriteItem ==
    LET it == items[done + 1]
        f == disk[Target]
        from == AddressOf(f, MetaAt(f.metas, it.layer, it.slot))
    IN
    /\ pc = "data" /\ done < Len(items) /\ ~Gone(it)
    /\ disk' = [disk EXCEPT ![Target].data = Stored(@, from, it.units), ![Target].len = from + it.n]
    /\ done' = done + 1
    /\ UNCHANGED <<conv, pc, items, head, torn>>
Pad ==
    /\ pc = "data" /\ done = Len(items) /\ pc' = "done"
    /\ disk' = [disk EXCEPT ![Target].len = FileSize(items)]
    /\ UNCHANGED <<conv, items, head, done, torn>>

\* convert_w4_arm86_inplace: panel by panel in the mapped file, the flag last.
InPanels(m) == m.dtype = "w4" /\ m.ndim = 2
PanelsOf(f) ==
    UNION {AddressOf(f, m)..(AddressOf(f, m) + m.size - 1) : m \in {m \in f.metas : InPanels(m)}}
Permute ==
    LET at == CHOOSE a \in PanelsOf(disk["in"]) : Cardinality({b \in PanelsOf(disk["in"]) : b < a}) = done IN
    /\ pc = "permute" /\ done < Cardinality(PanelsOf(disk["in"]))
    /\ disk' = [disk EXCEPT !["in"].data[at] = Zipped(@)]
    /\ done' = done + 1
    /\ UNCHANGED <<conv, pc, items, head, torn>>
Flag ==
    /\ pc = "permute" /\ done = Cardinality(PanelsOf(disk["in"])) /\ pc' = "done"
    /\ disk' = [disk EXCEPT !["in"].head.layout = "arm86"]
    /\ UNCHANGED <<conv, items, head, done, torn>>

\* The process ends here, killed or because a write fails or a mapped page is gone; the
\* conversion is asked for again.
Crash ==
    /\ pc \notin {"done", "failed", "as_it_was"}
    /\ torn' = (torn \/ (pc = "permute" /\ done > 0))
    /\ pc' = "start" /\ items' = <<>> /\ head' = NoHead /\ done' = 0
    /\ UNCHANGED <<conv, disk>>

Next ==
    \/ ConvertGguf \/ ConvertSafetensors \/ ConvertLlf \/ ChangeDtype
    \/ Emit \/ WriteHead \/ WriteDir \/ WriteMetas \/ WriteItem \/ Pad
    \/ Permute \/ Flag \/ Crash

-----------------------------------------------------------------------------
(* What the engine has at a slot of a layer of a file: rows in the form    *)
(* the meta and the flag of the header say, NoRows if they are not.        *)

NoRows == << <<"none", 0, 0>> >>
RowsAt(f, m) ==
    LET units == [i \in 1..m.size |-> f.data[AddressOf(f, m) + i - 1]]
        form == IF m.dtype = "w4" THEN f.head.layout ELSE m.dtype
        There == \A i \in 1..m.size : AddressOf(f, m) + i - 1 \in DOMAIN f.data
    IN  IF There /\ \A i \in 1..m.size :
                units[i].form = form /\ units[i].part = ((i - 1) % Width(m.dtype)) + 1
        THEN RowsIn(SelectSeq(units, LAMBDA u : u.part = 1)) ELSE NoRows

\* What each architecture reads there, by the names of the slots in llf.h.
ReadFirst == <<"token_embd", "per_layer_token_embd", "per_layer_model_proj", "per_layer_proj_norm", "rope_freqs">>
ReadLayer(arch) ==
    <<"attn_norm", "attn_q", "attn_k", "attn_v", "attn_output",
      IF arch = "qwen35" THEN "post_attention_norm" ELSE "ffn_norm", "ffn_gate", "ffn_up", "ffn_down",
      "attn_q_bias", "attn_k_bias", "attn_v_bias", "attn_q_norm", "attn_k_norm">>
    \o (IF arch = "gemma4" THEN <<"inp_gate", "proj", "post_norm">> ELSE <<"attn_qkv", "attn_gate", "q gate">>)
    \o <<"ssm_conv1d", "ssm_a", "ssm_dt", "ssm_alpha", "ssm_beta", "ssm_norm", "ssm_out",
         IF arch = "gemma4" THEN "post_attention_norm" ELSE "", "post_ffw_norm", "layer_output_scale">>
Read(c, l, s) ==
    IF l = 0 THEN IF s < 5 THEN ReadFirst[s + 1] ELSE ""
    ELSE IF l = c.nb + 1 THEN IF s = 0 THEN "output_norm" ELSE ""
    ELSE IF l = c.nb + 2 THEN
        IF s = 0 THEN "output" ELSE IF s < 27 THEN ""
        ELSE <<"nextn.eh_proj", "nextn.enorm", "nextn.hnorm", "nextn.shared_head_norm">>[s - 26]
    ELSE IF s < 27 THEN ReadLayer(c.arch)[s + 1] ELSE ""

Known(c, t) == CASE c.fmt = "gguf" -> Kept(t) [] c.fmt = "safetensors" -> t.name \in StNames [] OTHER -> TRUE
Named(c, name, l) ==
    {t \in Range(c.source) : t.name = name /\ Known(c, t) /\ (l \in 1..c.nb => t.block = l - 1)}
WantOf(c, ts, half) ==
    IF ts = {} THEN <<>>
    ELSE LET t == CHOOSE t \in ts : TRUE IN
         IF c.fmt = "gguf" /\ IsSplit(c, t) THEN HalfOf(c, t, half) ELSE IF half = 1 THEN <<>> ELSE RowsOf(t)
Wanted(c, l, s) ==
    LET name == Read(c, l, s) IN
    CASE name = "q gate" -> WantOf(c, Named(c, "attn_q", l), 1)
      [] name = "output" /\ Named(c, name, l) = {} /\ c.fmt = "gguf" /\ c.arch # "llama" ->
            WantOf(c, Named(c, "token_embd", 0), 0)
      [] OTHER -> WantOf(c, Named(c, name, l), 0)

\* The embeddings are read row by row, by loops that know no panels.
Looked(m) == <<m.layer, m.slot>> \in {<<0, 0>>, <<0, 1>>}

Holds(c, f) ==
    /\ \A m \in f.metas : RowsAt(f, m) = Wanted(c, m.layer, m.slot) /\ (Looked(m) => m.dtype # "w4")
    /\ \A l \in 0..c.nb + 2, s \in 0..30 :
        Wanted(c, l, s) # <<>> => \E m \in f.metas : m.layer = l /\ m.slot = s

\* Any file llf_read accepts, at any time and after any crash, has at every slot the
\* rows the engine takes from there, each once and in order, in the form the meta and the
\* header say, and lacks none the source has; and a reported success left such a file.
\* The one exception is a permutation in place, while it runs or once interrupted.
FileHolds ==
    /\ ~torn /\ pc # "permute" => \A p \in {"in", "out"} : Accepted(disk[p]) => Holds(conv, disk[p])
    /\ pc = "done" => Accepted(disk[Target])
=============================================================================
