---------------------------- MODULE VisionImage ----------------------------
(***************************************************************************)
(* What happens to a picture before the vision transformer: vision.c and   *)
(* the image parts of qwen3vl.c, minicpmv.c and gemma4v.c.  An encoder     *)
(* scales the picture to whole patches, within its limits on tokens;       *)
(* MiniCPM-V encodes a view of the whole and, of a large picture, a grid   *)
(* of slices as well.                                                      *)
(*                                                                         *)
(* An encoder v is a record: projector (the type named in its file),       *)
(* patch, merge and size (pixels of a patch, patches of a token, pixels of *)
(* the trained picture), and the options down, slices, tokmin and tokmax.  *)
(* VisionEncoder adds its layers and tensors.  Square roots are exact here *)
(* and floats in the code.                                                 *)
(***************************************************************************)
EXTENDS Integers, FiniteSetsExt, SequencesExt

CONSTANT PosFloor    \* rows gemma4v allocates at least (4096)

Refused == [kind |-> "refused"]

-----------------------------------------------------------------------------
(* Loading and options.                                                    *)

KindOf(projector) ==
    CASE projector = "gemma4uv" -> "refused"
      [] projector = "qwen3vl_merger" -> "qwen3vl"
      [] projector = "gemma4v" -> "gemma4v"
      [] OTHER -> "minicpmv"

\* An option of 0 is not given.
Given(new, old) == IF new > 0 THEN new ELSE old
SoftTokens(v, o) == [v EXCEPT !.tokmin = Given(o.tokmin, @), !.tokmax = Given(o.tokmax, @)]
MiniCpmOpt(v, o) ==
    IF o.down \notin {0, 4, 16} \/ o.slices > 36 THEN Refused
    ELSE [v EXCEPT !.down = Given(o.down, @), !.slices = Given(o.slices, @)]
QwenOpt(v, o) ==
    LET w == SoftTokens(v, o)
    IN  IF w.tokmin > 0 /\ w.tokmax > 0 /\ w.tokmax < w.tokmin THEN Refused ELSE w
GemmaOpt(v, o) ==
    LET w == [SoftTokens(v, o) EXCEPT !.tokmin = Max({1, @})]
    IN  IF w.tokmax < w.tokmin THEN Refused ELSE w
ApplyOpt(v, o) ==
    LET softTokens == o.tokmin > 0 \/ o.tokmax > 0
        slicing == o.down > 0 \/ o.slices > 0
    IN  CASE ~softTokens /\ ~slicing -> v
          [] v.kind = "minicpmv" /\ ~softTokens -> MiniCpmOpt(v, o)
          [] v.kind = "qwen3vl" /\ ~slicing -> QwenOpt(v, o)
          [] v.kind = "gemma4v" /\ ~slicing -> GemmaOpt(v, o)
          [] OTHER -> Refused

\* Patches on a side of the trained picture, and patches the buffers have room for.
Side(v) == v.size \div v.patch
GemmaCapacity(v) == Max({PosFloor, (v.tokmax + 8) * v.merge * v.merge})
Capacity(v) == IF v.kind = "gemma4v" THEN GemmaCapacity(v) ELSE Side(v) * Side(v)

\* Tokens of one view of minicpmv, and the tokens a caller makes room for.
TileTokens(v) == LET g == Side(v) \div (IF v.down = 4 THEN 2 ELSE 4) IN g * g
MiniCpmTokens(v) == IF v.slices > 1 THEN TileTokens(v) * (1 + v.slices) ELSE TileTokens(v)
QwenTokens(v) ==
    LET all == (Side(v) \div 2) * (Side(v) \div 2)
    IN  IF v.tokmax > 0 THEN Min({v.tokmax, all}) ELSE all
Room(v) == CASE v.kind = "qwen3vl" -> QwenTokens(v)
             [] v.kind = "gemma4v" -> v.tokmax
             [] OTHER -> MiniCpmTokens(v)

-----------------------------------------------------------------------------
(* The size a picture is scaled to.                                        *)

RoundTo(x, f) == ((x + f \div 2) \div f) * f
\* The largest multiple of f up to the root of a * m / b, the smallest from there on.
FloorRoot(a, b, m, f) == f * Max({k \in 0..(a * m) : (k * f) * (k * f) * b <= a * m})
CeilRoot(a, b, m, f) == f * Min({k \in 0..(a * m) : (k * f) * (k * f) * b >= a * m})

\* Width and height in multiples of f, in proportion, for at most maxpx and at least
\* minpx pixels.
FitTo(w, h, f, minpx, maxpx) ==
    LET wb == Max({f, RoundTo(w, f)})
        hb == Max({f, RoundTo(h, f)})
    IN  IF wb * hb > maxpx
        THEN <<Max({f, FloorRoot(w, h, maxpx, f)}), Max({f, FloorRoot(h, w, maxpx, f)})>>
        ELSE IF wb * hb < minpx
        THEN <<CeilRoot(w, h, minpx, f), CeilRoot(h, w, minpx, f)>>
        ELSE <<wb, hb>>
SmartHw(v, w, h, minpx, maxpx) == FitTo(w, h, v.patch * v.merge, minpx, maxpx)
ResizeHw(v, w, h) ==
    LET f == v.patch * v.merge
    IN  FitTo(w, h, f, v.tokmin * f * f, v.tokmax * f * f)
QwenHw(v, w, h) ==
    LET px == v.patch * v.merge * v.patch * v.merge
        all == v.size * v.size
    IN  SmartHw(v, w, h, Max({px, v.tokmin * px}),
                IF v.tokmax > 0 THEN Min({v.tokmax * px, all}) ELSE all)

-----------------------------------------------------------------------------
(* The slices of minicpmv.                                                 *)

\* A grid fits a picture the better the smaller the quotient of their proportions.
Quotient(w, h, g) == LET a == w * g[2]  b == h * g[1] IN <<Max({a, b}), Min({a, b})>>
Fits(w, h, g, g2) == LET p == Quotient(w, h, g)  q == Quotient(w, h, g2) IN p[1] * q[2] < q[1] * p[2]

\* The grids of n slices, narrow ones first, and the first best of all grids of about
\* the wanted number of slices.
Grids(n) == LET ms == SetToSortSeq({m \in 1..n : n % m = 0}, <)
            IN  [i \in DOMAIN ms |-> <<ms[i], n \div ms[i]>>]
BestGrid(v, wanted, w, h) ==
    LET counts == SelectSeq(<<wanted - 1, wanted, wanted + 1>>,
                            LAMBDA n : n # 1 /\ n <= v.slices)
        all == FlattenSeq([i \in DOMAIN counts |-> Grids(counts[i])])
        best == {i \in DOMAIN all : \A j \in DOMAIN all : ~Fits(w, h, all[j], all[i])}
    IN  all[Min(best)]

EnsureDiv(x, p) == Max({p, ((2 * x + p) \div (2 * p)) * p})
\* The size of a slice: about as many pixels as the trained picture, in proportion.
BestResize(v, w, h, p) ==
    LET dh == FloorRoot(v.size * v.size * h, w, 1, 1)
    IN  <<EnsureDiv((dh * w) \div h, p), EnsureDiv(dh, p)>>
RefineSize(v, w, h, g, p) ==
    LET slice == BestResize(v, EnsureDiv(w, g[1]) \div g[1], EnsureDiv(h, g[2]) \div g[2], p)
    IN  <<slice[1] * g[1], slice[2] * g[2]>>

\* Left and upper edge, width and height of the slice in row iy and column ix.
Crop(refined, g, iy, ix) ==
    LET cw == refined[1] \div g[1]
        ch == refined[2] \div g[2]
    IN  <<ix * cw, iy * ch, cw, ch>>

Sliced(v, w, h) == v.slices > 1 /\ (w > v.size \/ h > v.size)
Wanted(v, w, h) == LET s2 == v.size * v.size
                   IN  Max({1, Min({v.slices, (w * h + s2 - 1) \div s2})})
GridOf(v, w, h) == IF Sliced(v, w, h) THEN BestGrid(v, Wanted(v, w, h), w, h) ELSE <<0, 0>>
RefinedOf(v, w, h) == RefineSize(v, w, h, GridOf(v, w, h), v.patch * v.merge)

-----------------------------------------------------------------------------
(* A view: its grid of patches, and the picture and part it shows.         *)

ViewOf(v, wh, shows) == [gh |-> wh[2] \div v.patch, gw |-> wh[1] \div v.patch, shows |-> shows]

QwenViews(v, id, w, h) == <<ViewOf(v, QwenHw(v, w, h), <<id>>)>>
GemmaViews(v, id, w, h) == <<ViewOf(v, ResizeHw(v, w, h), <<id>>)>>
\* The whole, then the slices row by row, all scaled to the trained size.
MiniCpmViews(v, id, w, h) ==
    LET g == GridOf(v, w, h)
        refined == RefinedOf(v, w, h)
    IN  <<ViewOf(v, <<v.size, v.size>>, <<id>>)>>
        \o [i \in 1..(g[1] * g[2]) |->
              ViewOf(v, <<v.size, v.size>>,
                     <<id, Crop(refined, g, (i - 1) \div g[1], (i - 1) % g[1])>>)]

ViewsOf(v, id, w, h) ==
    CASE v.kind = "qwen3vl" -> QwenViews(v, id, w, h)
      [] v.kind = "gemma4v" -> GemmaViews(v, id, w, h)
      [] OTHER -> MiniCpmViews(v, id, w, h)
=============================================================================
