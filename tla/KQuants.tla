------------------------------ MODULE KQuants ------------------------------
(***************************************************************************)
(* The quantised blocks of matvec.c and the loops that multiply them with  *)
(* an activation.  A block holds 256 weights.  Each format scatters the    *)
(* bits of a weight and of its scale over the block, and each is read by   *)
(* several hand-written loops, one for every instruction set the program   *)
(* can be built for, of which a machine compiles one.                      *)
(*                                                                         *)
(* Eight neighbouring weights always stay together: a unit.  A place in a  *)
(* block is named by the unit of eight bytes it lies in.  A loop is a      *)
(* function from its indices to what it adds in that turn, so that leaving *)
(* something out shows as well as adding it twice.                         *)
(***************************************************************************)
EXTENDS Integers, FiniteSets, Functions

Units == 0..31
Nothing == <<>>

\* A weight: nibble n (0 low, 1 high) of byte unit qs, the bits "top" above it, what
\* multiplies it, and what is taken off.
Weight(qs, n, top, scale, off) == [quant |-> <<qs, n, top>>, scale |-> scale, off |-> off]

\* f yields every element of S once.
Exactly(f, S) == Range(f) = S /\ Cardinality(DOMAIN f) = Cardinality(S)

-----------------------------------------------------------------------------
(* The six-bit scales and minima of eight groups of 32, in twelve bytes.   *)

GsmK4(j) ==
    IF j < 4 THEN [d |-> {<<j, "low6">>}, m |-> {<<j + 4, "low6">>}]
    ELSE [d |-> {<<j + 4, "low4">>, <<j - 4, "top2">>}, m |-> {<<j + 4, "high4">>, <<j, "top2">>}]

UnpackHigh == <<<<8, 0, 4>>, <<9, 1, 5>>, <<10, 2, 6>>, <<11, 3, 7>>>>
UnpackSc(j) ==
    IF j < 4 THEN [d |-> {<<j, "low6">>}, m |-> {<<4 + j, "low6">>}]
    ELSE LET at == UnpackHigh[j - 3]
         IN  [d |-> {<<at[1], "low4">>, <<at[2], "top2">>},
              m |-> {<<at[1], "high4">>, <<at[3], "top2">>}]

-----------------------------------------------------------------------------
(* The formats, as functions from a unit of weights to its place: what the *)
(* plain loops of the block functions read.                                *)

Q4kFormat ==
    [u \in Units |->
        LET g == u \div 4
        IN  Weight(4 * (g \div 2) + (u % 4), g % 2, Nothing, UnpackSc(g).d, UnpackSc(g).m)]

Q6kFormat ==
    [e \in Units |->
        LET half == e \div 16
            quad == (e % 16) \div 4
            ll == e % 4
        IN  Weight(8 * half + 4 * (quad % 2) + ll, quad \div 2, <<4 * half + ll, 2 * quad>>,
                   8 * half + 2 * quad + (ll \div 2), 32)]

Q5kFormat ==
    [u \in Units |->
        LET is == u \div 4
            l == u % 4
        IN  Weight(4 * (is \div 2) + l, is % 2, <<l, is>>, GsmK4(is).d, GsmK4(is).m)]

Iq4xsFormat ==
    [u \in Units |->
        LET ib == u \div 4
        IN  Weight(2 * ib + (u % 2), (u % 4) \div 2, Nothing, ib, 32)]

Format == [q4k |-> Q4kFormat, q6k |-> Q6kFormat, q5k |-> Q5kFormat, iq4xs |-> Iq4xsFormat]

-----------------------------------------------------------------------------
(* Block functions: the units of a dequantised block, in the order they    *)
(* are stored.                                                             *)

Stored(at, weight) == <<at, weight>>

Q4kBlock ==
    [<<g, k>> \in (0..7) \X (0..3) |->
        Stored(4 * g + k, Weight(4 * (g \div 2) + k, g % 2, Nothing, UnpackSc(g).d, UnpackSc(g).m))]

Q6kBlock ==
    [<<half, quad, part, k>> \in (0..1) \X (0..3) \X (0..1) \X (0..1) |->
        Stored(16 * half + 4 * quad + 2 * part + k,
               Weight(8 * half + 4 * (quad % 2) + 2 * part + k, quad \div 2,
                      <<4 * half + 2 * part + k, 2 * quad>>, 8 * half + 2 * quad + part, 32))]

\* q5k_block and iq4xs_block have one loop each, which is the format.
Block == [q4k |-> Q4kBlock, q6k |-> Q6kBlock]
Dequantised(dtype) ==
    dtype \in DOMAIN Block => Exactly(Block[dtype], {Stored(u, Format[dtype][u]) : u \in Units})

-----------------------------------------------------------------------------
(* Loops that never build the block: they add up products, and take off    *)
(* what a minimum or the offset 32 stands for, from sums over the          *)
(* activation ("off": what, how often, and the unit of the activation).    *)

Product(qs, n, top, scale, x) == <<<<qs, n, top>>, scale, x>>
Off(what, scale, x) == <<what, scale, x>>
Fused(products, offs) == [products |-> products, offs |-> offs]

\* The scale that the offset of a weight is multiplied with.
OffScale(dtype, w) == IF dtype \in {"q4k", "q5k"} THEN Nothing ELSE w.scale
Sums(dtype, loop) ==
    /\ Exactly(loop.products, {<<Format[dtype][u].quant, Format[dtype][u].scale, u>> : u \in Units})
    /\ Exactly(loop.offs, {<<Format[dtype][u].off, OffScale(dtype, Format[dtype][u]), u>> : u \in Units})

\* Sums of the quantised activation over groups of n units, one after the other.
GroupSum(n, g) == [k \in 0..(n - 1) |-> n * g + k]
OverGroup(n, taken) ==
    [<<g, k>> \in (DOMAIN taken) \X (0..(n - 1)) |-> Off(taken[g][1], taken[g][2], GroupSum(n, g)[k])]

\* AVX2.  Low nibbles of 32 bytes against the first half of 64 activations, high nibbles
\* against the second.
Q4kAccBlock ==
    Fused([<<j, n, k>> \in (0..3) \X (0..1) \X (0..3) |->
              Product(4 * j + k, n, Nothing, UnpackSc(2 * j + n).d, 8 * j + 4 * n + k)],
          OverGroup(4, [is \in 0..7 |-> <<UnpackSc(is).m, Nothing>>]))

\* NEON, vectors of 16: x0 and x1 with the low nibbles, x2 and x3 with the high ones; for
\* two rows at once, and for the last row of an odd number.
Q4kNeon ==
    Fused([<<j, n, r, k>> \in (0..3) \X (0..1) \X (0..1) \X (0..1) |->
              Product(4 * j + 2 * r + k, n, Nothing, UnpackSc(2 * j + n).d,
                      8 * j + 2 * (2 * n + r) + k)],
          OverGroup(4, [is \in 0..7 |-> <<UnpackSc(is).m, Nothing>>]))
Q4kNeonLast ==
    Fused([<<j, r, n, k>> \in (0..3) \X (0..1) \X (0..1) \X (0..1) |->
              Product(4 * j + 2 * r + k, n, Nothing, UnpackSc(2 * j + n).d,
                      8 * j + 4 * n + 2 * r + k)],
          OverGroup(4, [is \in 0..7 |-> <<UnpackSc(is).m, Nothing>>]))

\* Plain C: four groups, from two runs of 32 bytes (qa and qb), per turn.
Q4kScalar ==
    LET turns == {0, 4} \X (0..3) \X (0..3)
    IN  Fused([<<g, gg, e>> \in turns |->
                  Product(4 * (g \div 2) + 4 * (gg \div 2) + e, gg % 2, Nothing,
                          GsmK4(g + gg).d, 4 * g + e + 4 * gg)],
              [<<g, gg, e>> \in turns |-> Off(GsmK4(g + gg).m, Nothing, 4 * g + e + 4 * gg)])

\* AVX2, on an activation of floats: q1..q4 of the even (e) and the odd (o) 16 bytes, two
\* units each.
Q6AccChunk ==
    LET turns == (0..1) \X (1..4) \X (0..1) \X (0..1)
        Sc(c, q, o) == 8 * c + 2 * (q - 1) + o
        X(c, q, o, k) == 16 * c + 4 * (q - 1) + 2 * o + k
    IN  Fused([<<c, q, o, k>> \in turns |->
                  Product(8 * c + (IF q \in {2, 4} THEN 4 ELSE 0) + 2 * o + k, IF q > 2 THEN 1 ELSE 0,
                          <<4 * c + 2 * o + k, 2 * (q - 1)>>, Sc(c, q, o), X(c, q, o, k))],
              [<<c, q, o, k>> \in turns |-> Off(32, Sc(c, q, o), X(c, q, o, k))])

\* Plain C: bytes l and l + 32 of a half, first for l < 16, then for l >= 16.
Q6kScalar ==
    LET turns == (0..1) \X (0..3) \X (1..4)
        Sc(c, l, q) == 8 * c + 2 * (q - 1) + (IF l < 2 THEN 0 ELSE 1)
        X(c, l, q) == 16 * c + l + 4 * (q - 1)
    IN  Fused([<<c, l, q>> \in turns |->
                  Product(8 * c + l + (IF q \in {2, 4} THEN 4 ELSE 0), IF q > 2 THEN 1 ELSE 0,
                          <<4 * c + l, 2 * (q - 1)>>, Sc(c, l, q), X(c, l, q))],
              [<<c, l, q>> \in turns |-> Off(32, Sc(c, l, q), X(c, l, q))])

\* AVX2 on integers: the offset comes from sums over 16 activations, eight times in each
\* of four lanes; for two rows at once, and for the last one.
Lanes == 4
Q6kGroup(h, q, p) == 8 * h + 2 * q + p
Q6kPart(h, q, p, k) ==
    Product(8 * h + 4 * (q % 2) + 2 * p + k, q \div 2, <<4 * h + 2 * p + k, 2 * q>>,
            Q6kGroup(h, q, p), 16 * h + 4 * q + 2 * p + k)
Q6kInt ==
    Fused([<<h, q, p, k>> \in (0..1) \X (0..3) \X (0..1) \X (0..1) |-> Q6kPart(h, q, p, k)],
          OverGroup(2, [g \in 0..15 |-> <<8 * Lanes, g>>]))
Q6kIntLast ==
    Fused([<<h, q, p, k>> \in (0..1) \X (0..3) \X (0..1) \X (0..1) |->
              Product(8 * h + (IF q % 2 = 1 THEN 4 ELSE 0) + 2 * p + k, IF q > 1 THEN 1 ELSE 0,
                      <<4 * h + 2 * p + k, 2 * q>>, Q6kGroup(h, q, p), 16 * h + 4 * q + 2 * p + k)],
          OverGroup(2, [g \in 0..15 |-> <<8 * Lanes, g>>]))

\* AVX2: bit1 and bit2 of the same eight bytes of qh in every round r.
Q5kAvx ==
    LET turns == (0..3) \X (0..3) \X (0..1)
    IN  Fused([<<r, l, n>> \in turns |->
                  Product(4 * r + l, n, <<l, n + 2 * r>>, GsmK4(2 * r + n).d, 8 * r + 4 * n + l)],
              [<<r, l, n>> \in turns |-> Off(GsmK4(2 * r + n).m, Nothing, 8 * r + 4 * n + l)])

-----------------------------------------------------------------------------
(* Which loop a build runs for a row ("last": the last of an odd number).  *)

FusedLoop(dtype, build, prequantised, last) ==
    CASE dtype = "q4k" /\ build = "avx2" -> Q4kAccBlock
      [] dtype = "q4k" /\ build \in {"neon", "dotprod", "i8mm"} -> IF last THEN Q4kNeonLast ELSE Q4kNeon
      [] dtype = "q4k" /\ build = "scalar" -> Q4kScalar
      [] dtype = "q6k" /\ build = "avx2" ->
            IF prequantised THEN Q6AccChunk ELSE IF last THEN Q6kIntLast ELSE Q6kInt
      [] dtype = "q6k" /\ build # "avx2" -> Q6kScalar
      [] dtype = "q5k" /\ build = "avx2" -> Q5kAvx
      [] OTHER -> Fused(<<>>, <<>>)

\* The others dequantise each block to a buffer and multiply that.
HasFused(dtype, build) == dtype \in {"q4k", "q6k"} \/ (dtype = "q5k" /\ build = "avx2")
\* Two rows at once.
InPairs(dtype, build) ==
    \/ dtype = "q4k" /\ build # "scalar"
    \/ dtype = "q6k" /\ build = "avx2"
=============================================================================
