------------------------------ MODULE W4Panels ------------------------------
(***************************************************************************)
(* The W4 weights of matvec.c: eight rows ("OC") by 64 inputs in a panel   *)
(* of 16 cells.  A word of a cell holds one row's weights for four inputs  *)
(* in its high nibbles and those of the row four below in its low ones.    *)
(* Models are converted to the layout Arm86, in which two cells are zipped *)
(* word by word, because one instruction set multiplies faster that way;   *)
(* the loops for the others undo it, or must not see it.                   *)
(*                                                                         *)
(* A panel is a function from the words of its cells to what the word      *)
(* holds: the row, 0..3, of its high nibbles, and the group of four inputs.*)
(***************************************************************************)
EXTENDS Integers, FiniteSets, Functions

Cells == 0..15
Words == 0..3
Places == Cells \X Words

\* pack_arm82_cell: cell j has the inputs j, its word w the rows w and w + 4.
Arm82 == [<<j, w>> \in Places |-> <<w, j>>]

\* Two cells a and b become a0 b0 a1 b1 | a2 b2 a3 b3, and back.
ZipFrom(c, w) == <<(c - (c % 2)) + (w % 2), 2 * (c % 2) + (w \div 2)>>
UzpFrom(c, w) == <<(c - (c % 2)) + (w \div 2), 2 * (w % 2) + (c % 2)>>

ZipPairs(panel) == [<<c, w>> \in Places |-> panel[ZipFrom(c, w)]]
UzpPairs(panel) == [<<c, w>> \in Places |-> panel[UzpFrom(c, w)]]

Panel(layout) == IF layout = "arm86" THEN ZipPairs(Arm82) ELSE Arm82

-----------------------------------------------------------------------------
(* What a loop over one panel adds to row oc, 0..7, of token t: a function *)
(* from its turns to <<row, inputs of the weight, token, inputs of x>>.    *)
(* The loops take the token of x from where they packed it: X(i, t) is the *)
(* t-th token of the i-th group the loop works on, or NoToken.             *)

NoToken == -1
Row(word, nibble) == word[1] + 4 * nibble
Term(word, nibble, token, x) == <<Row(word, nibble), word[2], token, x>>
Wanted(oc, t) == {<<oc, j, t, j>> : j \in Cells}
Nibble(oc) == oc \div 4
Adds(f, oc, t) == Range(f) = Wanted(oc, t) /\ Cardinality(DOMAIN f) = Cardinality(Cells)

\* Plain loops: word oc of each cell, high nibbles for the first four rows.
CellsInOrder(panel, oc, t) ==
    [j \in Cells |-> Term(panel[<<j, oc % 4>>], Nibble(oc), t, j)]

\* vdotq_laneq_s32: lane i of a vector of 16 inputs against the words of the i-th of
\* four cells.
SdotLane(panel, j, lane, oc, t) == Term(panel[<<j + lane, oc % 4>>], Nibble(oc), t, j + lane)
Sdot(panel, arm86, oc, t) ==
    LET read == IF arm86 THEN UzpPairs(panel) ELSE panel
    IN  [<<chain, lane>> \in (0..3) \X (0..3) |-> SdotLane(read, 4 * chain, lane, oc, t)]

\* Batches: x holds the same four inputs of four tokens, one in each lane.
SdotTokens(panel, oc, X, lane) ==
    [j \in Cells |-> Term(panel[<<j, oc % 4>>], Nibble(oc), X[lane], j)]

\* vmmlaq_s32: two rows of x (tokens) times two rows of words; row r of a pair of zipped
\* cells v0 and v1 are the words 2r and 2r + 1 of v(oc div 2 mod 2).
SmmlaLoadW(panel, arm86) == IF arm86 THEN panel ELSE ZipPairs(panel)
Smmla(panel, arm86, oc, X, row) ==
    LET read == SmmlaLoadW(panel, arm86)
    IN  [<<j, half>> \in (0..7) \X (0..1) |->
            Term(read[<<2 * j + ((oc % 4) \div 2), 2 * (oc % 2) + half>>], Nibble(oc),
                 X[row], 2 * j + half)]

-----------------------------------------------------------------------------
(* Which loop a build runs.  Builds: scalar and avx2 (no loops of their    *)
(* own), neon, dotprod, i8mm (built for it, and the processor has it).     *)

\* One token: with "prefer", both rows of x are that token.
OneToken(build, prefer, panel, arm86, oc, t) ==
    CASE build = "i8mm" /\ prefer -> Smmla(panel, arm86, oc, [i \in 0..1 |-> t], 0)
      [] build \in {"dotprod", "i8mm"} -> Sdot(panel, arm86, oc, t)
      [] OTHER -> CellsInOrder(panel, oc, t)

\* Tokens are packed in groups of n, the last one filled with zeros.
GroupSize(build) == CASE build = "i8mm" -> 2 [] build = "dotprod" -> 4 [] OTHER -> 1
PackedX(n, p, B) == [i \in 0..(n - 1) |-> IF n * p + i < B THEN n * p + i ELSE NoToken]
Batch(build, panel, arm86, oc, t, B) ==
    LET n == GroupSize(build)
        X == PackedX(n, t \div n, B)
    IN  CASE build = "i8mm" -> Smmla(panel, arm86, oc, X, t % n)
          [] build = "dotprod" -> SdotTokens(panel, oc, X, t % n)
          [] OTHER -> CellsInOrder(panel, oc, t)
=============================================================================
