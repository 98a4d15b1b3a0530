-------------------------- MODULE LayerSplitProofs --------------------------
(* Proofs about LayerSplit: whatever the model, the number of ranks and the    *)
(* weights, the segments cover the layers once and keep shared KV rows local.  *)
EXTENDS LayerSplit, TLAPS

LEMMA Sizes == NB \in Nat /\ NB > 0 /\ MaxRanks \in Nat /\ MaxRanks > 0
  BY SplitAssumption

USE Sizes DEF NLayers

\* The start of the last rank, and the bounds of the pass, for one plan.
LEMMA PlanTypes ==
    ASSUME plan \in Plans
    PROVE  /\ plan.ranks \in 1..MaxRanks /\ plan.shared \in Nat
           /\ plan.size \in [1..NB -> Nat] /\ plan.part \in [1..MaxRanks -> Nat]
  BY SplitAssumption

LEMMA PinRange ==
    ASSUME NEW shared \in Nat, NEW pin,
           pin = IF shared \in 1..(NB - 1)
                 THEN IF NB - shared > 1 THEN NB - shared - 1 ELSE 1
                 ELSE 0
    PROVE  /\ pin \in 0..(NB - 1)
           /\ pin > 0 => /\ shared \in 1..(NB - 1) /\ pin <= NB - shared
                         /\ (NB - shared > 1 => pin = NB - shared - 1)
<1>1. CASE shared \in 1..(NB - 1) /\ NB - shared > 1
  <2>1. pin = NB - shared - 1
    BY <1>1
  <2>2. QED
    BY <1>1, <2>1
<1>2. CASE shared \in 1..(NB - 1) /\ ~(NB - shared > 1)
  <2>1. pin = 1
    BY <1>2
  <2>2. QED
    BY <1>2, <2>1
<1>3. CASE shared \notin 1..(NB - 1)
  <2>1. pin = 0
    BY <1>3
  <2>2. QED
    BY <2>1
<1>4. QED
  BY <1>1, <1>2, <1>3

\* The start of the last rank, and the bounds of the pass, for one plan.
LEMMA PinFacts ==
    ASSUME plan \in Plans
    PROVE  /\ Pin \in 0..(NB - 1) /\ SplitHi \in 0..NB /\ Early \in 1..plan.ranks
           /\ Pin = 0 => SplitHi = NB /\ Early = plan.ranks
           /\ Pin > 0 => /\ SplitHi = Pin - 1
                         /\ (plan.ranks > 1 => Early = plan.ranks - 1)
                         /\ (plan.ranks = 1 => Early = 1)
                         /\ plan.shared \in 1..(NB - 1) /\ Pin <= NB - plan.shared
                         /\ (NB - plan.shared > 1 => Pin = NB - plan.shared - 1)
<1>1. plan.ranks \in 1..MaxRanks /\ plan.shared \in Nat
  BY PlanTypes
<1>2. /\ Pin \in 0..(NB - 1)
      /\ Pin > 0 => /\ plan.shared \in 1..(NB - 1) /\ Pin <= NB - plan.shared
                    /\ (NB - plan.shared > 1 => Pin = NB - plan.shared - 1)
  <2>1. Pin = IF plan.shared \in 1..(NB - 1)
              THEN IF NB - plan.shared > 1 THEN NB - plan.shared - 1 ELSE 1
              ELSE 0
    BY DEF Pin
  <2>2. QED
    BY <1>1, <2>1, PinRange
<1>3. CASE Pin = 0
  <2>1. SplitHi = NB /\ Early = plan.ranks
    BY <1>3 DEF SplitHi, Early
  <2>2. QED
    BY <1>1, <1>2, <1>3, <2>1
<1>4. CASE Pin > 0
  <2>1. SplitHi = Pin - 1 /\ Early = (IF plan.ranks > 1 THEN plan.ranks - 1 ELSE 1)
    BY <1>2, <1>4 DEF SplitHi, Early
  <2>2. SplitHi \in 0..NB
    BY <1>2, <1>4, <2>1
  <2>3. /\ Early \in 1..plan.ranks
        /\ (plan.ranks > 1 => Early = plan.ranks - 1)
        /\ (plan.ranks = 1 => Early = 1)
    BY <1>1, <2>1
  <2>4. QED
    BY <1>2, <1>4, <2>1, <2>2, <2>3
<1>5. QED
  BY <1>2, <1>3, <1>4

-----------------------------------------------------------------------------
(* The inductive invariant. While the pass runs, the ranks placed so far start *)
(* in ascending order behind blocks it has seen, and each layer has a rank that *)
(* starts before it and ends after it; in the end so it is for all ranks, and   *)
(* nobody starts behind the pinned layer. The witness of coverage is part of    *)
(* the invariant because it cannot be found from the order of the starts alone  *)
(* without counting ranks.                                                      *)

Placed(n) ==
    /\ \A i \in 0..(n - 1) : bs[i] \in 1..(NB + 1)
    /\ \A i, j \in 0..(n - 1) : i < j => bs[i] <= bs[j]

Held(n) == \A l \in 1..(NB + 2) : \E i \in 0..(n - 1) :
              (i > 0 => bs[i] <= l) /\ (i + 1 < n => l < bs[i + 1])

Cutting == split = "cutting" =>
    /\ rank \in 1..Early /\ block \in 1..(SplitHi + 1)
    /\ bs[0] = 1 /\ Placed(rank) /\ Held(rank)
    /\ \A i \in 0..(rank - 1) : bs[i] <= block

Done == split = "done" =>
    /\ Placed(plan.ranks) /\ Held(plan.ranks)
    /\ Pin > 0 => bs[plan.ranks - 1] = Pin

IInv == SplitTypeOK /\ Cutting /\ Done

-----------------------------------------------------------------------------
LEMMA InitInv == SplitInit => IInv
<1> SUFFICES ASSUME SplitInit PROVE IInv
  OBVIOUS
<1> USE DEF SplitInit
<1>0. plan \in Plans
  OBVIOUS
<1>1. SplitTypeOK
  BY DEF SplitTypeOK
<1>2. Cutting
  <2> SUFFICES ASSUME split = "cutting"
               PROVE  /\ rank \in 1..Early /\ block \in 1..(SplitHi + 1)
                      /\ bs[0] = 1 /\ Placed(rank) /\ Held(rank)
                      /\ \A i \in 0..(rank - 1) : bs[i] <= block
    BY DEF Cutting
  <2>1. rank = 1 /\ block = 1 /\ bs[0] = 1
    OBVIOUS
  <2>2. rank \in 1..Early /\ block \in 1..(SplitHi + 1)
    BY <1>0, <2>1, PinFacts, PlanTypes
  <2>3. Placed(rank) /\ Held(rank)
    BY <2>1 DEF Placed, Held
  <2>4. QED
    BY <2>1, <2>2, <2>3
<1>3. Done
  BY DEF Done
<1>4. QED
  BY <1>1, <1>2, <1>3 DEF IInv

\* The next rank starts behind the block just counted, or not yet.
LEMMA CutKeeps == ASSUME IInv, Cut PROVE IInv'
<1>0. SplitTypeOK /\ plan \in Plans /\ plan' = plan /\ split = "cutting" /\ split' = "cutting"
  BY DEF IInv, SplitTypeOK, Cut
<1>1. /\ rank \in 1..Early /\ block \in 1..(SplitHi + 1) /\ block <= SplitHi /\ rank < Early
      /\ bs[0] = 1 /\ Placed(rank) /\ Held(rank)
      /\ \A i \in 0..(rank - 1) : bs[i] <= block
  BY <1>0 DEF IInv, Cutting, Cut
<1>2. /\ Pin' = Pin /\ SplitHi' = SplitHi /\ Early' = Early
  BY <1>0 DEF Pin, SplitHi, Early
<1>3. /\ plan.ranks \in 1..MaxRanks /\ SplitHi \in 0..NB /\ Early \in 1..plan.ranks
  BY <1>0, PinFacts, PlanTypes
<1>4. /\ block' = block + 1 /\ bytes' \in Nat
      /\ \/ bs' = [bs EXCEPT ![rank] = block + 1] /\ rank' = rank + 1
         \/ bs' = bs /\ rank' = rank
  <2>1. block \in 1..NB
    BY <1>1, <1>3
  <2>2. plan.size[block] \in Nat
    BY <1>0, <2>1, PlanTypes
  <2>3. bytes' = bytes + plan.size[block] /\ bytes \in Nat
    BY <1>0 DEF SplitTypeOK, Cut
  <2>4. bytes' \in Nat
    BY <2>2, <2>3
  <2>5. QED
    BY <2>4 DEF Cut
<1>5. bs \in [0..(MaxRanks - 1) -> Nat] /\ rank \in 1..(MaxRanks - 1) /\ block \in Nat
  <2>1. rank \in 1..(MaxRanks - 1)
    <3>1. rank \in Int /\ rank >= 1 /\ rank < Early
      BY <1>1, <1>3
    <3>2. Early <= MaxRanks /\ Early \in Int
      BY <1>3
    <3>3. QED
      BY <3>1, <3>2
  <2>2. QED
    BY <1>0, <2>1 DEF SplitTypeOK
<1>6. SplitTypeOK'
  BY <1>0, <1>4, <1>5 DEF SplitTypeOK
<1>7. /\ rank' \in 1..Early /\ block' \in 1..(SplitHi + 1)
  BY <1>1, <1>3, <1>4
<1>8. CASE bs' = bs /\ rank' = rank
  <2>1. Placed(rank)' /\ Held(rank)'
    BY <1>1, <1>8 DEF Placed, Held
  <2>2. \A i \in 0..(rank - 1) : bs[i] <= block + 1
    <3> SUFFICES ASSUME NEW i \in 0..(rank - 1) PROVE bs[i] <= block + 1
      OBVIOUS
    <3>1. bs[i] \in Nat /\ bs[i] <= block
      BY <1>1, <1>5
    <3>2. QED
      BY <1>5, <3>1
  <2>3. Cutting'
    BY <1>0, <1>1, <1>2, <1>4, <1>7, <1>8, <2>1, <2>2 DEF Cutting
  <2>4. QED
    BY <1>0, <1>6, <2>3 DEF IInv, Done
<1>9. CASE bs' = [bs EXCEPT ![rank] = block + 1] /\ rank' = rank + 1
  <2>1. /\ bs'[rank] = block + 1
        /\ \A i \in 0..(rank - 1) : bs'[i] = bs[i] /\ bs[i] \in Nat
    BY <1>5, <1>9
  <2>2. Placed(rank)'
    <3>1. \A i \in 0..rank : bs'[i] \in 1..(NB + 1)
      BY <1>1, <1>3, <2>1 DEF Placed
    <3>2. \A i, j \in 0..rank : i < j => bs'[i] <= bs'[j]
      BY <1>1, <1>3, <2>1 DEF Placed
    <3>3. QED
      BY <1>1, <1>3, <1>9, <3>1, <3>2 DEF Placed
  <2>3. Held(rank)'
    <3> SUFFICES ASSUME NEW l \in 1..(NB + 2)
                 PROVE  \E i \in 0..rank : (i > 0 => bs'[i] <= l) /\ (i + 1 < rank + 1 => l < bs'[i + 1])
      BY <1>1, <1>3, <1>9 DEF Held
    <3>1. PICK i \in 0..(rank - 1) : (i > 0 => bs[i] <= l) /\ (i + 1 < rank => l < bs[i + 1])
      BY <1>1 DEF Held
    <3>2. CASE i < rank - 1
      BY <1>1, <1>3, <2>1, <3>1, <3>2
    <3>3. CASE i = rank - 1 /\ l < block + 1
      BY <1>1, <1>3, <2>1, <3>1, <3>3
    <3>4. CASE i = rank - 1 /\ l >= block + 1
      BY <1>1, <1>3, <2>1, <3>4
    <3>5. QED
      BY <1>1, <1>3, <3>1, <3>2, <3>3, <3>4
  <2>4. bs'[0] = 1 /\ \A i \in 0..rank : bs'[i] <= block + 1
    BY <1>1, <1>3, <2>1
  <2>5. Cutting'
    BY <1>0, <1>1, <1>2, <1>3, <1>4, <1>7, <1>9, <2>2, <2>3, <2>4 DEF Cutting
  <2>6. QED
    BY <1>0, <1>6, <2>5 DEF IInv, Done
<1>10. QED
  BY <1>4, <1>8, <1>9

\* The other ranks start behind the blocks that were divided, the last one at
\* the pinned layer.
LEMMA FinishKeeps == ASSUME IInv, Finish PROVE IInv'
<1>0. SplitTypeOK /\ plan \in Plans /\ plan' = plan /\ split = "cutting" /\ split' = "done"
  BY DEF IInv, SplitTypeOK, Finish
<1>1. /\ rank \in 1..Early /\ block \in 1..(SplitHi + 1)
      /\ bs[0] = 1 /\ Placed(rank) /\ Held(rank)
      /\ \A i \in 0..(rank - 1) : bs[i] <= block
  BY <1>0 DEF IInv, Cutting
<1> DEFINE R == plan.ranks
           pinned(i) == Pin > 0 /\ i = R - 1
<1>2. /\ Pin' = Pin /\ SplitHi' = SplitHi /\ Early' = Early
  BY <1>0 DEF Pin, SplitHi, Early
<1>3. R \in 1..MaxRanks /\ SplitHi \in 0..NB /\ Early \in 1..R /\ Pin \in 0..(NB - 1)
  BY <1>0, PinFacts, PlanTypes
<1>4. /\ Pin = 0 => SplitHi = NB /\ Early = R
      /\ Pin > 0 => SplitHi = Pin - 1 /\ (R > 1 => Early = R - 1) /\ (R = 1 => Early = 1)
  BY <1>0, PinFacts
<1>5. bs \in [0..(MaxRanks - 1) -> Nat]
  BY <1>0 DEF SplitTypeOK
<1>6. bs' = [i \in 0..(MaxRanks - 1) |->
                 CASE pinned(i) -> Pin
                   [] ~pinned(i) /\ i \in rank..(Early - 1) -> SplitHi + 1
                   [] OTHER -> bs[i]]
  BY <1>5 DEF Finish
<1>7. R \in Nat /\ R >= 1 /\ rank \in Nat /\ rank >= 1 /\ rank <= Early /\ Early <= R /\ Early \in Nat
  BY <1>1, <1>3
<1>8. ASSUME NEW i \in 0..(R - 1)
      PROVE  /\ pinned(i) => bs'[i] = Pin
             /\ ~pinned(i) /\ i >= rank => bs'[i] = SplitHi + 1
             /\ ~pinned(i) /\ i < rank => bs'[i] = bs[i]
  <2>1. i \in 0..(MaxRanks - 1) /\ i \in Nat /\ i <= R - 1
    BY <1>3
  <2>2. bs'[i] = CASE pinned(i) -> Pin
                   [] ~pinned(i) /\ i \in rank..(Early - 1) -> SplitHi + 1
                   [] OTHER -> bs[i]
    BY <1>6, <2>1
  <2>3. ~pinned(i) /\ i >= rank => i \in rank..(Early - 1)
    BY <1>3, <1>4, <1>7, <2>1
  <2>4. i < rank => i \notin rank..(Early - 1)
    BY <1>7, <2>1
  <2> HIDE DEF pinned
  <2>5. QED
    BY <2>2, <2>3, <2>4, <1>7, <2>1
<1>9. SplitTypeOK'
  <2>1. bs' \in [0..(MaxRanks - 1) -> Nat]
    BY <1>3, <1>5, <1>6
  <2>2. QED
    BY <1>0, <2>1 DEF SplitTypeOK, Finish
<1>10. ASSUME NEW i \in 0..(rank - 1)
       PROVE  bs[i] \in Nat /\ 1 <= bs[i] /\ bs[i] <= SplitHi + 1
  BY <1>1, <1>3, <1>7 DEF Placed
<1>11. ASSUME Pin > 0 PROVE bs'[R - 1] = Pin
  BY <1>7, <1>8, <1>11
<1>12. Placed(plan.ranks)'
  <2>1. ASSUME NEW i \in 0..(R - 1)
        PROVE  bs'[i] \in 1..(SplitHi + 1) /\ (pinned(i) \/ i >= rank => bs'[i] = SplitHi + 1)
    <3>1. CASE pinned(i)
      BY <1>3, <1>4, <1>8, <3>1
    <3>2. CASE ~pinned(i) /\ i >= rank
      BY <1>3, <1>8, <3>2
    <3>3. CASE ~pinned(i) /\ i < rank
      <4>1. i \in 0..(rank - 1)
        BY <1>7, <3>3
      <4>2. bs'[i] = bs[i]
        BY <1>8, <3>3
      <4>3. bs'[i] \in 1..(SplitHi + 1)
        BY <1>3, <1>10, <4>1, <4>2
      <4>4. ~(pinned(i) \/ i >= rank)
        BY <1>7, <4>1, <3>3
      <4> HIDE DEF pinned
      <4>5. QED
        BY <4>3, <4>4
    <3>4. QED
      BY <3>1, <3>2, <3>3, <1>7
  <2>2. ASSUME NEW i \in 0..(R - 1), NEW j \in 0..(R - 1), i < j
        PROVE  bs'[i] <= bs'[j]
    <3>0. bs'[i] \in 1..(SplitHi + 1)
      BY <2>1
    <3>1. CASE pinned(j) \/ j >= rank
      <4>1. bs'[j] = SplitHi + 1
        BY <2>1, <3>1
      <4>2. QED
        BY <1>3, <3>0, <4>1
    <3>2. CASE ~pinned(j) /\ j < rank
      <4>1. ~pinned(i) /\ i \in 0..(rank - 1) /\ j \in 0..(rank - 1)
        BY <1>7, <2>2, <3>2
      <4>2. bs'[i] = bs[i] /\ bs'[j] = bs[j]
        BY <1>7, <1>8, <3>2, <4>1
      <4>3. bs[i] <= bs[j]
        BY <1>1, <2>2, <4>1 DEF Placed
      <4>4. QED
        BY <4>2, <4>3
    <3>3. QED
      BY <3>1, <3>2, <1>7
  <2>3. \A i \in 0..(R - 1) : bs'[i] \in 1..(NB + 1)
    BY <1>3, <2>1
  <2>4. QED
    BY <1>0, <2>2, <2>3 DEF Placed
<1>13. Held(plan.ranks)'
  <2> SUFFICES ASSUME NEW l \in 1..(NB + 2)
               PROVE  \E i \in 0..(R - 1) : (i > 0 => bs'[i] <= l) /\ (i + 1 < R => l < bs'[i + 1])
    BY <1>0 DEF Held
  <2>1. PICK i \in 0..(rank - 1) : (i > 0 => bs[i] <= l) /\ (i + 1 < rank => l < bs[i + 1])
    BY <1>1 DEF Held
  <2>i. i \in Nat /\ i <= rank - 1 /\ i \in 0..(R - 1) /\ l \in Nat
    BY <1>7
  <2>2. CASE R = 1
    BY <2>2
  <2>3. CASE R > 1 /\ i < rank - 1
    <3>1. ~pinned(i) /\ ~pinned(i + 1) /\ i + 1 \in 0..(R - 1) /\ i + 1 < rank
      BY <1>3, <1>4, <1>7, <2>i, <2>3
    <3>2. bs'[i] = bs[i] /\ bs'[i + 1] = bs[i + 1]
      <4>1. bs'[i] = bs[i]
        BY <1>8, <2>i, <2>3, <3>1, <1>7
      <4>2. bs'[i + 1] = bs[i + 1]
        <5> DEFINE j == i + 1
        <5>1. j \in 0..(R - 1) /\ ~pinned(j) /\ j < rank
          BY <3>1
        <5> HIDE DEF j
        <5>2. bs'[j] = bs[j]
          BY <1>8, <5>1
        <5>3. QED
          BY <5>2 DEF j
      <4>3. QED
        BY <4>1, <4>2
    <3>3. QED
      BY <2>i, <2>1, <3>1, <3>2
  <2>4. CASE R > 1 /\ i = rank - 1 /\ l < SplitHi + 1
    <3>1. ~pinned(i) /\ bs'[i] = bs[i]
      <4>1. ~pinned(i) /\ i < rank
        BY <1>3, <1>4, <1>7, <2>i, <2>4
      <4>2. QED
        BY <1>8, <2>i, <4>1
    <3>2. i + 1 < R => bs'[i + 1] = SplitHi + 1
      <4>1. ASSUME i + 1 < R PROVE i + 1 \in 0..(R - 1) /\ i + 1 >= rank
        BY <1>7, <2>i, <2>4, <4>1
      <4>2. ASSUME i + 1 < R, pinned(i + 1) PROVE bs'[i + 1] = SplitHi + 1
        BY <1>3, <1>4, <1>8, <4>1, <4>2
      <4>3. ASSUME i + 1 < R, ~pinned(i + 1) PROVE bs'[i + 1] = SplitHi + 1
        BY <1>8, <4>1, <4>3
      <4>4. QED
        BY <4>2, <4>3
    <3>3. QED
      BY <2>i, <2>1, <2>4, <3>1, <3>2
  <2>5. CASE R > 1 /\ i = rank - 1 /\ l >= SplitHi + 1
    <3>0. R - 1 \in 0..(R - 1)
      BY <1>7
    <3>1. CASE Pin > 0
      <4>1. bs'[R - 1] = SplitHi + 1
        BY <1>3, <1>4, <1>11, <3>1
      <4>2. QED
        BY <1>7, <2>5, <3>0, <4>1
    <3>2. CASE Pin = 0 /\ rank < R
      <4>1. bs'[R - 1] = SplitHi + 1
        BY <1>7, <1>8, <3>0, <3>2
      <4>2. QED
        BY <1>7, <2>5, <3>0, <4>1
    <3>3. CASE Pin = 0 /\ rank = R
      <4>1. bs'[R - 1] = bs[R - 1] /\ i = R - 1
        BY <1>7, <1>8, <2>5, <3>0, <3>3
      <4>2. QED
        BY <1>7, <2>i, <2>1, <3>0, <4>1
    <3>4. QED
      BY <1>3, <1>7, <3>1, <3>2, <3>3
  <2>6. QED
    BY <1>3, <1>7, <2>i, <2>2, <2>3, <2>4, <2>5
<1>14. QED
  BY <1>0, <1>2, <1>9, <1>11, <1>12, <1>13 DEF IInv, Cutting, Done

LEMMA StepInv == IInv /\ [SplitNext]_splitVars => IInv'
<1> SUFFICES ASSUME IInv, [SplitNext]_splitVars PROVE IInv'
  OBVIOUS
<1>1. CASE Cut
  BY <1>1, CutKeeps
<1>2. CASE Finish
  BY <1>2, FinishKeeps
<1>3. CASE UNCHANGED splitVars
  BY <1>3 DEF splitVars, IInv, SplitTypeOK, Cutting, Done, Placed, Held, Pin, SplitHi, Early
<1>4. QED
  BY <1>1, <1>2, <1>3 DEF SplitNext

-----------------------------------------------------------------------------
\* The order of the starts makes the segments disjoint, the witness of Held
\* makes them complete.
LEMMA Covered == IInv => EveryLayerOnce
<1> SUFFICES ASSUME IInv, split = "done"
             PROVE  /\ \A l \in 0..(NLayers - 1) : \E i \in 0..(plan.ranks - 1) : l \in Share(i)
                    /\ \A i, j \in 0..(plan.ranks - 1) : i < j => \A l \in Share(i), m \in Share(j) : l < m
  BY DEF EveryLayerOnce
<1> DEFINE R == plan.ranks
<1>1. /\ R \in 1..MaxRanks /\ bs \in [0..(MaxRanks - 1) -> Nat]
      /\ Placed(R) /\ Held(R)
  BY PinFacts, PlanTypes DEF IInv, SplitTypeOK, Done
<1>2. ASSUME NEW l \in 0..(NLayers - 1) PROVE \E i \in 0..(R - 1) : l \in Share(i)
  <2>1. CASE l = 0
    <3>1. 0 + 1 < R => bs[1] > 0
      BY <1>1 DEF Placed
    <3>2. 0 \in Share(0)
      BY <1>1, <3>1 DEF Share, Begins, Ends
    <3>3. QED
      BY <1>1, <2>1, <3>2
  <2>2. CASE l > 0
    <3>1. PICK i \in 0..(R - 1) : (i > 0 => bs[i] <= l) /\ (i + 1 < R => l < bs[i + 1])
      BY <1>1, <2>2 DEF Held
    <3>2. Begins(i) <= l /\ l <= Ends(i) - 1 /\ Begins(i) \in Int /\ Ends(i) \in Int
      BY <1>1, <2>2, <3>1 DEF Begins, Ends, Placed
    <3>3. QED
      BY <3>1, <3>2 DEF Share
  <2>3. QED
    BY <2>1, <2>2
<1>3. ASSUME NEW i \in 0..(R - 1), NEW j \in 0..(R - 1), i < j,
             NEW l \in Share(i), NEW m \in Share(j)
      PROVE  l < m
  <2>0. i + 1 \in 0..(R - 1) /\ i + 1 <= j /\ j # 0 /\ i + 1 < R
    BY <1>1, <1>3
  <2>1. Ends(i) = bs[i + 1] /\ Begins(j) = bs[j]
    BY <2>0 DEF Ends, Begins
  <2>a. bs[i + 1] \in Nat /\ bs[j] \in Nat /\ bs[i + 1] <= bs[j]
    BY <1>1, <2>0 DEF Placed
  <2>2. Begins(i) \in Nat /\ Ends(j) \in Nat
    BY <1>1, <1>3 DEF Ends, Begins
  <2>3. QED
    BY <2>1, <2>a, <2>2 DEF Share
<1>4. QED
  BY <1>2, <1>3

\* A layer that reads another one's rows lies behind the pinned layer, so in
\* the last segment, and so do the rows.
LEMMA Local == IInv => RowsStayLocal
<1> SUFFICES ASSUME IInv, split = "done",
                    NEW i \in 0..(plan.ranks - 1), NEW l \in Share(i) \cap 1..NB
             PROVE  Sources(l) \subseteq Share(i)
  BY DEF RowsStayLocal
<1> DEFINE R == plan.ranks
<1>1. /\ R \in 1..MaxRanks /\ bs \in [0..(MaxRanks - 1) -> Nat] /\ plan.shared \in Nat
      /\ Placed(R) /\ Pin \in 0..(NB - 1)
      /\ Pin > 0 => /\ bs[R - 1] = Pin /\ plan.shared \in 1..(NB - 1) /\ Pin <= NB - plan.shared
                    /\ (NB - plan.shared > 1 => Pin = NB - plan.shared - 1)
  BY PinFacts, PlanTypes DEF IInv, SplitTypeOK, Done
<1>2. CASE ~(Pin > 0 /\ l > NB - plan.shared /\ l <= NB)
  BY <1>2 DEF Sources
<1>3. CASE Pin > 0 /\ l > NB - plan.shared /\ l <= NB
  <2>1. i = R - 1
    <3>1. SUFFICES ASSUME i < R - 1 PROVE FALSE
      BY <1>1
    <3>a. i \in 0..(R - 1) /\ i + 1 \in 0..(R - 1) /\ R - 1 \in 0..(R - 1) /\ i + 1 <= R - 1
      BY <1>1, <3>1
    <3>b. bs[i + 1] \in Nat /\ bs[i + 1] <= bs[R - 1] /\ bs[R - 1] = Pin
      <4>1. bs[i + 1] \in Nat /\ bs[R - 1] = Pin
        BY <1>1, <1>3, <3>a DEF Placed
      <4>2. CASE i + 1 < R - 1
        BY <1>1, <3>a, <4>1, <4>2 DEF Placed
      <4>3. CASE i + 1 = R - 1
        BY <1>1, <4>1, <4>3
      <4>4. QED
        BY <1>1, <3>a, <4>1, <4>2, <4>3
    <3>2. Ends(i) = bs[i + 1] /\ bs[i + 1] <= Pin /\ Begins(i) \in Nat /\ bs[i + 1] \in Nat
      BY <1>1, <3>a, <3>b DEF Ends, Begins
    <3>3. l < Pin
      BY <1>1, <3>2 DEF Share
    <3>4. QED
      BY <1>1, <1>3, <3>3
  <2>2. Begins(i) \in 0..Pin /\ Ends(i) = NB + 3
    BY <1>1, <1>3, <2>1 DEF Begins, Ends
  <2>3. Sources(l) \subseteq Pin..NB
    <3>1. Sources(l) = {NB - plan.shared, NB - plan.shared - 1} \cap 1..NB
      BY <1>3 DEF Sources
    <3>2. SUFFICES ASSUME NEW s \in 1..NB, s = NB - plan.shared \/ s = NB - plan.shared - 1
                   PROVE  Pin <= s
      BY <1>1, <3>1
    <3>3. NB \in Nat
      BY Sizes
    <3>4. QED
      BY <1>1, <1>3, <3>2, <3>3
  <2>4. QED
    BY <1>1, <2>2, <2>3 DEF Share
<1>4. QED
  BY <1>2, <1>3

LEMMA InvAlways == SplitSpec => []IInv
<1>1. QED
  BY InitInv, StepInv, PTL DEF SplitSpec

\* Every cut of dist_split_layers stays within its arrays and types.
THEOREM SplitTypes == SplitSpec => []SplitTypeOK
<1>1. IInv => SplitTypeOK
  BY DEF IInv
<1>2. QED
  BY <1>1, InvAlways, PTL

\* dist_split_layers gives every layer to exactly one rank, in ascending order,
\* for any number of blocks and ranks, any sizes and any weights.
THEOREM LayersCoveredOnce == SplitSpec => []EveryLayerOnce
<1>1. QED
  BY Covered, InvAlways, PTL

\* The pin of dist_split_layers keeps every layer of gemma4 that reads rows of
\* another one in the segment that holds them.
THEOREM RowsAreLocal == SplitSpec => []RowsStayLocal
<1>1. QED
  BY Local, InvAlways, PTL
=============================================================================
