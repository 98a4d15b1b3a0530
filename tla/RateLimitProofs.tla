-------------------------- MODULE RateLimitProofs --------------------------
(***************************************************************************)
(* Proofs about RateLimit for any number of threads, any window and any    *)
(* limits.  The first part is about sums over finite sets, which the       *)
(* library defines by a fold: that they exist, do not depend on the order  *)
(* and grow with their terms.  Each of these is an induction over the size *)
(* of a set, by the least size for which it fails.                         *)
(***************************************************************************)
EXTENDS RateLimit, TLAPS, FiniteSetTheorems, WellFoundedInduction

-----------------------------------------------------------------------------
(* Sums.                                                                   *)

\* A set of numbers that is not empty has a least one; induction below takes the
\* least number for which something fails.
LEMMA Least ==
    ASSUME NEW A \in SUBSET Nat, A # {}
    PROVE  \E n \in A : \A k \in A : n <= k
  <1>. DEFINE R == OpToRel(<, Nat)
  <1>1. IsWellFoundedOn(R, Nat)  BY NatLessThanWellFounded
  <1>2. \A x, y \in Nat : y < x => <<y, x>> \in R  BY DEF OpToRel
  <1>. HIDE DEF R
  <1>3. PICK x \in A : \A y \in A : ~(<<y, x>> \in R)  BY <1>1, WFMin
  <1>4. \A k \in A : x <= k
    <2>. SUFFICES ASSUME NEW k \in A PROVE x <= k  OBVIOUS
    <2>1. ~(k < x)  BY <1>2, <1>3
    <2>. QED  BY <2>1
  <1>. QED  BY <1>4

\* The element a fold over s begins with.
Pick(s) == CHOOSE x \in s : TRUE

\* g adds up f over the subsets of S, as the fold does.
Sums(g, f, S) ==
    g = [s \in SUBSET S |-> IF s = {} THEN 0
                            ELSE f[CHOOSE x \in s : TRUE] + g[s \ {CHOOSE x \in s : TRUE}]]

LEMMA Unfold ==
    ASSUME NEW f, NEW S
    PROVE  SumFunctionOnSet(f, S) = (CHOOSE g : Sums(g, f, S))[S]
  BY DEF SumFunctionOnSet, FoldFunctionOnSet, MapThenFoldSet, Sums

\* What is left of a finite set without one of its elements.
LEMMA Smaller ==
    ASSUME NEW S, IsFiniteSet(S), NEW x \in S
    PROVE  /\ IsFiniteSet(S \ {x}) /\ Cardinality(S) \in Nat /\ Cardinality(S \ {x}) \in Nat
           /\ Cardinality(S \ {x}) = Cardinality(S) - 1
  BY FS_RemoveElement, FS_CardinalityType

LEMMA PickIn == ASSUME NEW s, s # {} PROVE Pick(s) \in s
  BY DEF Pick

\* There is such a g.
LEMMA SumsExist ==
    ASSUME NEW S, IsFiniteSet(S), NEW f
    PROVE  \E g : Sums(g, f, S)
  <1>. DEFINE Sub(n) == {s \in SUBSET S : Cardinality(s) <= n}
              Adds(g, n) == /\ g = [s \in Sub(n) |-> g[s]]
                            /\ \A s \in Sub(n) : g[s] = IF s = {} THEN 0 ELSE f[Pick(s)] + g[s \ {Pick(s)}]
              A == {n \in Nat : ~ \E g : Adds(g, n)}
  <1>1. \A s \in SUBSET S : IsFiniteSet(s) /\ Cardinality(s) \in Nat /\ Cardinality(s) <= Cardinality(S)
    BY FS_Subset, FS_CardinalityType
  <1>2. A = {}
    <2>. SUFFICES ASSUME A # {} PROVE FALSE  OBVIOUS
    <2>1. PICK n \in A : \A k \in A : n <= k
      <3>1. A \in SUBSET Nat  OBVIOUS
      <3>. HIDE DEF A
      <3>. QED  BY <3>1, Least
    <2>2. CASE n = 0
      <3>. DEFINE g == [s \in Sub(0) |-> 0]
      <3>1. \A s \in Sub(0) : s = {}  BY <1>1, FS_EmptySet
      <3>2. \A s \in Sub(0) : g[s] = 0  OBVIOUS
      <3>3. g = [s \in Sub(0) |-> g[s]]  OBVIOUS
      <3>4. Adds(g, 0)
        <4>. HIDE DEF g
        <4>. QED  BY <3>1, <3>2, <3>3
      <3>. QED  BY <2>2, <3>4
    <2>3. CASE n # 0
      <3>0. n \in Nat  OBVIOUS
      <3>1. n - 1 \in Nat /\ n - 1 \notin A
        <4>. HIDE DEF A
        <4>. QED  BY <2>1, <2>3, <3>0
      <3>2. PICK h : Adds(h, n - 1)  BY <3>1
      <3>. DEFINE g == [s \in Sub(n) |-> IF s \in Sub(n - 1) THEN h[s]
                                         ELSE IF s = {} THEN 0 ELSE f[Pick(s)] + h[s \ {Pick(s)}]]
      <3>3. \A s \in Sub(n) : s # {} => s \ {Pick(s)} \in Sub(n - 1)
        <4>. SUFFICES ASSUME NEW s \in Sub(n), s # {} PROVE s \ {Pick(s)} \in Sub(n - 1)  OBVIOUS
        <4>1. Pick(s) \in s /\ IsFiniteSet(s) /\ Cardinality(s) <= n  BY <1>1, PickIn
        <4>2. Cardinality(s \ {Pick(s)}) = Cardinality(s) - 1 /\ Cardinality(s) \in Nat  BY <4>1, Smaller
        <4>3. Cardinality(s \ {Pick(s)}) <= n - 1  BY <4>1, <4>2
        <4>. QED  BY <4>3
      <3>4. \A s \in Sub(n - 1) : s \in Sub(n)
        <4>. SUFFICES ASSUME NEW s \in Sub(n - 1) PROVE s \in Sub(n)  OBVIOUS
        <4>1. Cardinality(s) \in Nat /\ Cardinality(s) <= n - 1 /\ s \in SUBSET S  BY <1>1
        <4>. QED  BY <4>1
      <3>5. \A s \in Sub(n) : g[s] = IF s \in Sub(n - 1) THEN h[s]
                                     ELSE IF s = {} THEN 0 ELSE f[Pick(s)] + h[s \ {Pick(s)}]
        OBVIOUS
      <3>6. g = [s \in Sub(n) |-> g[s]]  OBVIOUS
      <3>7. \A s \in Sub(n - 1) : h[s] = IF s = {} THEN 0 ELSE f[Pick(s)] + h[s \ {Pick(s)}]
        BY <3>2
      <3>8. \A s \in Sub(n) : g[s] = IF s = {} THEN 0 ELSE f[Pick(s)] + g[s \ {Pick(s)}]
        <4>. HIDE DEF g, Sub
        <4>. SUFFICES ASSUME NEW s \in Sub(n)
                      PROVE  g[s] = IF s = {} THEN 0 ELSE f[Pick(s)] + g[s \ {Pick(s)}]
          OBVIOUS
        <4>1. g[s] = IF s = {} THEN 0 ELSE f[Pick(s)] + h[s \ {Pick(s)}]
          <5>1. CASE s \in Sub(n - 1)  BY <3>5, <3>7, <5>1
          <5>2. CASE s \notin Sub(n - 1)  BY <3>5, <5>2
          <5>. QED  BY <5>1, <5>2
        <4>2. s # {} => g[s \ {Pick(s)}] = h[s \ {Pick(s)}]  BY <3>3, <3>4, <3>5
        <4>. QED  BY <4>1, <4>2
      <3>9. Adds(g, n)
        <4>. HIDE DEF g, Sub
        <4>. QED  BY <3>6, <3>8
      <3>. QED  BY <3>9
    <2>. QED  BY <2>2, <2>3
  <1>3. Cardinality(S) \in Nat  BY FS_CardinalityType
  <1>4. PICK g : Adds(g, Cardinality(S))  BY <1>2, <1>3
  <1>5. Sub(Cardinality(S)) = SUBSET S  BY <1>1
  <1>6. g = [s \in SUBSET S |-> IF s = {} THEN 0 ELSE f[Pick(s)] + g[s \ {Pick(s)}]]
    <2>1. g = [s \in SUBSET S |-> g[s]]  BY <1>4, <1>5
    <2>2. \A s \in SUBSET S : g[s] = IF s = {} THEN 0 ELSE f[Pick(s)] + g[s \ {Pick(s)}]
      BY <1>4, <1>5
    <2>. HIDE DEF Sub, Adds
    <2>. QED  BY <2>1, <2>2
  <1>7. Sums(g, f, S)  BY <1>6 DEF Sums, Pick
  <1>. QED  BY <1>7

\* The iterations over S and over a part of it agree.
LEMMA SumsAgree ==
    ASSUME NEW S, IsFiniteSet(S), NEW T \in SUBSET S, NEW f, NEW g, NEW h, Sums(g, f, S), Sums(h, f, T)
    PROVE  \A s \in SUBSET T : g[s] = h[s]
  <1>. DEFINE A == {n \in Nat : \E s \in SUBSET T : Cardinality(s) = n /\ g[s] # h[s]}
  <1>1. \A s \in SUBSET T : IsFiniteSet(s) /\ Cardinality(s) \in Nat /\ s \in SUBSET S
    BY FS_Subset, FS_CardinalityType
  <1>2. \A s \in SUBSET T :
           /\ g[s] = IF s = {} THEN 0 ELSE f[Pick(s)] + g[s \ {Pick(s)}]
           /\ h[s] = IF s = {} THEN 0 ELSE f[Pick(s)] + h[s \ {Pick(s)}]
    <2>1. \A s \in SUBSET S : g[s] = IF s = {} THEN 0 ELSE f[Pick(s)] + g[s \ {Pick(s)}]
      BY DEF Sums, Pick
    <2>2. \A s \in SUBSET T : h[s] = IF s = {} THEN 0 ELSE f[Pick(s)] + h[s \ {Pick(s)}]
      BY DEF Sums, Pick
    <2>. QED  BY <1>1, <2>1, <2>2
  <1>3. A = {}
    <2>. SUFFICES ASSUME A # {} PROVE FALSE  OBVIOUS
    <2>1. PICK n \in A : \A k \in A : n <= k
      <3>1. A \in SUBSET Nat  OBVIOUS
      <3>. HIDE DEF A
      <3>. QED  BY <3>1, Least
    <2>2. PICK s \in SUBSET T : Cardinality(s) = n /\ g[s] # h[s]  OBVIOUS
    <2>3. s # {}  BY <1>2, <2>2
    <2>4. Pick(s) \in s  BY <2>3, PickIn
    <2>5. Cardinality(s \ {Pick(s)}) \in Nat /\ Cardinality(s \ {Pick(s)}) = n - 1 /\ n \in Nat
      BY <1>1, <2>2, <2>4, Smaller
    <2>6. Cardinality(s \ {Pick(s)}) \notin A
      <3>. HIDE DEF A
      <3>. QED  BY <2>1, <2>5
    <2>7. g[s \ {Pick(s)}] = h[s \ {Pick(s)}]  BY <2>5, <2>6
    <2>. QED  BY <1>2, <2>2, <2>3, <2>7
  <1>. QED  BY <1>1, <1>3

\* The order of the elements does not matter.
LEMMA AnyFirst ==
    ASSUME NEW S, IsFiniteSet(S), NEW f, \A x \in S : f[x] \in Int, NEW g, Sums(g, f, S)
    PROVE  \A s \in SUBSET S : g[s] \in Int /\ \A y \in s : g[s] = f[y] + g[s \ {y}]
  <1>. DEFINE Good(s) == g[s] \in Int /\ \A y \in s : g[s] = f[y] + g[s \ {y}]
              A == {n \in Nat : \E s \in SUBSET S : Cardinality(s) = n /\ ~Good(s)}
  <1>1. \A s \in SUBSET S : IsFiniteSet(s) /\ Cardinality(s) \in Nat
    BY FS_Subset, FS_CardinalityType
  <1>2. \A s \in SUBSET S : g[s] = IF s = {} THEN 0 ELSE f[Pick(s)] + g[s \ {Pick(s)}]
    BY DEF Sums, Pick
  <1>3. A = {}
    <2>. SUFFICES ASSUME A # {} PROVE FALSE  OBVIOUS
    <2>1. PICK n \in A : \A k \in A : n <= k
      <3>1. A \in SUBSET Nat  OBVIOUS
      <3>. HIDE DEF A
      <3>. QED  BY <3>1, Least
    <2>2. PICK s \in SUBSET S : Cardinality(s) = n /\ ~Good(s)
      <3>. HIDE DEF Good
      <3>. QED  OBVIOUS
    <2>3. \A t \in SUBSET S : Cardinality(t) < n => Good(t)
      <3>. SUFFICES ASSUME NEW t \in SUBSET S, Cardinality(t) < n PROVE Good(t)  OBVIOUS
      <3>1. Cardinality(t) \notin A
        <4>1. n \in Nat  OBVIOUS
        <4>. HIDE DEF A
        <4>. QED  BY <1>1, <2>1, <4>1
      <3>. HIDE DEF Good
      <3>. QED  BY <1>1, <3>1
    <2>4. s # {}
      <3>1. s = {} => g[s] = 0 /\ \A y \in s : g[s] = f[y] + g[s \ {y}]  BY <1>2
      <3>2. s = {} => Good(s)  BY <3>1
      <3>. HIDE DEF Good
      <3>. QED  BY <2>2, <3>2
    <2>. DEFINE p == Pick(s)
    <2>5. p \in s  BY <2>4, PickIn
    <2>6. \A y \in s : Cardinality(s \ {y}) < n /\ s \ {y} \in SUBSET S
      BY <1>1, <2>2, Smaller
    <2>7. g[s] = f[p] + g[s \ {p}]  BY <1>2, <2>4
    <2>8. \A y \in s : g[s \ {y}] \in Int /\ \A z \in s \ {y} : g[s \ {y}] = f[z] + g[(s \ {y}) \ {z}]
      BY <2>3, <2>6
    <2>9. \A y \in s : f[y] \in Int  OBVIOUS
    <2>. HIDE DEF p
    <2>10. g[s] \in Int
      <3>1. f[p] \in Int /\ g[s \ {p}] \in Int  BY <2>5, <2>8, <2>9
      <3>. QED  BY <2>7, <3>1
    <2>11. ASSUME NEW y \in s PROVE g[s] = f[y] + g[s \ {y}]
      <3>1. CASE y = p  BY <2>7, <3>1
      <3>2. CASE y # p
        <4>1. y \in s \ {p} /\ p \in s \ {y}  BY <2>5, <3>2
        <4>2. g[s \ {p}] = f[y] + g[(s \ {p}) \ {y}]  BY <2>5, <2>8, <4>1
        <4>3. g[s \ {y}] = f[p] + g[(s \ {y}) \ {p}]  BY <2>8, <4>1
        <4>4. (s \ {p}) \ {y} = (s \ {y}) \ {p}  OBVIOUS
        <4>5. g[(s \ {y}) \ {p}] \in Int
          <5>1. (s \ {y}) \ {p} \in SUBSET S /\ Cardinality((s \ {y}) \ {p}) < n
            <6>1. IsFiniteSet(s \ {y}) /\ Cardinality(s \ {y}) < n /\ n \in Nat
              BY <1>1, <2>2, <2>6
            <6>2. Cardinality((s \ {y}) \ {p}) = Cardinality(s \ {y}) - 1 /\ Cardinality(s \ {y}) \in Nat
              BY <4>1, <6>1, Smaller
            <6>. QED  BY <6>1, <6>2
          <5>. QED  BY <2>3, <5>1
        <4>6. f[p] \in Int /\ f[y] \in Int  BY <2>5, <2>9
        <4>7. g[s] = f[p] + (f[y] + g[(s \ {y}) \ {p}])  BY <2>7, <4>2, <4>4
        <4>8. g[s] = f[y] + (f[p] + g[(s \ {y}) \ {p}])  BY <4>5, <4>6, <4>7
        <4>. QED  BY <4>3, <4>8
      <3>. QED  BY <3>1, <3>2
    <2>12. Good(s)  BY <2>10, <2>11
    <2>. QED  BY <2>2, <2>12
  <1>. QED
    <2>. SUFFICES ASSUME NEW s \in SUBSET S PROVE Good(s)  OBVIOUS
    <2>. HIDE DEF Good
    <2>. QED  BY <1>1, <1>3

\* The sum, element by element.
LEMMA SumOver ==
    ASSUME NEW S, IsFiniteSet(S), NEW f, \A x \in S : f[x] \in Int
    PROVE  /\ SumFunctionOnSet(f, S) \in Int
           /\ S = {} => SumFunctionOnSet(f, S) = 0
           /\ \A y \in S : SumFunctionOnSet(f, S) = f[y] + SumFunctionOnSet(f, S \ {y})
  <1>1. ASSUME NEW T \in SUBSET S
        PROVE  \E g : Sums(g, f, T) /\ SumFunctionOnSet(f, T) = g[T]
    <2>. DEFINE g == CHOOSE h : Sums(h, f, T)
    <2>1. Sums(g, f, T)  BY FS_Subset, SumsExist
    <2>2. SumFunctionOnSet(f, T) = g[T]  BY Unfold
    <2>. QED  BY <2>1, <2>2
  <1>2. PICK g : Sums(g, f, S) /\ SumFunctionOnSet(f, S) = g[S]  BY <1>1
  <1>3. ASSUME NEW T \in SUBSET S PROVE SumFunctionOnSet(f, T) = g[T]
    <2>1. PICK h : Sums(h, f, T) /\ SumFunctionOnSet(f, T) = h[T]  BY <1>1
    <2>. QED  BY <1>2, <2>1, SumsAgree
  <1>4. g[S] \in Int /\ \A y \in S : g[S] = f[y] + g[S \ {y}]  BY <1>2, AnyFirst
  <1>5. S = {} => g[S] = 0  BY <1>2 DEF Sums
  <1>. QED  BY <1>2, <1>3, <1>4, <1>5

\* A sum of natural numbers is at most another one if every term of it is at most a
\* term of its own of the other.
LEMMA SumInto ==
    ASSUME NEW S, IsFiniteSet(S), NEW T, IsFiniteSet(T),
           NEW f, \A x \in S : f[x] \in Nat, NEW g, \A x \in T : g[x] \in Nat,
           NEW h, \A x \in S : h[x] \in T /\ f[x] <= g[h[x]],
           \A x, y \in S : x # y => h[x] # h[y]
    PROVE  SumFunctionOnSet(f, S) <= SumFunctionOnSet(g, T)
  <1>. DEFINE Good(s) == \A t \in SUBSET T : (\A x \in s : h[x] \in t)
                             => SumFunctionOnSet(f, s) <= SumFunctionOnSet(g, t)
              A == {n \in Nat : \E s \in SUBSET S : Cardinality(s) = n /\ ~Good(s)}
  <1>1. /\ \A s \in SUBSET S : IsFiniteSet(s) /\ Cardinality(s) \in Nat
        /\ \A t \in SUBSET T : IsFiniteSet(t)
    BY FS_Subset, FS_CardinalityType
  <1>2. ASSUME NEW t \in SUBSET T PROVE SumFunctionOnSet(g, t) \in Nat
    <2>. DEFINE B == {n \in Nat : \E u \in SUBSET T : Cardinality(u) = n /\ SumFunctionOnSet(g, u) \notin Nat}
    <2>1. B = {}
      <3>. SUFFICES ASSUME B # {} PROVE FALSE  OBVIOUS
      <3>1. PICK n \in B : \A k \in B : n <= k
        <4>1. B \in SUBSET Nat  OBVIOUS
        <4>. HIDE DEF B
        <4>. QED  BY <4>1, Least
      <3>2. PICK u \in SUBSET T : Cardinality(u) = n /\ SumFunctionOnSet(g, u) \notin Nat  OBVIOUS
      <3>3. IsFiniteSet(u) /\ \A x \in u : g[x] \in Int /\ g[x] \in Nat  BY <1>1
      <3>4. u # {}  BY <3>2, <3>3, SumOver
      <3>5. PICK y \in u : TRUE  BY <3>4
      <3>6. SumFunctionOnSet(g, u) = g[y] + SumFunctionOnSet(g, u \ {y})  BY <3>3, <3>5, SumOver
      <3>7. Cardinality(u \ {y}) \in Nat /\ Cardinality(u \ {y}) = n - 1 /\ n \in Nat
        BY <3>2, <3>3, Smaller
      <3>8. Cardinality(u \ {y}) \notin B
        <4>. HIDE DEF B
        <4>. QED  BY <3>1, <3>7
      <3>9. SumFunctionOnSet(g, u \ {y}) \in Nat  BY <3>7, <3>8
      <3>. QED  BY <3>2, <3>3, <3>6, <3>9
    <2>2. IsFiniteSet(t) /\ Cardinality(t) \in Nat  BY <1>1, FS_CardinalityType
    <2>. QED  BY <2>1, <2>2
  <1>3. A = {}
    <2>. SUFFICES ASSUME A # {} PROVE FALSE  OBVIOUS
    <2>1. PICK n \in A : \A k \in A : n <= k
      <3>1. A \in SUBSET Nat  OBVIOUS
      <3>. HIDE DEF A
      <3>. QED  BY <3>1, Least
    <2>2. PICK s \in SUBSET S : Cardinality(s) = n /\ ~Good(s)
      <3>. HIDE DEF Good
      <3>. QED  OBVIOUS
    <2>3. PICK t \in SUBSET T : /\ \A x \in s : h[x] \in t
                               /\ ~(SumFunctionOnSet(f, s) <= SumFunctionOnSet(g, t))
      BY <2>2
    <2>4. /\ IsFiniteSet(s) /\ IsFiniteSet(t)
          /\ \A x \in s : f[x] \in Int /\ f[x] \in Nat
          /\ \A x \in t : g[x] \in Int /\ g[x] \in Nat
      BY <1>1
    <2>5. s # {}
      <3>1. s = {} => SumFunctionOnSet(f, s) = 0  BY <2>4, SumOver
      <3>. QED  BY <1>2, <2>3, <3>1
    <2>6. PICK y \in s : TRUE  BY <2>5
    <2>7. Cardinality(s \ {y}) \in Nat /\ Cardinality(s \ {y}) = n - 1 /\ n \in Nat
      BY <2>2, <2>4, Smaller
    <2>8. Good(s \ {y})
      <3>1. Cardinality(s \ {y}) \notin A
        <4>. HIDE DEF A
        <4>. QED  BY <2>1, <2>7
      <3>. HIDE DEF Good
      <3>. QED  BY <2>7, <3>1
    <2>9. \A x \in s \ {y} : h[x] \in t \ {h[y]}  BY <2>3
    <2>10. SumFunctionOnSet(f, s \ {y}) <= SumFunctionOnSet(g, t \ {h[y]})  BY <2>8, <2>9
    <2>11. SumFunctionOnSet(f, s) = f[y] + SumFunctionOnSet(f, s \ {y})  BY <2>4, SumOver
    <2>12. SumFunctionOnSet(g, t) = g[h[y]] + SumFunctionOnSet(g, t \ {h[y]})  BY <2>3, <2>4, SumOver
    <2>13. f[y] \in Nat /\ g[h[y]] \in Nat /\ f[y] <= g[h[y]]  BY <2>3, <2>4
    <2>14. SumFunctionOnSet(f, s \ {y}) \in Int /\ SumFunctionOnSet(g, t \ {h[y]}) \in Int
      <3>1. IsFiniteSet(s \ {y}) /\ IsFiniteSet(t \ {h[y]})  BY <2>3, <2>4, Smaller
      <3>. QED  BY <2>4, <3>1, SumOver
    <2>. QED  BY <2>3, <2>10, <2>11, <2>12, <2>13, <2>14
  <1>4. Good(S)
    <2>. HIDE DEF Good
    <2>. QED  BY <1>1, <1>3
  <1>. QED  BY <1>4

-----------------------------------------------------------------------------
(* Slots.                                                                  *)

\* Division with remainder.
LEMMA Division ==
    ASSUME NEW c \in Nat, NEW w \in Nat \ {0}
    PROVE  c % w \in 0..(w - 1) /\ \E q \in Int : c = w * q + (c % w)
  <1>1. c % w \in 0..(w - 1)  OBVIOUS
  <1>2. ASSUME NEW q \in Int, q = c \div w, NEW r \in Int, r = c % w
        PROVE  c = w * q + r
    BY <1>2
  <1>. DEFINE q == c \div w
              r == c % w
  <1>3. q \in Int /\ r \in Int  BY <1>1
  <1>4. c = w * q + r  BY <1>2, <1>3
  <1>5. \E k \in Int : c = w * k + r
    <2>. HIDE DEF q, r
    <2>. QED  BY <1>3, <1>4
  <1>. QED  BY <1>1, <1>5

\* A multiple of w is not strictly between 0 and w.
LEMMA NoMultiple ==
    ASSUME NEW w \in Nat \ {0}, NEW p \in Int, NEW q \in Int
    PROVE  ~(0 < w * q - w * p /\ w * q - w * p < w)
  <1>1. CASE q <= p
    <2>1. PICK d \in Nat : p = q + d  BY <1>1, p = q + (p - q)
    <2>2. w * p = w * q + w * d  BY <2>1
    <2>3. w * d \in Nat  OBVIOUS
    <2>. QED  BY <2>2, <2>3
  <1>2. CASE q > p
    <2>1. PICK d \in Nat : q = p + 1 + d  BY <1>2, q = p + 1 + (q - p - 1)
    <2>2. w * q = w * p + w + w * d  BY <2>1
    <2>3. w * d \in Nat  OBVIOUS
    <2>. QED  BY <2>2, <2>3
  <1>. QED  BY <1>1, <1>2

USE RateAssumption

\* Two seconds less than a window apart have slots of their own.
LEMMA SlotsApart ==
    ASSUME NEW a \in Nat, NEW b \in Nat, a < b, b - a < Win
    PROVE  Index(a) # Index(b)
  <1>. SUFFICES ASSUME a % Win = b % Win PROVE FALSE  BY DEF Index
  <1>. DEFINE r == a % Win
  <1>1. PICK p \in Int : a = Win * p + r  BY Division
  <1>2. PICK q \in Int : b = Win * q + r  BY Division
  <1>3. r \in Int  BY Division
  <1>. HIDE DEF r
  <1>4. b - a = Win * q - Win * p  BY <1>1, <1>2, <1>3
  <1>. QED  BY <1>4, NoMultiple

\* A slot number.
LEMMA IndexRange == \A c \in Nat : Index(c) \in 0..(Win - 1)
  BY Division DEF Index
-----------------------------------------------------------------------------
(* The inductive invariant of SlotsExact.                                  *)

\* A clock reading in use is less than a window old: this is what Tick waits for.
ClockInv ==
    \A t \in Thread : thr[t].pc \in {"scan", "bump", "charge"} =>
        thr[t].clk \in 1..now /\ now - thr[t].clk < Win

\* The histories; nothing has been counted in seconds to come.
HistInv ==
    /\ admitted \in [1..MaxTime -> Nat] /\ charged \in [1..MaxTime -> Nat]
    /\ \A s \in (now + 1)..MaxTime : admitted[s] = 0 /\ charged[s] = 0

\* A slot of no second is an empty one.
FreeInv == \A i \in 0..(Win - 1) : g_rl[i].sec = 0 => g_rl[i] = Empty

\* The slot of a second of the window has its counts, or has been taken by another
\* second and there is nothing to count.
ExactAt(s) ==
    IF g_rl[Index(s)].sec = s
    THEN g_rl[Index(s)].req = admitted[s] /\ g_rl[Index(s)].tok = charged[s]
    ELSE admitted[s] = 0 /\ charged[s] = 0
ExactInv == \A s \in 1..now : now - s < Win => ExactAt(s)

IInv == TypeOK /\ ClockInv /\ HistInv /\ FreeInv /\ ExactInv

\* A scan keeps the slots of the window only, so IInv says what SlotsExact says.
LEMMA InvExact == IInv => SlotsExact
  <1>. SUFFICES ASSUME IInv PROVE SlotsExact  OBVIOUS
  <1>1. ASSUME NEW i \in DOMAIN g_rl, Scanned(now)[i] # Empty
        PROVE  \E s \in 1..now : now - s < Win /\ Index(s) = i /\ g_rl[i].sec = s
    <2>1. i \in 0..(Win - 1) /\ g_rl[i].sec \in 0..now  BY DEF IInv, TypeOK
    <2>2. ~Expired(g_rl[i], now) /\ g_rl[i] # Empty  BY <1>1 DEF Scanned
    <2>3. g_rl[i].sec # 0  BY <2>1, <2>2 DEF IInv, FreeInv
    <2>4. now - g_rl[i].sec < Win  BY <2>1, <2>2, <2>3 DEF Expired, IInv, TypeOK
    <2>5. Index(g_rl[i].sec) = i  BY <1>1, <2>3 DEF IInv, TypeOK, Index
    <2>. QED  BY <2>1, <2>3, <2>4, <2>5
  <1>. QED  BY <1>1 DEF SlotsExact, IInv, ExactInv, ExactAt

LEMMA InitInv == Init => IInv
  <1>. SUFFICES ASSUME Init PROVE IInv  OBVIOUS
  <1>1. TypeOK  BY DEF Init, TypeOK, Empty, Idle
  <1>2. ClockInv  BY DEF Init, ClockInv, Idle
  <1>3. HistInv  BY DEF Init, HistInv
  <1>4. FreeInv  BY DEF Init, FreeInv
  <1>5. ExactInv  BY DEF Init, ExactInv, ExactAt, Index, Empty
  <1>. QED  BY <1>1, <1>2, <1>3, <1>4, <1>5 DEF IInv

\* A step that leaves the slots, the clock and the histories alone.
LEMMA ThreadStep ==
    ASSUME IInv, UNCHANGED <<g_rl, now, hist>>, NEW t \in Thread,
           NEW x \in [pc : {"idle", "scan", "pass", "bump", "infer", "charge"},
                      clk : 0..now, tok : 0..MaxTok],
           thr' = [thr EXCEPT ![t] = x],
           x.pc \in {"scan", "bump", "charge"} => x.clk = now
    PROVE  IInv'
  <1>1. TypeOK'  BY DEF IInv, TypeOK
  <1>2. ClockInv'
    <2>. SUFFICES ASSUME NEW u \in Thread, thr'[u].pc \in {"scan", "bump", "charge"}
                  PROVE  thr'[u].clk \in 1..now /\ now - thr'[u].clk < Win
      BY DEF ClockInv
    <2>1. CASE u = t  BY <2>1 DEF IInv, TypeOK
    <2>2. CASE u # t  BY <2>2 DEF IInv, TypeOK, ClockInv
    <2>. QED  BY <2>1, <2>2
  <1>3. HistInv' /\ FreeInv' /\ ExactInv'
    BY DEF IInv, HistInv, FreeInv, ExactInv, ExactAt, hist, Index
  <1>. QED  BY <1>1, <1>2, <1>3 DEF IInv

\* A scan, even one with a clock that is out of date, clears no slot of the window.
LEMMA ScanStep ==
    ASSUME IInv, NEW t \in Thread, Scan(t)
    PROVE  IInv'
  <1>. DEFINE c == thr[t].clk
  <1>1. c \in 1..now /\ now - c < Win  BY DEF Scan, IInv, ClockInv
  <1>2. g_rl' = Scanned(c) /\ UNCHANGED <<now, admitted, charged>>  BY DEF Scan, hist
  <1>3. PICK x \in {Idle, [Idle EXCEPT !.pc = "pass"]} : thr' = [thr EXCEPT ![t] = x]
    BY DEF Scan
  <1>. HIDE DEF c
  <1>4. \A i \in 0..(Win - 1) : g_rl'[i] = g_rl[i] \/ (g_rl'[i] = Empty /\ Expired(g_rl[i], c))
    BY <1>2 DEF Scanned, IInv, TypeOK
  <1>5. DOMAIN g_rl = 0..(Win - 1) /\ DOMAIN g_rl' = 0..(Win - 1)
    BY <1>2 DEF Scanned, IInv, TypeOK
  <1>6. TypeOK'
    <2>1. g_rl' \in [0..(Win - 1) -> [sec : 0..now, req : Nat, tok : Nat]]
      BY <1>2 DEF Scanned, Empty, IInv, TypeOK
    <2>2. thr' \in [Thread -> [pc : {"idle", "scan", "pass", "bump", "infer", "charge"},
                               clk : 0..now, tok : 0..MaxTok]]
      BY <1>3 DEF Idle, IInv, TypeOK
    <2>3. \A i \in 0..(Win - 1) : g_rl'[i].sec # 0 => g_rl'[i].sec % Win = i
      BY <1>4, <1>5 DEF Empty, IInv, TypeOK
    <2>. QED  BY <1>2, <1>5, <2>1, <2>2, <2>3 DEF IInv, TypeOK
  <1>7. ClockInv'
    <2>. SUFFICES ASSUME NEW u \in Thread, thr'[u].pc \in {"scan", "bump", "charge"}
                  PROVE  thr'[u].clk \in 1..now /\ now - thr'[u].clk < Win
      BY <1>2 DEF ClockInv
    <2>1. CASE u = t  BY <2>1, <1>3 DEF Idle, IInv, TypeOK
    <2>2. CASE u # t  BY <2>2, <1>3 DEF IInv, TypeOK, ClockInv
    <2>. QED  BY <2>1, <2>2
  <1>8. HistInv'  BY <1>2 DEF IInv, HistInv
  <1>9. FreeInv'  BY <1>4 DEF IInv, FreeInv
  <1>10. ExactInv'
    <2>. SUFFICES ASSUME NEW s \in 1..now, now - s < Win PROVE ExactAt(s)'
      BY <1>2 DEF ExactInv
    <2>. DEFINE i == Index(s)
    <2>1. i \in 0..(Win - 1)  BY IndexRange DEF IInv, TypeOK
    <2>2. ExactAt(s)  BY DEF IInv, ExactInv
    <2>3. CASE g_rl'[i] = g_rl[i]  BY <2>2, <2>3, <1>2 DEF ExactAt, Index
    <2>4. CASE g_rl'[i] = Empty /\ Expired(g_rl[i], c)
      <3>1. g_rl[i].sec # s  BY <2>4, <1>1 DEF Expired, IInv, TypeOK
      <3>2. admitted[s] = 0 /\ charged[s] = 0  BY <3>1, <2>2 DEF ExactAt
      <3>3. g_rl'[i].sec # s  BY <2>4 DEF Empty
      <3>. QED  BY <3>2, <3>3, <1>2 DEF ExactAt, Index
    <2>. QED  BY <1>4, <2>1, <2>3, <2>4
  <1>. QED  BY <1>6, <1>7, <1>8, <1>9, <1>10 DEF IInv

\* A count: the slot of second c of the window becomes e, which has c's new counts.
LEMMA CountStep ==
    ASSUME IInv, NEW t \in Thread, NEW c \in 1..now, now - c < Win, now' = now,
           NEW e \in [sec : {c}, req : Nat, tok : Nat],
           g_rl' = [g_rl EXCEPT ![Index(c)] = e],
           admitted' = [admitted EXCEPT ![c] = e.req],
           charged' = [charged EXCEPT ![c] = e.tok],
           NEW x \in {Idle, [Idle EXCEPT !.pc = "infer"]}, thr' = [thr EXCEPT ![t] = x]
    PROVE  IInv'
  <1>1. Index(c) \in 0..(Win - 1) /\ c \in 1..MaxTime  BY IndexRange DEF IInv, TypeOK
  <1>2. TypeOK'
    <2>1. g_rl' \in [0..(Win - 1) -> [sec : 0..now, req : Nat, tok : Nat]]
      BY <1>1 DEF IInv, TypeOK
    <2>2. thr' \in [Thread -> [pc : {"idle", "scan", "pass", "bump", "infer", "charge"},
                               clk : 0..now, tok : 0..MaxTok]]
      BY DEF Idle, IInv, TypeOK
    <2>3. \A i \in 0..(Win - 1) : g_rl'[i].sec # 0 => g_rl'[i].sec % Win = i
      <3>1. \A i \in 0..(Win - 1) : g_rl'[i] = IF i = Index(c) THEN e ELSE g_rl[i]
        BY DEF IInv, TypeOK
      <3>. QED  BY <3>1, <1>1 DEF Index, IInv, TypeOK
    <2>. QED  BY <2>1, <2>2, <2>3 DEF IInv, TypeOK
  <1>3. ClockInv'
    <2>. SUFFICES ASSUME NEW u \in Thread, thr'[u].pc \in {"scan", "bump", "charge"}
                  PROVE  thr'[u].clk \in 1..now /\ now - thr'[u].clk < Win
      BY DEF ClockInv
    <2>1. CASE u = t  BY <2>1 DEF Idle, IInv, TypeOK
    <2>2. CASE u # t  BY <2>2 DEF IInv, TypeOK, ClockInv
    <2>. QED  BY <2>1, <2>2
  <1>4. HistInv'
    <2>1. admitted' \in [1..MaxTime -> Nat] /\ charged' \in [1..MaxTime -> Nat]
      BY DEF IInv, HistInv
    <2>2. ASSUME NEW s \in (now + 1)..MaxTime PROVE admitted'[s] = 0 /\ charged'[s] = 0
      <3>1. s \in 1..MaxTime /\ s # c /\ admitted[s] = 0 /\ charged[s] = 0
        BY DEF IInv, HistInv, TypeOK
      <3>. QED  BY <3>1 DEF IInv, HistInv
    <2>. QED  BY <2>1, <2>2 DEF HistInv
  <1>5. FreeInv'
    <2>. SUFFICES ASSUME NEW i \in 0..(Win - 1), g_rl'[i].sec = 0 PROVE g_rl'[i] = Empty
      BY DEF FreeInv
    <2>1. g_rl'[i] = IF i = Index(c) THEN e ELSE g_rl[i]  BY DEF IInv, TypeOK
    <2>2. e.sec # 0  BY DEF IInv, TypeOK
    <2>. QED  BY <2>1, <2>2 DEF IInv, FreeInv
  <1>6. ExactInv'
    <2>. SUFFICES ASSUME NEW s \in 1..now, now - s < Win PROVE ExactAt(s)'
      BY DEF ExactInv
    <2>1. CASE s = c
      BY <2>1, <1>1 DEF ExactAt, Index, IInv, TypeOK, HistInv
    <2>2. CASE s # c
      <3>1. Index(s) # Index(c)
        <4>1. s \in Nat /\ c \in Nat /\ s - c < Win /\ c - s < Win
          BY DEF IInv, TypeOK
        <4>2. CASE s < c  BY <4>1, <4>2, SlotsApart
        <4>3. CASE c < s  BY <4>1, <4>3, SlotsApart
        <4>. QED  BY <2>2, <4>1, <4>2, <4>3
      <3>2. Index(s) \in 0..(Win - 1)  BY IndexRange DEF IInv, TypeOK
      <3>3. g_rl'[Index(s)] = g_rl[Index(s)]  BY <3>1, <3>2 DEF IInv, TypeOK
      <3>4. s \in 1..MaxTime /\ admitted'[s] = admitted[s] /\ charged'[s] = charged[s]
        BY <2>2 DEF IInv, TypeOK, HistInv
      <3>5. ExactAt(s)  BY DEF IInv, ExactInv
      <3>. QED  BY <3>3, <3>4, <3>5 DEF ExactAt, Index
    <2>. QED  BY <2>1, <2>2
  <1>. QED  BY <1>2, <1>3, <1>4, <1>5, <1>6 DEF IInv

\* rl_slot_reset: the slot of a second of the window is handed over with the
\* counts of that second.
LEMMA SlotCounts ==
    ASSUME IInv, NEW c \in 1..now, now - c < Win
    PROVE  Slot(c) = [sec |-> c, req |-> admitted[c], tok |-> charged[c]]
  <1>1. c \in Nat  BY DEF IInv, TypeOK
  <1>2. Index(c) \in 0..(Win - 1)  BY <1>1, IndexRange
  <1>3. ExactAt(c)  BY DEF IInv, ExactInv
  <1>. QED  BY <1>2, <1>3 DEF Slot, ExactAt, Empty, IInv, TypeOK

LEMMA BumpReqStep ==
    ASSUME IInv, NEW t \in Thread, BumpReq(t)
    PROVE  IInv'
  <1>. DEFINE c == thr[t].clk
              e == [Slot(c) EXCEPT !.req = @ + 1]
              x == [Idle EXCEPT !.pc = "infer"]
  <1>1. c \in 1..now /\ now - c < Win  BY DEF BumpReq, IInv, ClockInv
  <1>2. c \in 1..MaxTime  BY <1>1 DEF IInv, TypeOK
  <1>3. Slot(c) = [sec |-> c, req |-> admitted[c], tok |-> charged[c]]
    BY <1>1, SlotCounts
  <1>4. e \in [sec : {c}, req : Nat, tok : Nat]
        /\ e.req = admitted[c] + 1 /\ e.tok = charged[c]
    BY <1>2, <1>3 DEF IInv, HistInv
  <1>5. /\ now' = now /\ g_rl' = [g_rl EXCEPT ![Index(c)] = e]
        /\ admitted' = [admitted EXCEPT ![c] = @ + 1] /\ charged' = charged
        /\ thr' = [thr EXCEPT ![t] = x]
    BY DEF BumpReq
  <1>. HIDE DEF c, e
  <1>6. admitted' = [admitted EXCEPT ![c] = e.req] /\ charged' = [charged EXCEPT ![c] = e.tok]
    BY <1>2, <1>4, <1>5 DEF IInv, HistInv
  <1>. QED  BY <1>1, <1>4, <1>5, <1>6, CountStep

LEMMA BumpTokensStep ==
    ASSUME IInv, NEW t \in Thread, BumpTokens(t)
    PROVE  IInv'
  <1>. DEFINE c == thr[t].clk
              e == [Slot(c) EXCEPT !.tok = @ + thr[t].tok]
  <1>1. c \in 1..now /\ now - c < Win  BY DEF BumpTokens, IInv, ClockInv
  <1>2. c \in 1..MaxTime /\ thr[t].tok \in Nat  BY <1>1 DEF IInv, TypeOK
  <1>3. Slot(c) = [sec |-> c, req |-> admitted[c], tok |-> charged[c]]
    BY <1>1, SlotCounts
  <1>4. e \in [sec : {c}, req : Nat, tok : Nat]
        /\ e.req = admitted[c] /\ e.tok = charged[c] + thr[t].tok
    BY <1>2, <1>3 DEF IInv, HistInv
  <1>5. /\ now' = now /\ g_rl' = [g_rl EXCEPT ![Index(c)] = e]
        /\ charged' = [charged EXCEPT ![c] = @ + thr[t].tok] /\ admitted' = admitted
        /\ thr' = [thr EXCEPT ![t] = Idle]
    BY DEF BumpTokens
  <1>. HIDE DEF c, e
  <1>6. admitted' = [admitted EXCEPT ![c] = e.req] /\ charged' = [charged EXCEPT ![c] = e.tok]
    BY <1>2, <1>4, <1>5 DEF IInv, HistInv
  <1>. QED  BY <1>1, <1>4, <1>5, <1>6, CountStep

\* A new second: nothing has been counted in it, and its slot is of an older one.
LEMMA TickStep == IInv /\ Tick => IInv'
  <1>. SUFFICES ASSUME IInv, Tick PROVE IInv'  OBVIOUS
  <1>0. now' = now + 1 /\ now \in 1..MaxTime /\ now' \in 1..MaxTime
        /\ UNCHANGED <<g_rl, thr, admitted, charged>>
    BY DEF Tick, hist, IInv, TypeOK
  <1>1. TypeOK'  BY DEF Tick, IInv, TypeOK
  <1>2. ClockInv'
    <2>. SUFFICES ASSUME NEW u \in Thread, thr'[u].pc \in {"scan", "bump", "charge"}
                  PROVE  thr'[u].clk \in 1..now' /\ now' - thr'[u].clk < Win
      BY DEF ClockInv
    <2>. QED  BY <1>0 DEF Tick, IInv, TypeOK, ClockInv
  <1>3. HistInv' /\ FreeInv'  BY <1>0 DEF IInv, HistInv, FreeInv
  <1>4. ExactInv'
    <2>. SUFFICES ASSUME NEW s \in 1..now', now' - s < Win PROVE ExactAt(s)'
      BY DEF ExactInv
    <2>1. ExactAt(s)
      <3>1. CASE s = now + 1
        <4>1. s \in (now + 1)..MaxTime /\ s \in Nat  BY <3>1, <1>0
        <4>2. Index(s) \in 0..(Win - 1)  BY <4>1, IndexRange
        <4>3. g_rl[Index(s)].sec # s  BY <3>1, <1>0, <4>2 DEF IInv, TypeOK
        <4>. QED  BY <4>1, <4>3 DEF ExactAt, IInv, HistInv
      <3>2. CASE s # now + 1
        <4>1. s \in 1..now /\ now - s < Win  BY <3>2, <1>0
        <4>. QED  BY <4>1 DEF IInv, ExactInv
      <3>. QED  BY <3>1, <3>2
    <2>. QED  BY <2>1, <1>0 DEF ExactAt, Index
  <1>. QED  BY <1>1, <1>2, <1>3, <1>4 DEF IInv

LEMMA NextInv == IInv /\ [Next]_vars => IInv'
  <1>. SUFFICES ASSUME IInv, [Next]_vars PROVE IInv'  OBVIOUS
  <1>. DEFINE Rec == [pc : {"idle", "scan", "pass", "bump", "infer", "charge"},
                      clk : 0..now, tok : 0..MaxTok]
  <1>1. \A t \in Thread : thr[t] \in Rec /\ now \in 0..now  BY DEF IInv, TypeOK
  <1>2. ASSUME NEW t \in Thread, NEW l \in {"scan", "bump"}, ReadClock(t, l),
               UNCHANGED <<g_rl, now, hist>>
        PROVE  IInv'
    <2>. DEFINE x == [thr[t] EXCEPT !.pc = l, !.clk = now]
    <2>1. x \in Rec /\ x.clk = now  BY <1>1
    <2>2. thr' = [thr EXCEPT ![t] = x]  BY <1>2 DEF ReadClock, IInv, TypeOK
    <2>. QED  BY <1>2, <2>1, <2>2, ThreadStep
  <1>3. ASSUME NEW t \in Thread, Arrive(t) PROVE IInv'  BY <1>2, <1>3 DEF Arrive
  <1>4. ASSUME NEW t \in Thread, BumpReqClock(t) PROVE IInv'  BY <1>2, <1>4 DEF BumpReqClock
  <1>5. ASSUME NEW t \in Thread, Scan(t) PROVE IInv'  BY <1>5, ScanStep
  <1>6. ASSUME NEW t \in Thread, BumpReq(t) PROVE IInv'  BY <1>6, BumpReqStep
  <1>7. ASSUME NEW t \in Thread, Fail(t) PROVE IInv'
    <2>1. Idle \in Rec /\ Idle.pc \notin {"scan", "bump", "charge"}
      BY DEF Idle, IInv, TypeOK
    <2>. QED  BY <1>7, <2>1, ThreadStep DEF Fail
  <1>8. ASSUME NEW t \in Thread, NEW n \in 1..MaxTok, BumpTokensClock(t, n) PROVE IInv'
    <2>. DEFINE x == [pc |-> "charge", clk |-> now, tok |-> n]
    <2>1. x \in Rec /\ x.clk = now  BY <1>1
    <2>. QED  BY <1>8, <2>1, ThreadStep DEF BumpTokensClock
  <1>9. ASSUME NEW t \in Thread, BumpTokens(t) PROVE IInv'  BY <1>9, BumpTokensStep
  <1>10. CASE Tick  BY <1>10, TickStep
  <1>11. CASE UNCHANGED vars
    BY <1>11 DEF vars, IInv, TypeOK, ClockInv, HistInv, FreeInv, ExactInv, ExactAt, Index
  <1>. QED  BY <1>3, <1>4, <1>5, <1>6, <1>7, <1>8, <1>9, <1>10, <1>11 DEF Next

\* What the admission limits decide from is exact in every reachable state, for
\* any number of connection threads and any window (rl_scan, rl_slot_reset).
THEOREM WindowExact == Spec => []SlotsExact
  <1>1. Init => IInv  BY InitInv
  <1>2. IInv /\ [Next]_vars => IInv'  BY NextInv
  <1>3. IInv => SlotsExact  BY InvExact
  <1>. QED  BY <1>1, <1>2, <1>3, PTL DEF Spec
-----------------------------------------------------------------------------
(* The inductive invariant of OverrunBounded.                              *)

\* The threads that were let in and are not counted yet; those that may still charge.
Pending == {t \in Thread : thr[t].pc \in {"pass", "bump"}}
Working == {t \in Thread : thr[t].pc \in {"pass", "bump", "infer", "charge"}}

\* A thread on its way into the counts is counted as if it were there.
ReqInv == Rpm > 0 => Recent(admitted) + Cardinality(Pending) <= Rpm + Cardinality(Thread) - 1
TokInv == Tpm > 0 => Recent(charged) + Cardinality(Working) * MaxTok
                        <= Tpm - 1 + Cardinality(Thread) * MaxTok

Seconds == {s \in 1..now : now - s < Win}

LEMMA SecondsFinite ==
    ASSUME IInv
    PROVE  /\ IsFiniteSet(Seconds) /\ Seconds \subseteq 1..MaxTime
           /\ admitted \in [1..MaxTime -> Nat] /\ charged \in [1..MaxTime -> Nat]
           /\ now \in Nat /\ MaxTime \in Nat
  <1>1. now \in 1..MaxTime /\ MaxTime \in Nat  BY DEF IInv, TypeOK
  <1>2. Seconds \subseteq 1..MaxTime  BY <1>1 DEF Seconds
  <1>3. IsFiniteSet(1..MaxTime)  BY <1>1, FS_Interval
  <1>4. IsFiniteSet(Seconds)  BY <1>2, <1>3, FS_Subset
  <1>5. admitted \in [1..MaxTime -> Nat] /\ charged \in [1..MaxTime -> Nat]  BY DEF IInv, HistInv
  <1>. QED  BY <1>1, <1>2, <1>4, <1>5

\* Sums of the same terms are the same.
LEMMA SumSame ==
    ASSUME NEW S, IsFiniteSet(S), NEW f, NEW g, \A x \in S : f[x] \in Nat /\ g[x] = f[x]
    PROVE  SumFunctionOnSet(f, S) = SumFunctionOnSet(g, S)
  <1>. DEFINE h == [x \in S |-> x]
  <1>1. \A x \in S : h[x] = x  OBVIOUS
  <1>2. \A x \in S : f[x] \in Int /\ g[x] \in Int /\ f[x] \in Nat /\ g[x] \in Nat /\ f[x] <= g[x] /\ g[x] <= f[x]
    OBVIOUS
  <1>. HIDE DEF h
  <1>3. SumFunctionOnSet(f, S) <= SumFunctionOnSet(g, S)  BY <1>1, <1>2, SumInto
  <1>4. SumFunctionOnSet(g, S) <= SumFunctionOnSet(f, S)  BY <1>1, <1>2, SumInto
  <1>5. SumFunctionOnSet(f, S) \in Int /\ SumFunctionOnSet(g, S) \in Int  BY <1>2, SumOver
  <1>. QED  BY <1>3, <1>4, <1>5

\* Counting k more in one second of the window.
LEMMA CountedMore ==
    ASSUME IInv, NEW f \in [1..MaxTime -> Nat], NEW c \in Seconds, NEW k \in Nat
    PROVE  Recent([f EXCEPT ![c] = @ + k]) = Recent(f) + k /\ Recent(f) \in Int
  <1>. DEFINE g == [f EXCEPT ![c] = @ + k]
              T == Seconds \ {c}
  <1>1. IsFiniteSet(Seconds) /\ Seconds \subseteq 1..MaxTime  BY SecondsFinite
  <1>2. \A x \in Seconds : f[x] \in Nat /\ g[x] \in Nat /\ f[x] \in Int /\ g[x] \in Int  BY <1>1
  <1>3. (\A x \in T : g[x] = f[x]) /\ g[c] = f[c] + k  BY <1>1
  <1>4. IsFiniteSet(T)  BY <1>1, Smaller
  <1>. HIDE DEF g
  <1>5. SumFunctionOnSet(g, T) = SumFunctionOnSet(f, T)  BY <1>2, <1>3, <1>4, SumSame
  <1>6. /\ SumFunctionOnSet(g, Seconds) = g[c] + SumFunctionOnSet(g, T)
        /\ SumFunctionOnSet(f, Seconds) = f[c] + SumFunctionOnSet(f, T)
        /\ SumFunctionOnSet(f, Seconds) \in Int
    BY <1>1, <1>2, SumOver
  <1>7. SumFunctionOnSet(f, T) \in Int  BY <1>2, <1>4, SumOver
  <1>8. SumFunctionOnSet(g, Seconds) = SumFunctionOnSet(f, Seconds) + k
    BY <1>2, <1>3, <1>5, <1>6, <1>7
  <1>9. Recent(g) = SumFunctionOnSet(g, Seconds) /\ Recent(f) = SumFunctionOnSet(f, Seconds)
    BY DEF Recent, Seconds
  <1>. QED  BY <1>6, <1>8, <1>9 DEF g

\* A scan counts all of the window, even one with a clock that is out of date.
LEMMA ScanSeesAll ==
    ASSUME IInv, NEW c \in 1..now, now - c < Win
    PROVE  Recent(admitted) <= Reqs(c) /\ Recent(charged) <= Toks(c)
  <1>. DEFINE r == [i \in DOMAIN g_rl |-> Scanned(c)[i].req]
              k == [i \in DOMAIN g_rl |-> Scanned(c)[i].tok]
              h == [s \in Seconds |-> Index(s)]
  <1>1. /\ IsFiniteSet(Seconds) /\ Seconds \subseteq 1..MaxTime /\ now \in Nat
        /\ admitted \in [1..MaxTime -> Nat] /\ charged \in [1..MaxTime -> Nat]
    BY SecondsFinite
  <1>2. DOMAIN g_rl = 0..(Win - 1) /\ IsFiniteSet(DOMAIN g_rl)
    BY FS_Interval DEF IInv, TypeOK
  <1>3. \A i \in DOMAIN g_rl : r[i] \in Nat /\ k[i] \in Nat
    BY DEF Scanned, Empty, IInv, TypeOK
  <1>4. \A s \in Seconds : admitted[s] \in Nat /\ charged[s] \in Nat  BY <1>1
  <1>5. ASSUME NEW s \in Seconds
        PROVE  h[s] \in DOMAIN g_rl /\ admitted[s] <= r[h[s]] /\ charged[s] <= k[h[s]]
    <2>1. s \in 1..now /\ now - s < Win /\ s \in Nat  BY DEF Seconds
    <2>2. h[s] = Index(s) /\ Index(s) \in DOMAIN g_rl  BY <1>2, <2>1, IndexRange
    <2>3. ExactAt(s)  BY <2>1 DEF IInv, ExactInv
    <2>4. CASE g_rl[Index(s)].sec = s
      <3>1. ~Expired(g_rl[Index(s)], c)  BY <1>1, <2>1, <2>4 DEF Expired
      <3>2. Scanned(c)[Index(s)] = g_rl[Index(s)]  BY <2>2, <3>1 DEF Scanned
      <3>3. r[h[s]] = admitted[s] /\ k[h[s]] = charged[s]
        BY <2>2, <2>3, <2>4, <3>2 DEF ExactAt
      <3>. QED  BY <1>4, <2>2, <3>3
    <2>5. CASE g_rl[Index(s)].sec # s
      <3>1. admitted[s] = 0 /\ charged[s] = 0  BY <2>3, <2>5 DEF ExactAt
      <3>2. r[h[s]] \in Nat /\ k[h[s]] \in Nat  BY <1>3, <2>2
      <3>. HIDE DEF r, k
      <3>. QED  BY <2>2, <3>1, <3>2
    <2>. QED  BY <2>4, <2>5
  <1>6. \A s, u \in Seconds : s # u => h[s] # h[u]
    <2>. SUFFICES ASSUME NEW s \in Seconds, NEW u \in Seconds, s # u PROVE Index(s) # Index(u)
      OBVIOUS
    <2>1. s \in Nat /\ u \in Nat /\ s - u < Win /\ u - s < Win  BY <1>1 DEF Seconds
    <2>2. CASE s < u  BY <2>1, <2>2, SlotsApart
    <2>3. CASE u < s  BY <2>1, <2>3, SlotsApart
    <2>. QED  BY <2>1, <2>2, <2>3
  <1>7. Recent(admitted) = SumFunctionOnSet(admitted, Seconds) /\ Recent(charged) = SumFunctionOnSet(charged, Seconds)
    BY DEF Recent, Seconds
  <1>8. Reqs(c) = SumFunctionOnSet(r, DOMAIN g_rl) /\ Toks(c) = SumFunctionOnSet(k, DOMAIN g_rl)
    BY DEF Reqs, Toks, SumFunction
  <1>. HIDE DEF r, k, h
  <1>9. SumFunctionOnSet(admitted, Seconds) <= SumFunctionOnSet(r, DOMAIN g_rl)
    BY <1>1, <1>2, <1>3, <1>4, <1>5, <1>6, SumInto
  <1>10. SumFunctionOnSet(charged, Seconds) <= SumFunctionOnSet(k, DOMAIN g_rl)
    BY <1>1, <1>2, <1>3, <1>4, <1>5, <1>6, SumInto
  <1>. QED  BY <1>7, <1>8, <1>9, <1>10

\* A new second starts with nothing in it.
LEMMA TickForgets ==
    ASSUME IInv, Tick, NEW f \in [1..MaxTime -> Nat], f[now + 1] = 0, f' = f
    PROVE  Recent(f)' <= Recent(f) /\ Recent(f)' \in Int
  <1>. DEFINE n == now + 1
              S == {s \in 1..n : n - s < Win}
              T == S \ {n}
              h == [s \in T |-> s]
  <1>1. now' = n /\ now \in Nat /\ n \in 1..MaxTime /\ n \in S
    BY DEF Tick, IInv, TypeOK
  <1>2. IsFiniteSet(Seconds) /\ Seconds \subseteq 1..MaxTime  BY SecondsFinite
  <1>3. T \subseteq Seconds  BY <1>1 DEF Seconds
  <1>4. S \subseteq 1..MaxTime /\ IsFiniteSet(S) /\ IsFiniteSet(T)
    <2>1. S \subseteq 1..MaxTime /\ IsFiniteSet(1..MaxTime)
      <3>1. MaxTime \in Int /\ 1 \in Int  OBVIOUS
      <3>2. S \subseteq 1..MaxTime  BY <1>1
      <3>. QED  BY <3>1, <3>2, FS_Interval
    <2>2. T \subseteq S  OBVIOUS
    <2>. HIDE DEF S, T
    <2>. QED  BY <2>1, <2>2, FS_Subset
  <1>5. \A s \in S : f[s] \in Nat /\ f[s] \in Int  BY <1>4
  <1>6. \A s \in T : h[s] = s  OBVIOUS
  <1>7. \A s \in T : f[s] \in Nat /\ f[s] <= f[s] /\ s \in Seconds  BY <1>3, <1>5
  <1>8. \A s \in Seconds : f[s] \in Nat  BY <1>2
  <1>9. Recent(f)' = SumFunctionOnSet(f, S) /\ Recent(f) = SumFunctionOnSet(f, Seconds)
    BY <1>1 DEF Recent, Seconds
  <1>. HIDE DEF S, h
  <1>10. SumFunctionOnSet(f, S) = f[n] + SumFunctionOnSet(f, T) /\ f[n] = 0
    BY <1>1, <1>4, <1>5, SumOver
  <1>11. SumFunctionOnSet(f, T) \in Int  BY <1>4, <1>5, SumOver
  <1>. HIDE DEF T, n
  <1>12. SumFunctionOnSet(f, T) <= SumFunctionOnSet(f, Seconds)
    BY <1>2, <1>4, <1>6, <1>7, <1>8, SumInto
  <1>. QED  BY <1>9, <1>10, <1>11, <1>12
-----------------------------------------------------------------------------
(* The limits are kept step by step.                                       *)

\* How many threads there are in a set of them, and products of such numbers.
LEMMA Threads ==
    ASSUME NEW A \in SUBSET Thread, NEW B \in SUBSET Thread
    PROVE  /\ IsFiniteSet(A) /\ Cardinality(A) \in Nat /\ Cardinality(Thread) \in Nat
           /\ Cardinality(A) <= Cardinality(Thread)
           /\ A \subseteq B => Cardinality(A) <= Cardinality(B)
  <1>1. IsFiniteSet(A) /\ IsFiniteSet(B) /\ IsFiniteSet(Thread)  BY FS_Subset
  <1>. QED  BY <1>1, FS_Subset, FS_CardinalityType

LEMMA Products ==
    ASSUME NEW a \in Nat, NEW b \in Nat, NEW m \in Nat
    PROVE  /\ a * m \in Nat /\ (a + 1) * m = a * m + m
           /\ a <= b => a * m <= b * m
  <1>1. a * m \in Nat /\ (a + 1) * m = a * m + m  OBVIOUS
  <1>2. ASSUME a <= b PROVE a * m <= b * m
    <2>1. PICK d \in Nat : b = a + d  BY <1>2, b - a \in Nat, b = a + (b - a)
    <2>2. b * m = a * m + d * m /\ d * m \in Nat /\ a * m \in Nat  BY <2>1
    <2>. QED  BY <2>2
  <1>. QED  BY <1>1, <1>2

LEMMA RecentType == ASSUME IInv PROVE Recent(admitted) \in Int /\ Recent(charged) \in Int
  <1>1. \A s \in Seconds : admitted[s] \in Int /\ charged[s] \in Int  BY SecondsFinite
  <1>2. Recent(admitted) = SumFunctionOnSet(admitted, Seconds) /\ Recent(charged) = SumFunctionOnSet(charged, Seconds)
    BY DEF Recent, Seconds
  <1>. QED  BY <1>1, <1>2, SecondsFinite, SumOver

\* A step that adds nothing to the window and nobody to those on their way.
LEMMA NobodyNew ==
    ASSUME IInv, ReqInv, TokInv, Recent(admitted)' \in Int, Recent(charged)' \in Int,
           Recent(admitted)' <= Recent(admitted), Recent(charged)' <= Recent(charged),
           Pending' \subseteq Pending, Working' \subseteq Working
    PROVE  ReqInv' /\ TokInv'
  <1>1. Pending \subseteq Thread /\ Working \subseteq Thread /\ Pending' \subseteq Thread /\ Working' \subseteq Thread
    BY DEF Pending, Working
  <1>2. /\ Cardinality(Pending) \in Nat /\ Cardinality(Working) \in Nat /\ Cardinality(Thread) \in Nat
        /\ Cardinality(Pending') \in Nat /\ Cardinality(Working') \in Nat
        /\ Cardinality(Pending') <= Cardinality(Pending) /\ Cardinality(Working') <= Cardinality(Working)
    BY <1>1, Threads
  <1>3. /\ Cardinality(Working') * MaxTok <= Cardinality(Working) * MaxTok
        /\ Cardinality(Working) * MaxTok \in Nat /\ Cardinality(Working') * MaxTok \in Nat
        /\ Cardinality(Thread) * MaxTok \in Nat
    BY <1>2, Products
  <1>4. Recent(admitted) \in Int /\ Recent(charged) \in Int  BY RecentType
  <1>5. ReqInv'  BY <1>2, <1>4 DEF ReqInv
  <1>6. TokInv'
    <2>. DEFINE w == Cardinality(Working) * MaxTok
                v == Cardinality(Working') * MaxTok
                all == Cardinality(Thread) * MaxTok
    <2>1. Tpm > 0 => Recent(charged) + w <= Tpm - 1 + all  BY DEF TokInv
    <2>2. v <= w /\ v \in Nat /\ w \in Nat /\ all \in Nat  BY <1>3
    <2>. HIDE DEF v, w, all
    <2>3. Tpm > 0 => Recent(charged)' + v <= Tpm - 1 + all  BY <1>4, <2>1, <2>2
    <2>. QED  BY <2>3 DEF TokInv, v, all
  <1>. QED  BY <1>5, <1>6

\* A step that touches neither the histories nor the clock.
LEMMA QuietStep ==
    ASSUME IInv, ReqInv, TokInv, UNCHANGED <<admitted, charged, now>>,
           Pending' \subseteq Pending, Working' \subseteq Working
    PROVE  ReqInv' /\ TokInv'
  <1>1. Recent(admitted)' = Recent(admitted) /\ Recent(charged)' = Recent(charged)  BY DEF Recent
  <1>2. Recent(admitted) \in Int /\ Recent(charged) \in Int  BY RecentType
  <1>3. Recent(admitted)' <= Recent(admitted) /\ Recent(charged)' <= Recent(charged)  BY <1>1, <1>2
  <1>. QED  BY <1>1, <1>2, <1>3, NobodyNew

\* A thread that goes from pc p to q.
LEMMA Moved ==
    ASSUME IInv, NEW t \in Thread, NEW x, thr' = [thr EXCEPT ![t] = x]
    PROVE  /\ x.pc \notin {"pass", "bump"} => Pending' = Pending \ {t}
           /\ x.pc \notin {"pass", "bump", "infer", "charge"} => Working' = Working \ {t}
           /\ thr[t].pc \in {"pass", "bump"} => Pending' \subseteq Pending
           /\ thr[t].pc \in {"pass", "bump", "infer", "charge"} => Working' \subseteq Working
  <1>1. \A u \in Thread : thr'[u] = IF u = t THEN x ELSE thr[u]  BY DEF IInv, TypeOK
  <1>. QED  BY <1>1 DEF Pending, Working

\* A thread is let in: its scan has seen a window with room.
LEMMA LetIn ==
    ASSUME IInv, ReqInv, TokInv, NEW t \in Thread, Scan(t)
    PROVE  ReqInv' /\ TokInv'
  <1>. DEFINE c == thr[t].clk
  <1>1. /\ c \in 1..now /\ now - c < Win /\ UNCHANGED <<admitted, charged, now>>
        /\ thr[t].pc = "scan"
    BY DEF Scan, IInv, ClockInv, hist
  <1>2. CASE Over(c)
    <2>1. thr' = [thr EXCEPT ![t] = Idle] /\ Idle.pc = "idle"  BY <1>2 DEF Scan, Idle
    <2>2. Pending' \subseteq Pending /\ Working' \subseteq Working  BY <2>1, Moved
    <2>. QED  BY <1>1, <2>2, QuietStep
  <1>3. CASE ~Over(c)
    <2>1. Recent(admitted) <= Reqs(c) /\ Recent(charged) <= Toks(c)  BY <1>1, ScanSeesAll
    <2>2. Recent(admitted)' = Recent(admitted) /\ Recent(charged)' = Recent(charged)
      BY <1>1 DEF Recent
    <2>3. Recent(admitted) \in Int /\ Recent(charged) \in Int  BY RecentType
    <2>4. (Rpm > 0 => ~(Reqs(c) >= Rpm)) /\ (Tpm > 0 => ~(Toks(c) >= Tpm))  BY <1>3 DEF Over
    <2>5. Reqs(c) \in Int /\ Toks(c) \in Int
      <3>. DEFINE r == [i \in DOMAIN g_rl |-> Scanned(c)[i].req]
                  k == [i \in DOMAIN g_rl |-> Scanned(c)[i].tok]
      <3>1. IsFiniteSet(DOMAIN g_rl)  BY FS_Interval DEF IInv, TypeOK
      <3>2. \A i \in DOMAIN g_rl : r[i] \in Int /\ k[i] \in Int
        BY DEF Scanned, Empty, IInv, TypeOK
      <3>3. Reqs(c) = SumFunctionOnSet(r, DOMAIN g_rl) /\ Toks(c) = SumFunctionOnSet(k, DOMAIN g_rl)
        BY DEF Reqs, Toks, SumFunction
      <3>. HIDE DEF r, k
      <3>. QED  BY <3>1, <3>2, <3>3, SumOver
    <2>6. Pending' \subseteq Thread /\ Working' \subseteq Thread  BY DEF Pending, Working
    <2>7. /\ Cardinality(Pending') \in Nat /\ Cardinality(Pending') <= Cardinality(Thread)
          /\ Cardinality(Working') \in Nat /\ Cardinality(Working') <= Cardinality(Thread)
          /\ Cardinality(Thread) \in Nat
      BY <2>6, Threads
    <2>. HIDE DEF c
    <2>8. ReqInv'
      <3>1. Rpm > 0 => Recent(admitted)' <= Rpm - 1  BY <2>1, <2>2, <2>3, <2>4, <2>5
      <3>. QED  BY <2>2, <2>3, <2>7, <3>1 DEF ReqInv
    <2>9. TokInv'
      <3>. DEFINE v == Cardinality(Working') * MaxTok
                  all == Cardinality(Thread) * MaxTok
      <3>1. Tpm > 0 => Recent(charged)' <= Tpm - 1  BY <2>1, <2>2, <2>3, <2>4, <2>5
      <3>2. v <= all /\ v \in Nat /\ all \in Nat  BY <2>7, Products
      <3>. HIDE DEF v, all
      <3>3. Tpm > 0 => Recent(charged)' + v <= Tpm - 1 + all  BY <2>2, <2>3, <3>1, <3>2
      <3>. QED  BY <3>3 DEF TokInv, v, all
    <2>. QED  BY <2>8, <2>9
  <1>. QED  BY <1>2, <1>3

\* It is counted, and no longer on its way.
LEMMA ReqCounted ==
    ASSUME IInv, ReqInv, TokInv, NEW t \in Thread, BumpReq(t)
    PROVE  ReqInv' /\ TokInv'
  <1>. DEFINE c == thr[t].clk
  <1>1. /\ c \in Seconds /\ thr[t].pc = "bump" /\ now' = now /\ charged' = charged
        /\ admitted' = [admitted EXCEPT ![c] = @ + 1]
        /\ thr' = [thr EXCEPT ![t] = [Idle EXCEPT !.pc = "infer"]]
    BY DEF BumpReq, IInv, ClockInv, Seconds
  <1>2. Pending' = Pending \ {t} /\ Working' \subseteq Working
    <2>. DEFINE x == [Idle EXCEPT !.pc = "infer"]
    <2>1. x.pc = "infer"  BY DEF Idle
    <2>2. thr' = [thr EXCEPT ![t] = x]  BY <1>1
    <2>. HIDE DEF x
    <2>. QED  BY <1>1, <2>1, <2>2, Moved
  <1>3. t \in Pending  BY <1>1 DEF Pending
  <1>4. Pending \subseteq Thread /\ Working \subseteq Thread /\ Working' \subseteq Thread
    BY DEF Pending, Working
  <1>5. Cardinality(Pending') = Cardinality(Pending) - 1 /\ Cardinality(Pending) \in Nat
    BY <1>2, <1>3, <1>4, Threads, Smaller
  <1>6. Recent(admitted)' = Recent(admitted) + 1 /\ Recent(admitted) \in Int
    <2>1. Recent(admitted)' = Recent([admitted EXCEPT ![c] = @ + 1])  BY <1>1 DEF Recent
    <2>2. admitted \in [1..MaxTime -> Nat] /\ 1 \in Nat  BY SecondsFinite
    <2>. HIDE DEF c
    <2>. QED  BY <1>1, <2>1, <2>2, CountedMore
  <1>7. Recent(charged)' = Recent(charged) /\ Recent(charged) \in Int
    BY <1>1, RecentType DEF Recent
  <1>8. Cardinality(Thread) \in Nat  BY <1>4, Threads
  <1>9. ReqInv'  BY <1>5, <1>6, <1>8 DEF ReqInv
  <1>10. TokInv'
    <2>. DEFINE w == Cardinality(Working) * MaxTok
                v == Cardinality(Working') * MaxTok
                all == Cardinality(Thread) * MaxTok
    <2>1. Tpm > 0 => Recent(charged) + w <= Tpm - 1 + all  BY DEF TokInv
    <2>2. v <= w /\ v \in Nat /\ w \in Nat /\ all \in Nat
      BY <1>2, <1>4, Threads, Products
    <2>. HIDE DEF v, w, all
    <2>3. Tpm > 0 => Recent(charged)' + v <= Tpm - 1 + all  BY <1>7, <2>1, <2>2
    <2>. QED  BY <2>3 DEF TokInv, v, all
  <1>. QED  BY <1>9, <1>10

\* Its tokens are charged, and it is done.
LEMMA TokensCounted ==
    ASSUME IInv, ReqInv, TokInv, NEW t \in Thread, BumpTokens(t)
    PROVE  ReqInv' /\ TokInv'
  <1>. DEFINE c == thr[t].clk
              k == thr[t].tok
  <1>1. /\ c \in Seconds /\ thr[t].pc = "charge" /\ now' = now /\ admitted' = admitted
        /\ charged' = [charged EXCEPT ![c] = @ + k] /\ k \in Nat /\ k <= MaxTok
        /\ thr' = [thr EXCEPT ![t] = Idle]
    BY DEF BumpTokens, IInv, TypeOK, ClockInv, Seconds
  <1>2. Pending' \subseteq Pending /\ Working' = Working \ {t}
    <2>1. Idle.pc = "idle"  BY DEF Idle
    <2>2. Pending' = Pending \ {t} /\ Working' = Working \ {t}  BY <1>1, <2>1, Moved
    <2>. QED  BY <2>2
  <1>3. t \in Working  BY <1>1 DEF Working
  <1>4. Pending \subseteq Thread /\ Working \subseteq Thread /\ Pending' \subseteq Thread
    BY DEF Pending, Working
  <1>5. /\ Cardinality(Working') = Cardinality(Working) - 1 /\ Cardinality(Working') \in Nat
        /\ Cardinality(Working) \in Nat
    BY <1>2, <1>3, <1>4, Threads, Smaller
  <1>6. Recent(charged)' = Recent(charged) + k /\ Recent(charged) \in Int
    <2>1. Recent(charged)' = Recent([charged EXCEPT ![c] = @ + k])  BY <1>1 DEF Recent
    <2>2. charged \in [1..MaxTime -> Nat]  BY SecondsFinite
    <2>. HIDE DEF c, k
    <2>. QED  BY <1>1, <2>1, <2>2, CountedMore
  <1>7. Recent(admitted)' = Recent(admitted) /\ Recent(admitted) \in Int
    BY <1>1, RecentType DEF Recent
  <1>8. /\ Cardinality(Thread) \in Nat /\ Cardinality(Pending') <= Cardinality(Pending)
        /\ Cardinality(Pending') \in Nat /\ Cardinality(Pending) \in Nat
    BY <1>2, <1>4, Threads
  <1>9. ReqInv'  BY <1>7, <1>8 DEF ReqInv
  <1>10. TokInv'
    <2>. DEFINE w == Cardinality(Working) * MaxTok
                v == Cardinality(Working') * MaxTok
                all == Cardinality(Thread) * MaxTok
    <2>1. Tpm > 0 => Recent(charged) + w <= Tpm - 1 + all  BY DEF TokInv
    <2>2. w = v + MaxTok /\ v \in Nat /\ w \in Nat /\ all \in Nat
      <3>1. Cardinality(Working) = Cardinality(Working') + 1  BY <1>5
      <3>. QED  BY <1>5, <1>8, <3>1, Products
    <2>. HIDE DEF v, w, all
    <2>3. Tpm > 0 => Recent(charged)' + v <= Tpm - 1 + all  BY <1>1, <1>6, <2>1, <2>2
    <2>. QED  BY <2>3 DEF TokInv, v, all
  <1>. QED  BY <1>9, <1>10

\* Time only takes seconds out of the window.
LEMMA TimePasses ==
    ASSUME IInv, ReqInv, TokInv, Tick
    PROVE  ReqInv' /\ TokInv'
  <1>1. /\ UNCHANGED <<thr, admitted, charged>>
        /\ admitted \in [1..MaxTime -> Nat] /\ charged \in [1..MaxTime -> Nat]
        /\ admitted[now + 1] = 0 /\ charged[now + 1] = 0
    BY DEF Tick, hist, IInv, HistInv, TypeOK
  <1>2. /\ Recent(admitted)' <= Recent(admitted) /\ Recent(charged)' <= Recent(charged)
        /\ Recent(admitted)' \in Int /\ Recent(charged)' \in Int
    BY <1>1, TickForgets
  <1>3. Pending' \subseteq Pending /\ Working' \subseteq Working  BY <1>1 DEF Pending, Working
  <1>. QED  BY <1>2, <1>3, NobodyNew
LEMMA LimitsStep == ASSUME IInv, ReqInv, TokInv, [Next]_vars PROVE ReqInv' /\ TokInv'
  <1>1. ASSUME NEW t \in Thread, NEW x, thr' = [thr EXCEPT ![t] = x],
               UNCHANGED <<admitted, charged, now>>,
               \/ x.pc \notin {"pass", "bump", "infer", "charge"}
               \/ x.pc \notin {"pass", "bump"} /\ thr[t].pc \in {"infer", "charge"}
               \/ thr[t].pc \in {"pass", "bump"}
        PROVE  ReqInv' /\ TokInv'
    <2>1. Pending' \subseteq Pending /\ Working' \subseteq Working
      <3>1. CASE x.pc \notin {"pass", "bump", "infer", "charge"}
        <4>1. Pending' = Pending \ {t} /\ Working' = Working \ {t}  BY <1>1, <3>1, Moved
        <4>. QED  BY <4>1
      <3>2. CASE x.pc \notin {"pass", "bump"} /\ thr[t].pc \in {"infer", "charge"}
        <4>1. Pending' = Pending \ {t} /\ Working' \subseteq Working  BY <1>1, <3>2, Moved
        <4>. QED  BY <4>1
      <3>3. CASE thr[t].pc \in {"pass", "bump"}  BY <1>1, <3>3, Moved
      <3>. QED  BY <1>1, <3>1, <3>2, <3>3
    <2>. QED  BY <1>1, <2>1, QuietStep
  <1>2. ASSUME NEW t \in Thread, Arrive(t) PROVE ReqInv' /\ TokInv'
    <2>. DEFINE x == [thr[t] EXCEPT !.pc = "scan", !.clk = now]
    <2>1. thr' = [thr EXCEPT ![t] = x] /\ x.pc = "scan" /\ UNCHANGED <<admitted, charged, now>>
      BY <1>2 DEF Arrive, ReadClock, hist, IInv, TypeOK
    <2>. HIDE DEF x
    <2>. QED  BY <1>1, <2>1
  <1>3. ASSUME NEW t \in Thread, BumpReqClock(t) PROVE ReqInv' /\ TokInv'
    <2>. DEFINE x == [thr[t] EXCEPT !.pc = "bump", !.clk = now]
    <2>1. thr' = [thr EXCEPT ![t] = x] /\ thr[t].pc = "pass" /\ UNCHANGED <<admitted, charged, now>>
      BY <1>3 DEF BumpReqClock, ReadClock, hist, IInv, TypeOK
    <2>. HIDE DEF x
    <2>. QED  BY <1>1, <2>1
  <1>4. ASSUME NEW t \in Thread, Fail(t) PROVE ReqInv' /\ TokInv'
    <2>1. thr' = [thr EXCEPT ![t] = Idle] /\ Idle.pc = "idle" /\ UNCHANGED <<admitted, charged, now>>
      BY <1>4 DEF Fail, Idle, hist
    <2>. QED  BY <1>1, <2>1
  <1>5. ASSUME NEW t \in Thread, NEW n \in 1..MaxTok, BumpTokensClock(t, n) PROVE ReqInv' /\ TokInv'
    <2>. DEFINE x == [pc |-> "charge", clk |-> now, tok |-> n]
    <2>1. /\ thr' = [thr EXCEPT ![t] = x] /\ x.pc = "charge" /\ thr[t].pc = "infer"
          /\ UNCHANGED <<admitted, charged, now>>
      BY <1>5 DEF BumpTokensClock, hist
    <2>. HIDE DEF x
    <2>. QED  BY <1>1, <2>1
  <1>6. ASSUME NEW t \in Thread, Scan(t) PROVE ReqInv' /\ TokInv'  BY <1>6, LetIn
  <1>7. ASSUME NEW t \in Thread, BumpReq(t) PROVE ReqInv' /\ TokInv'  BY <1>7, ReqCounted
  <1>8. ASSUME NEW t \in Thread, BumpTokens(t) PROVE ReqInv' /\ TokInv'  BY <1>8, TokensCounted
  <1>9. CASE Tick  BY <1>9, TimePasses
  <1>10. CASE UNCHANGED vars
    <2>1. Pending' \subseteq Pending /\ Working' \subseteq Working  BY <1>10 DEF vars, Pending, Working
    <2>. QED  BY <1>10, <2>1, QuietStep DEF vars
  <1>. QED  BY <1>2, <1>3, <1>4, <1>5, <1>6, <1>7, <1>8, <1>9, <1>10 DEF Next

LEMMA LimitsInit == ASSUME Init PROVE ReqInv /\ TokInv
  <1>1. Pending = {} /\ Working = {}  BY DEF Init, Idle, Pending, Working
  <1>2. Recent(admitted) = 0 /\ Recent(charged) = 0
    <2>1. Seconds = {1}  BY DEF Init, Seconds
    <2>2. /\ IsFiniteSet({1}) /\ IsFiniteSet({}) /\ {1} \ {1} = {}
          /\ admitted[1] = 0 /\ charged[1] = 0
      <3>1. IsFiniteSet({1}) /\ IsFiniteSet({}) /\ {1} \ {1} = {}  BY FS_Singleton, FS_EmptySet
      <3>2. 1 \in 1..MaxTime  OBVIOUS
      <3>3. admitted[1] = 0 /\ charged[1] = 0  BY <3>2 DEF Init
      <3>. QED  BY <3>1, <3>3
    <2>3. SumFunctionOnSet(admitted, {}) = 0 /\ SumFunctionOnSet(charged, {}) = 0
      BY <2>2, SumOver
    <2>4. SumFunctionOnSet(admitted, {1}) = 0 + 0 /\ SumFunctionOnSet(charged, {1}) = 0 + 0
      BY <2>2, <2>3, SumOver
    <2>. QED  BY <2>1, <2>4 DEF Recent, Seconds
  <1>3. Cardinality({}) = 0 /\ Cardinality(Thread) \in Nat  BY FS_EmptySet, FS_CardinalityType
  <1>4. ReqInv  BY <1>1, <1>2, <1>3 DEF ReqInv
  <1>5. TokInv
    <2>1. Cardinality(Thread) * MaxTok \in Nat /\ 0 * MaxTok = 0  BY <1>3, Products
    <2>. QED  BY <1>1, <1>2, <1>3, <2>1 DEF TokInv
  <1>. QED  BY <1>4, <1>5

LEMMA LimitsKept == ASSUME IInv, ReqInv, TokInv PROVE OverrunBounded
  <1>1. Pending \subseteq Thread /\ Working \subseteq Thread  BY DEF Pending, Working
  <1>2. Cardinality(Pending) \in Nat /\ Cardinality(Working) \in Nat /\ Cardinality(Thread) \in Nat
    BY <1>1, Threads
  <1>3. Recent(admitted) \in Int /\ Recent(charged) \in Int  BY RecentType
  <1>4. Rpm > 0 => Recent(admitted) <= Rpm + Cardinality(Thread) - 1
    BY <1>2, <1>3 DEF ReqInv
  <1>5. Tpm > 0 => Recent(charged) <= Tpm - 1 + Cardinality(Thread) * MaxTok
    <2>. DEFINE w == Cardinality(Working) * MaxTok
                all == Cardinality(Thread) * MaxTok
    <2>1. Tpm > 0 => Recent(charged) + w <= Tpm - 1 + all  BY DEF TokInv
    <2>2. w \in Nat /\ all \in Nat  BY <1>2, Products
    <2>. HIDE DEF w, all
    <2>3. Tpm > 0 => Recent(charged) <= Tpm - 1 + all  BY <1>3, <2>1, <2>2
    <2>. QED  BY <2>3 DEF all
  <1>. QED  BY <1>4, <1>5 DEF OverrunBounded

\* However requests interleave between the scan that admits them and the two counts
\* (http_reject_if_rate_limited, rl_bump_req, rl_bump_tokens), the limits are exceeded by
\* less than one request and by at most one answer per connection thread.
THEOREM LimitsHold == Spec => []OverrunBounded
  <1>1. Init => IInv /\ ReqInv /\ TokInv  BY InitInv, LimitsInit
  <1>2. IInv /\ ReqInv /\ TokInv /\ [Next]_vars => IInv' /\ ReqInv' /\ TokInv'
    BY NextInv, LimitsStep
  <1>3. IInv /\ ReqInv /\ TokInv => OverrunBounded  BY LimitsKept
  <1>. QED  BY <1>1, <1>2, <1>3, PTL DEF Spec
=============================================================================
