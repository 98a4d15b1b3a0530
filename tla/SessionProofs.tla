--------------------------- MODULE SessionProofs ---------------------------
(***************************************************************************)
(* Proofs about SessionKV: what the server remembers of a session, what    *)
(* its requests say and what the rank has cached, for any keys, prompts,   *)
(* answers and sizes.                                                      *)
(***************************************************************************)
EXTENDS SessionKV, TLAPS, SequenceTheorems, FiniteSetTheorems, WellFoundedInduction

-----------------------------------------------------------------------------
(* Sequences.                                                              *)

\* u is where v starts; u and v are the same as far as both go.
Prefix(u, v) == Len(u) <= Len(v) /\ \A i \in 1 .. Len(u) : u[i] = v[i]
Agrees(u, v) == \A i \in 1 .. Len(u) : i <= Len(v) => u[i] = v[i]

LEMMA TakeProperties ==
    ASSUME NEW S, NEW q \in Seq(S), NEW n \in 0 .. Len(q)
    PROVE  /\ Take(q, n) \in Seq(S) /\ Len(Take(q, n)) = n
           /\ \A i \in 1 .. n : Take(q, n)[i] = q[i]
  <1>1. \A i \in 1 .. n : q[i] \in S  OBVIOUS
  <1>. QED  BY <1>1, SubSeqProperties DEF Take

LEMMA DropProperties ==
    ASSUME NEW S, NEW q \in Seq(S), NEW n \in 0 .. Len(q)
    PROVE  /\ Drop(q, n) \in Seq(S) /\ Len(Drop(q, n)) = Len(q) - n
           /\ \A i \in 1 .. (Len(q) - n) : Drop(q, n)[i] = q[n + i]
  <1>1. \A i \in (n + 1) .. Len(q) : q[i] \in S  OBVIOUS
  <1>. QED  BY <1>1, SubSeqProperties DEF Drop

\* The start and the rest are the whole.
LEMMA TakeDrop ==
    ASSUME NEW S, NEW q \in Seq(S), NEW n \in 0 .. Len(q)
    PROVE  Take(q, n) \o Drop(q, n) = q
  <1>. DEFINE t == Take(q, n)
              d == Drop(q, n)
  <1>1. t \in Seq(S) /\ Len(t) = n /\ \A i \in 1 .. n : t[i] = q[i]  BY TakeProperties
  <1>2. d \in Seq(S) /\ Len(d) = Len(q) - n /\ \A i \in 1 .. (Len(q) - n) : d[i] = q[n + i]
    BY DropProperties
  <1>. HIDE DEF t, d
  <1>3. t \o d \in Seq(S) /\ Len(t \o d) = Len(q)
        /\ \A i \in 1 .. Len(q) : (t \o d)[i] = IF i <= n THEN t[i] ELSE d[i - n]
    BY <1>1, <1>2, ConcatProperties
  <1>4. \A i \in 1 .. Len(q) : (t \o d)[i] = q[i]
    <2>. SUFFICES ASSUME NEW i \in 1 .. Len(q) PROVE (t \o d)[i] = q[i]  OBVIOUS
    <2>1. CASE i <= n  BY <2>1, <1>1, <1>3
    <2>2. CASE ~(i <= n)
      <3>1. i - n \in 1 .. (Len(q) - n) /\ n + (i - n) = i  BY <2>2
      <3>. QED  BY <2>2, <3>1, <1>2, <1>3
    <2>. QED  BY <2>1, <2>2
  <1>. QED  BY <1>3, <1>4, SeqEqual DEF t, d

\* Same length, same elements.
LEMMA PrefixOfSameLength ==
    ASSUME NEW S, NEW u \in Seq(S), NEW v \in Seq(S), Prefix(u, v), Len(u) = Len(v)
    PROVE  u = v
  BY SeqEqual DEF Prefix

\* A bounded set of numbers has a greatest one.
LEMMA Greatest ==
    ASSUME NEW b \in Nat, NEW A \in SUBSET (0 .. b), A # {}
    PROVE  \E n \in A : \A m \in A : m <= n
  <1>. DEFINE B == {m \in 0 .. b : b - m \in A}
  <1>1. B # {}
    <2>1. PICK n \in A : TRUE  OBVIOUS
    <2>2. b - n \in 0 .. b /\ b - (b - n) = n  OBVIOUS
    <2>. QED  BY <2>1, <2>2
  <1>. DEFINE R == OpToRel(<, Nat)
  <1>a. IsWellFoundedOn(R, Nat)  BY NatLessThanWellFounded
  <1>b. \A x, y \in Nat : y < x => <<y, x>> \in R  BY DEF OpToRel
  <1>c. B \subseteq Nat  OBVIOUS
  <1>. HIDE DEF R
  <1>2. PICK x \in B : \A y \in B : ~(<<y, x>> \in R)
    <2>. HIDE DEF B
    <2>. QED  BY <1>1, <1>a, <1>c, WFMin
  <1>3. \A y \in B : ~(y < x)
    <2>. HIDE DEF B
    <2>. QED  BY <1>2, <1>b, <1>c
  <1>4. \A m \in A : m <= b - x
    <2>. SUFFICES ASSUME NEW m \in A PROVE m <= b - x  OBVIOUS
    <2>1. b - m \in 0 .. b /\ b - (b - m) = m  OBVIOUS
    <2>2. ~(b - m < x)  BY <2>1, <1>3
    <2>. QED  BY <2>1, <2>2
  <1>. QED  BY <1>4

\* sess_lcp: a common prefix.
LEMMA LcpProperties ==
    ASSUME NEW S, NEW v \in Seq(S), NEW r \in Seq(S)
    PROVE  /\ Lcp(v, r) \in 0 .. Len(v) /\ Lcp(v, r) \in 0 .. Len(r)
           /\ Take(v, Lcp(v, r)) = Take(r, Lcp(v, r))
  <1>. DEFINE vn == IF v # <<>> /\ v[Len(v)] = Eos THEN Len(v) - 1 ELSE Len(v)
              b == Least(vn, Len(r))
              agree == {n \in 0 .. b : Take(v, n) = Take(r, n)}
  <1>1. Len(v) \in Nat /\ Len(r) \in Nat /\ (v # <<>> => Len(v) > 0)  BY EmptySeq
  <1>2. vn \in 0 .. Len(v)  BY <1>1
  <1>3. b \in Nat /\ b <= vn /\ b <= Len(r)  BY <1>1, <1>2 DEF Least
  <1>4. Take(v, 0) = <<>> /\ Take(r, 0) = <<>>  BY SubSeqEmpty DEF Take
  <1>5. 0 \in agree /\ agree \in SUBSET (0 .. b)  BY <1>3, <1>4
  <1>6. \E n \in agree : \A m \in agree : m <= n
    <2>. HIDE DEF agree, b
    <2>. QED  BY <1>3, <1>5, Greatest
  <1>7. Lcp(v, r) = CHOOSE n \in agree : \A m \in agree : m <= n  BY DEF Lcp
  <1>8. Lcp(v, r) \in agree
    <2>. HIDE DEF agree
    <2>. QED  BY <1>6, <1>7
  <1>. QED  BY <1>2, <1>3, <1>8

-----------------------------------------------------------------------------
(* Types.                                                                  *)

Entry == Keys \X Seq(Token)
File == Seq(Token) \cup {None, Bad}
Request == [st : {"idle", "wait", "err", "rebuild", "done"}, key : Keys \cup {None},
            full : Seq(Token), tokens : Seq(Token), resume : Nat, sent : BOOLEAN,
            replay : BOOLEAN, retry : Nat, gen : Seq(Token)]
Job == [srv : Srv \cup {None}, key : Keys, resume : Nat,
        delta : Seq(Token), prompt : Seq(Token)]
Thread == [pc : {"idle", "engine", "save"}, job : Job \cup {NoJob},
           ctx : Seq(Token), gen : Seq(Token)]

TypeInv ==
    /\ mode \in Modes
    /\ sess \in [Srv -> Seq(Entry)]
    /\ req \in [Srv -> Request]
    /\ sessFile \in [Keys -> File] /\ kvFile \in [Keys -> File]
    /\ jobs \in Seq(Job)
    /\ wk \in [Worker -> Thread]
    /\ cache_key \in Keys \cup {None} /\ kv \in Seq(Token)

\* A key has one entry.
Unique == \A s \in Srv : \A i, j \in 1 .. Len(sess[s]) :
              sess[s][i][1] = sess[s][j][1] => i = j

\* The session of a request stays in the table until the request ends.
Kept == \A s \in Srv : req[s].st # "idle" => Known(s, req[s].key)

Busy(w) == wk[w].pc # "idle"

\* A request that waits has at most one job, a full resend asks for no cached
\* rows, and who does not wait has no job: what FullResendTaken rests on.
LiveInv ==
    /\ \A m \in 1 .. Len(jobs) : jobs[m].srv # None =>
          /\ req[jobs[m].srv].st = "wait"
          /\ req[jobs[m].srv].sent => jobs[m].resume = 0
          /\ \A n \in 1 .. Len(jobs) : jobs[n].srv = jobs[m].srv => m = n
    /\ \A w \in Worker : wk[w].job.srv # None =>
          /\ Busy(w) /\ req[wk[w].job.srv].st = "wait"
          /\ \A n \in 1 .. Len(jobs) : jobs[n].srv # wk[w].job.srv
          /\ \A v \in Worker : wk[v].job.srv = wk[w].job.srv => v = w
    /\ FullResendTaken

TableInv == TypeInv /\ Unique /\ Kept /\ LiveInv

LEMMA Values ==
    /\ None \notin Srv /\ None \notin Keys /\ Eos \in Token
    /\ \A p \in Prompts : p \in Seq(Token) /\ Len(p) \in Nat \ {0}
    /\ \A g \in Gens : g \in Seq(Token)
    /\ SessCap \in Nat \ {0} /\ IsFiniteSet(Keys)
    /\ \A m \in Modes : m.maxSeq \in Nat /\ m.cacheDir \in BOOLEAN
  <1>1. Eos \in Token  BY DEF Token
  <1>2. \A p \in Prompts : p \in Seq(Token) /\ Len(p) \in Nat \ {0}
    BY SessionAssumption
  <1>3. \A m \in Modes : m.maxSeq \in Nat /\ m.cacheDir \in BOOLEAN
    BY SessionAssumption DEF Mode
  <1>. QED  BY <1>1, <1>2, <1>3, SessionAssumption

\* The name of a file and the rank's key are keys.
LEMMA Names ==
    \A k \in Keys : FileName[k] \in Keys /\ RankKey[k] \in Keys
                   /\ SessName(k) = FileName[k] /\ KvName(k) = FileName[RankKey[k]]
  BY SessionAssumption DEF SessName, KvName

\* The entry of a key.
LEMMA KnownEntry ==
    ASSUME TypeInv, NEW s \in Srv, NEW k, Known(s, k)
    PROVE  /\ Pos(s, k) \in 1 .. Len(sess[s]) /\ sess[s][Pos(s, k)][1] = k
           /\ k \in Keys /\ Toks(s, k) \in Seq(Token)
           /\ sess[s][Pos(s, k)] = <<k, Toks(s, k)>>
  <1>1. Pos(s, k) \in 1 .. Len(sess[s]) /\ sess[s][Pos(s, k)][1] = k
    BY DEF Known, Pos
  <1>2. sess[s][Pos(s, k)] \in Entry  BY <1>1, ElementOfSeq DEF TypeInv
  <1>. QED  BY <1>1, <1>2 DEF Entry, Toks

\* The entry at a position is that of its key.
LEMMA EntryKnown ==
    ASSUME TypeInv, Unique, NEW s \in Srv, NEW i \in 1 .. Len(sess[s])
    PROVE  /\ Known(s, sess[s][i][1]) /\ sess[s][i][1] \in Keys
           /\ Toks(s, sess[s][i][1]) = sess[s][i][2]
  <1>1. Known(s, sess[s][i][1])  BY DEF Known
  <1>2. Pos(s, sess[s][i][1]) = i  BY <1>1, KnownEntry DEF Unique
  <1>. QED  BY <1>1, <1>2, KnownEntry DEF Toks

\* What Put leaves of a table: all entries but at most one, in their order; the
\* one is that of the key or, if the table is full, the oldest.
LEMMA PutRoom ==
    ASSUME TypeInv, NEW s \in Srv, NEW k \in Keys, NEW v \in Seq(Token)
    PROVE  \E room \in Seq(Entry), p \in Nat, c \in {0, 1} :
              /\ Put(s, k, v) = [sess EXCEPT ![s] = Append(room, <<k, v>>)]
              /\ Len(room) = Len(sess[s]) - c
              /\ \A i \in 1 .. Len(room) :
                    room[i] = sess[s][IF i < p THEN i ELSE i + c]
              /\ Known(s, k) => c = 1 /\ p = Pos(s, k)
              /\ ~Known(s, k) /\ Len(sess[s]) < SessCap => c = 0
  <1>. DEFINE q == sess[s]
              n == Pos(s, k)
              d == IF Len(sess[s]) >= SessCap THEN 1 ELSE 0
  <1>1. q \in Seq(Entry) /\ Len(q) \in Nat /\ SessCap \in Nat \ {0}
    BY Values DEF TypeInv
  <1>2. CASE Known(s, k)
    <2>. DEFINE t == Take(q, n - 1)
                u == Drop(q, n)
    <2>1. n \in 1 .. Len(q)  BY <1>2, KnownEntry
    <2>0. n - 1 \in 0 .. Len(q) /\ n \in 0 .. Len(q)  BY <2>1
    <2>2. t \in Seq(Entry) /\ Len(t) = n - 1 /\ \A i \in 1 .. (n - 1) : t[i] = q[i]
      <3>. HIDE DEF n, q
      <3>. QED  BY <1>1, <2>0, TakeProperties
    <2>3. u \in Seq(Entry) /\ Len(u) = Len(q) - n
          /\ \A i \in 1 .. (Len(q) - n) : u[i] = q[n + i]
      <3>. HIDE DEF n, q
      <3>. QED  BY <1>1, <2>0, DropProperties
    <2>4. Put(s, k, v) = [sess EXCEPT ![s] = Append(t \o u, <<k, v>>)]
      BY <1>2 DEF Put
    <2>. HIDE DEF t, u, q, n
    <2>5. t \o u \in Seq(Entry) /\ Len(t \o u) = Len(q) - 1
          /\ \A i \in 1 .. (Len(q) - 1) : (t \o u)[i] = IF i <= n - 1 THEN t[i] ELSE u[i - (n - 1)]
      <3>1. t \o u \in Seq(Entry) /\ Len(t \o u) = Len(t) + Len(u)
            /\ \A i \in 1 .. (Len(t) + Len(u)) :
                  (t \o u)[i] = IF i <= Len(t) THEN t[i] ELSE u[i - Len(t)]
        BY <2>2, <2>3, ConcatProperties
      <3>2. Len(t) = n - 1 /\ Len(t) + Len(u) = Len(q) - 1  BY <1>1, <2>1, <2>2, <2>3
      <3>. QED  BY <3>1, <3>2
    <2>6. \A i \in 1 .. Len(t \o u) : (t \o u)[i] = q[IF i < n THEN i ELSE i + 1]
      <3>. SUFFICES ASSUME NEW i \in 1 .. (Len(q) - 1)
                    PROVE  (t \o u)[i] = q[IF i < n THEN i ELSE i + 1]
        BY <2>5
      <3>1. CASE i < n  BY <3>1, <2>1, <2>2, <2>5
      <3>2. CASE ~(i < n)
        <4>1. i - (n - 1) \in 1 .. (Len(q) - n) /\ n + (i - (n - 1)) = i + 1
          BY <3>2, <2>1, <1>1
        <4>. QED  BY <3>2, <4>1, <2>1, <2>3, <2>5
      <3>. QED  BY <3>1, <3>2
    <2>7. n \in Nat  BY <2>1
    <2>. QED  BY <1>2, <2>4, <2>5, <2>6, <2>7 DEF q, n
  <1>3. CASE ~Known(s, k)
    <2>. DEFINE u == Drop(q, d)
    <2>1. d \in {0, 1} /\ d \in 0 .. Len(q)  BY <1>1
    <2>2. u \in Seq(Entry) /\ Len(u) = Len(q) - d
          /\ \A i \in 1 .. (Len(q) - d) : u[i] = q[d + i]
      BY <1>1, <2>1, DropProperties
    <2>3. Put(s, k, v) = [sess EXCEPT ![s] = Append(u, <<k, v>>)]
      BY <1>3 DEF Put
    <2>4. Len(sess[s]) < SessCap => d = 0  BY <1>1
    <2>. HIDE DEF u, d
    <2>5. \A i \in 1 .. Len(u) : u[i] = q[IF i < 1 THEN i ELSE i + d]
      BY <2>1, <2>2, <1>1
    <2>6. 1 \in Nat /\ ~(Known(s, k))  BY <1>3
    <2>. QED  BY <2>1, <2>2, <2>3, <2>4, <2>5, <2>6
  <1>. QED  BY <1>2, <1>3

\* sess_put: the key has the new tokens, the others keep theirs or, if the table
\* is full, one of them is given up.
LEMMA PutProperties ==
    ASSUME TypeInv, Unique, NEW s \in Srv, NEW k \in Keys, NEW v \in Seq(Token),
           sess' = Put(s, k, v)
    PROVE  /\ sess' \in [Srv -> Seq(Entry)] /\ Unique'
           /\ \A t \in Srv \ {s} : sess'[t] = sess[t]
           /\ Known(s, k)' /\ Toks(s, k)' = v
           /\ \A j \in Keys \ {k} : Known(s, j)' => Known(s, j) /\ Toks(s, j)' = Toks(s, j)
           /\ Known(s, k) \/ Len(sess[s]) < SessCap =>
                 \A j \in Keys : Known(s, j) => Known(s, j)'
  <1>. DEFINE q == sess[s]
              e == <<k, v>>
  <1>1. q \in Seq(Entry) /\ Len(q) \in Nat /\ e \in Entry  BY DEF TypeInv, Entry
  <1>2. PICK room \in Seq(Entry), p \in Nat, c \in {0, 1} :
              /\ Put(s, k, v) = [sess EXCEPT ![s] = Append(room, e)]
              /\ Len(room) = Len(q) - c
              /\ \A i \in 1 .. Len(room) : room[i] = q[IF i < p THEN i ELSE i + c]
              /\ Known(s, k) => c = 1 /\ p = Pos(s, k)
              /\ ~Known(s, k) /\ Len(q) < SessCap => c = 0
    BY PutRoom, Zenon
  <1>. DEFINE new == Append(room, e)
              f(i) == IF i < p THEN i ELSE i + c
              n == Len(room)
  <1>3. new \in Seq(Entry) /\ Len(new) = n + 1 /\ new[n + 1] = e
        /\ \A i \in 1 .. n : new[i] = room[i]
    BY <1>1, AppendProperties
  <1>4. sess' = [sess EXCEPT ![s] = new]  BY <1>2
  <1>5. sess' \in [Srv -> Seq(Entry)]  BY <1>3, <1>4 DEF TypeInv
  <1>6. sess'[s] = new /\ \A t \in Srv \ {s} : sess'[t] = sess[t]  BY <1>4 DEF TypeInv
  <1>. HIDE DEF new
  <1>7. n \in Nat /\ n = Len(q) - c  BY <1>2
  <1>8. \A i \in 1 .. n : f(i) \in 1 .. Len(q) /\ new[i] = q[f(i)]
    <2>1. \A i \in 1 .. n : new[i] = q[f(i)]  BY <1>2, <1>3
    <2>2. \A i \in 1 .. n : f(i) \in 1 .. Len(q)  BY <1>1, <1>7
    <2>. QED  BY <2>1, <2>2
  \* What is left is of other keys.
  <1>9. \A i \in 1 .. n : q[f(i)][1] # k
    <2>. SUFFICES ASSUME NEW i \in 1 .. n, q[f(i)][1] = k PROVE FALSE  OBVIOUS
    <2>1. f(i) \in 1 .. Len(q) /\ Known(s, k)  BY <1>8 DEF Known
    <2>2. p = Pos(s, k) /\ c = 1 /\ Pos(s, k) \in 1 .. Len(q) /\ q[Pos(s, k)][1] = k
      BY <1>2, <2>1, KnownEntry
    <2>3. f(i) = p  BY <2>1, <2>2 DEF Unique
    <2>. QED  BY <2>2, <2>3
  <1>10. \A i, j \in 1 .. n : f(i) = f(j) => i = j  BY <1>7
  <1>11. \A i, j \in 1 .. (n + 1) : new[i][1] = new[j][1] => i = j
    <2>. SUFFICES ASSUME NEW i \in 1 .. (n + 1), NEW j \in 1 .. (n + 1), new[i][1] = new[j][1]
                  PROVE  i = j
      OBVIOUS
    <2>1. CASE i \in 1 .. n /\ j \in 1 .. n
      <3>0. /\ f(i) \in 1 .. Len(q) /\ f(j) \in 1 .. Len(q)
            /\ q[f(i)][1] = q[f(j)][1]
        BY <2>1, <1>8
      <3>1. f(i) = f(j)
        <4>. HIDE DEF f
        <4>. QED  BY <3>0 DEF Unique
      <3>. QED  BY <2>1, <3>1, <1>10
    <2>2. new[n + 1][1] = k /\ \A m \in 1 .. n : new[m][1] # k  BY <1>3, <1>8, <1>9
    <2>3. CASE i = n + 1 \/ j = n + 1
      <3>1. i = n + 1 \/ i \in 1 .. n  BY <1>7
      <3>2. j = n + 1 \/ j \in 1 .. n  BY <1>7
      <3>. HIDE DEF n, f
      <3>. QED  BY <2>2, <2>3, <3>1, <3>2
    <2>. QED  BY <2>1, <2>3, <1>7
  <1>12. Unique'
    <2>. SUFFICES ASSUME NEW t \in Srv, NEW i \in 1 .. Len(sess'[t]), NEW j \in 1 .. Len(sess'[t]),
                         sess'[t][i][1] = sess'[t][j][1]
                  PROVE  i = j
      BY DEF Unique
    <2>1. CASE t = s  BY <2>1, <1>3, <1>6, <1>11
    <2>2. CASE t # s  BY <2>2, <1>6 DEF Unique
    <2>. QED  BY <2>1, <2>2
  \* Positions in the new table.
  <1>13. ASSUME NEW j, NEW i \in 1 .. (n + 1), new[i][1] = j
         PROVE  Known(s, j)' /\ Toks(s, j)' = new[i][2]
    <2>1. Known(s, j)'  BY <1>13, <1>3, <1>6 DEF Known
    <2>2. Pos(s, j)' \in 1 .. (n + 1) /\ new[Pos(s, j)'][1] = j
      BY <2>1, <1>3, <1>6 DEF Known, Pos
    <2>3. Pos(s, j)' = i  BY <2>2, <1>13, <1>11
    <2>. QED  BY <2>1, <2>3, <1>6 DEF Toks
  <1>14. Known(s, k)' /\ Toks(s, k)' = v
    <2>1. n + 1 \in 1 .. (n + 1) /\ new[n + 1][1] = k /\ new[n + 1][2] = v  BY <1>3, <1>7
    <2>. QED  BY <2>1, <1>13
  <1>15. ASSUME NEW j \in Keys \ {k}, Known(s, j)'
         PROVE  Known(s, j) /\ Toks(s, j)' = Toks(s, j)
    <2>1. PICK i \in 1 .. (n + 1) : new[i][1] = j  BY <1>15, <1>3, <1>6 DEF Known
    <2>2. i \in 1 .. n  BY <2>1, <1>3, <1>7
    <2>3. f(i) \in 1 .. Len(q) /\ q[f(i)][1] = j /\ new[i] = q[f(i)]  BY <2>1, <2>2, <1>8
    <2>4. Known(s, j) /\ Toks(s, j) = q[f(i)][2]  BY <2>3, EntryKnown
    <2>. QED  BY <2>1, <2>3, <2>4, <1>13
  <1>16. ASSUME Known(s, k) \/ Len(sess[s]) < SessCap, NEW j \in Keys, Known(s, j)
         PROVE  Known(s, j)'
    <2>1. CASE j = k  BY <2>1, <1>14
    <2>2. CASE j # k
      <3>. DEFINE m == Pos(s, j)
                  i == IF m < p THEN m ELSE m - c
      <3>1. m \in 1 .. Len(q) /\ q[m][1] = j  BY <1>16, KnownEntry
      <3>2. c = 0 \/ (p = Pos(s, k) /\ Pos(s, k) \in 1 .. Len(q) /\ q[Pos(s, k)][1] = k)
        BY <1>16, <1>2, KnownEntry
      <3>3. c = 0 \/ m # p  BY <2>2, <3>1, <3>2
      <3>. HIDE DEF m
      <3>4. i \in 1 .. n /\ f(i) = m  BY <3>1, <3>2, <3>3, <1>7
      <3>5. new[i][1] = j /\ i \in 1 .. (n + 1)  BY <3>1, <3>4, <1>7, <1>8
      <3>. QED  BY <3>5, <1>13
    <2>. QED  BY <2>1, <2>2
  <1>. QED  BY <1>5, <1>6, <1>12, <1>14, <1>15, <1>16

-----------------------------------------------------------------------------
(* Every step keeps TableInv.                                              *)

LEMMA Records == NoReq \in Request /\ Idle \in Thread
  <1>1. <<>> \in Seq(Token)  OBVIOUS
  <1>. QED  BY <1>1 DEF NoReq, Request, Idle, Thread

LEMMA JobTypes ==
    ASSUME TypeInv
    PROVE  /\ Len(jobs) \in Nat /\ DOMAIN jobs = 1 .. Len(jobs)
           /\ \A m \in 1 .. Len(jobs) :
                 jobs[m] \in Job /\ jobs[m].srv \in Srv \cup {None} /\ jobs[m].key \in Keys
           /\ \A w \in Worker : wk[w].job.srv \in Srv \cup {None}
  <1>1. jobs \in Seq(Job)  BY DEF TypeInv
  <1>2. \A m \in 1 .. Len(jobs) : jobs[m] \in Job  BY <1>1, ElementOfSeq
  <1>3. \A w \in Worker : wk[w].job.srv \in Srv \cup {None}
    BY DEF TypeInv, Thread, Job, NoJob
  <1>4. Len(jobs) \in Nat /\ DOMAIN jobs = 1 .. Len(jobs)  BY <1>1, LenProperties
  <1>. QED  BY <1>2, <1>3, <1>4 DEF Job

LEMMA RememberedType ==
    ASSUME TypeInv, NEW s \in Srv, NEW k \in Keys
    PROVE  Remembered(s, k) \in Seq(Token)
  <1>1. Known(s, k) => Toks(s, k) \in Seq(Token)  BY KnownEntry
  <1>2. <<>> \in Seq(Token) /\ SessName(k) \in Keys  BY Names
  <1>3. sessFile[SessName(k)] \in File  BY <1>2 DEF TypeInv
  <1>. QED  BY <1>1, <1>2, <1>3 DEF Remembered, IsFile, File

LEMMA SavedType ==
    ASSUME TypeInv, NEW k \in Keys
    PROVE  Saved(k) \in [Keys -> File]
  BY DEF TypeInv, Saved, File

LEMMA LoadedType ==
    ASSUME TypeInv, NEW j \in Job
    PROVE  /\ Loaded(j) \in Seq(Token) /\ Len(Loaded(j)) \in Nat /\ j.resume \in Nat
           /\ j.resume <= Len(Loaded(j)) =>
                 CutBack(j) \in Seq(Token) /\ Len(CutBack(j)) = j.resume
                 /\ \A i \in 1 .. j.resume : CutBack(j)[i] = Loaded(j)[i]
  <1>. DEFINE f == Saved(j.key)[FileName[j.key]]
              n == j.resume
  <1>1. f \in File /\ n \in Nat  BY SavedType, Names DEF Job
  <1>2. IsFile(f) => f \in Seq(Token)  BY <1>1 DEF IsFile, File
  <1>3. IsFile(f) /\ Len(f) >= n => Take(f, n) \in Seq(Token)
    <2>. HIDE DEF f, n
    <2>1. ASSUME IsFile(f), Len(f) >= n PROVE Take(f, n) \in Seq(Token)
      <3>1. f \in Seq(Token) /\ n \in 0 .. Len(f)  BY <2>1, <1>1, <1>2
      <3>. QED  BY <3>1, TakeProperties
    <2>. QED  BY <2>1
  <1>4. Loaded(j) \in Seq(Token)
    <2>1. kv \in Seq(Token) /\ <<>> \in Seq(Token)  BY DEF TypeInv
    <2>. QED  BY <2>1, <1>3 DEF Loaded
  <1>5. ASSUME n <= Len(Loaded(j))
        PROVE  Take(Loaded(j), n) \in Seq(Token) /\ Len(Take(Loaded(j), n)) = n
               /\ \A i \in 1 .. n : Take(Loaded(j), n)[i] = Loaded(j)[i]
    <2>1. n \in 0 .. Len(Loaded(j))  BY <1>1, <1>4, <1>5
    <2>. HIDE DEF n
    <2>. QED  BY <2>1, <1>4, TakeProperties
  <1>. QED  BY <1>1, <1>4, <1>5 DEF CutBack

\* Connect and send.
LEMMA SendProperties ==
    ASSUME TypeInv, NEW s \in Srv, NEW r \in Request, r.key \in Keys,
           NEW toks \in Seq(Token), Send(s, r, toks)
    PROVE  /\ req' \in [Srv -> Request] /\ jobs' \in Seq(Job)
           /\ JobOf(s, r, toks) \in Job
           /\ \A t \in Srv \ {s} : req'[t] = req[t]
           /\ \/ req'[s] = NoReq /\ jobs' = jobs
              \/ req'[s] = [r EXCEPT !.st = "err"] /\ jobs' = jobs
              \/ req'[s] = [r EXCEPT !.st = "wait"] /\ jobs' = Append(jobs, JobOf(s, r, toks))
  <1>1. JobOf(s, r, toks) \in Job
    <2>1. toks \o r.tokens \in Seq(Token)  BY ConcatProperties DEF Request
    <2>. QED  BY <2>1, Names DEF JobOf, Job, Request
  <1>2. Append(jobs, JobOf(s, r, toks)) \in Seq(Job)  BY <1>1, AppendProperties DEF TypeInv
  <1>3. NoReq \in Request /\ [r EXCEPT !.st = "err"] \in Request
        /\ [r EXCEPT !.st = "wait"] \in Request
    BY Records DEF Request
  <1>4. req \in [Srv -> Request] /\ jobs \in Seq(Job)  BY DEF TypeInv
  <1>. HIDE DEF Request, Job
  <1>5. CASE ~up
    <2>1. req' = [req EXCEPT ![s] = NoReq] /\ jobs' = jobs  BY <1>5 DEF Send
    <2>. QED  BY <2>1, <1>1, <1>3, <1>4
  <1>6. CASE up /\ Len(jobs) >= mode.jobCap
    <2>1. req' = [req EXCEPT ![s] = [r EXCEPT !.st = "err"]] /\ jobs' = jobs  BY <1>6 DEF Send
    <2>. QED  BY <2>1, <1>1, <1>3, <1>4
  <1>7. CASE up /\ ~(Len(jobs) >= mode.jobCap)
    <2>1. req' = [req EXCEPT ![s] = [r EXCEPT !.st = "wait"]]
          /\ jobs' = Append(jobs, JobOf(s, r, toks))
      BY <1>7 DEF Send
    <2>. QED  BY <2>1, <1>1, <1>2, <1>3, <1>4
  <1>. QED  BY <1>5, <1>6, <1>7

\* A server without a job sends one.
LEMMA SendLive ==
    ASSUME TypeInv, LiveInv, NEW s \in Srv, req[s].st # "wait",
           NEW r \in Request, r.key \in Keys, NEW toks \in Seq(Token),
           Send(s, r, toks), UNCHANGED wk
    PROVE  LiveInv'
  <1>. DEFINE j == JobOf(s, r, toks)
              n == Len(jobs)
  <1>1. /\ j \in Job /\ jobs' \in Seq(Job)
        /\ \A t \in Srv \ {s} : req'[t] = req[t]
        /\ \/ req'[s].st = "idle" /\ jobs' = jobs
           \/ req'[s].st = "err" /\ jobs' = jobs
           \/ req'[s].st = "wait" /\ req'[s].sent = r.sent /\ jobs' = Append(jobs, j)
    <2>1. /\ j \in Job /\ jobs' \in Seq(Job)
          /\ \A t \in Srv \ {s} : req'[t] = req[t]
          /\ \/ req'[s] = NoReq /\ jobs' = jobs
             \/ req'[s] = [r EXCEPT !.st = "err"] /\ jobs' = jobs
             \/ req'[s] = [r EXCEPT !.st = "wait"] /\ jobs' = Append(jobs, j)
      BY SendProperties
    <2>2. /\ NoReq.st = "idle" /\ [r EXCEPT !.st = "err"].st = "err"
          /\ [r EXCEPT !.st = "wait"].st = "wait" /\ [r EXCEPT !.st = "wait"].sent = r.sent
      BY DEF NoReq, Request
    <2>. HIDE DEF j
    <2>. QED  BY <2>1, <2>2
  <1>2. j.srv = s /\ (r.sent => j.resume = 0)  BY DEF JobOf
  <1>. HIDE DEF j
  <1>3. jobs \in Seq(Job) /\ n \in Nat /\ \A m \in 1 .. n : jobs[m].srv \in Srv \cup {None}
    <2>1. \A m \in 1 .. n : jobs[m] \in Job  BY ElementOfSeq DEF TypeInv
    <2>. QED  BY <2>1 DEF TypeInv, Job
  <1>4. \A m \in 1 .. n : jobs[m].srv # s  BY Values DEF LiveInv
  <1>5. \A w \in Worker : wk[w].job.srv # s /\ wk[w].job.srv \in Srv \cup {None}
    BY Values DEF LiveInv, TypeInv, Thread, Job, NoJob
  <1>6. FullResendTaken'  BY <1>1 DEF LiveInv, FullResendTaken
  <1>7. CASE jobs' = jobs  BY <1>7, <1>1, <1>3, <1>4, <1>5, <1>6 DEF LiveInv, Busy
  <1>8. CASE req'[s].st = "wait" /\ req'[s].sent = r.sent /\ jobs' = Append(jobs, j)
    <2>1. Len(jobs') = n + 1 /\ jobs'[n + 1] = j /\ \A m \in 1 .. n : jobs'[m] = jobs[m]
      BY <1>8, <1>1, <1>3, AppendProperties
    <2>2. ASSUME NEW m \in 1 .. Len(jobs'), jobs'[m].srv # None
          PROVE  /\ req'[jobs'[m].srv].st = "wait"
                 /\ req'[jobs'[m].srv].sent => jobs'[m].resume = 0
                 /\ \A i \in 1 .. Len(jobs') : jobs'[i].srv = jobs'[m].srv => m = i
      <3>1. CASE m = n + 1  BY <3>1, <2>1, <1>2, <1>3, <1>4, <1>8
      <3>2. CASE m \in 1 .. n
        <4>1. jobs[m].srv \in Srv \ {s}  BY <2>2, <3>2, <2>1, <1>3, <1>4
        <4>2. /\ req'[jobs[m].srv] = req[jobs[m].srv] /\ jobs[m].srv # None
              /\ jobs'[m] = jobs[m]
          BY <4>1, <3>2, <2>1, <2>2, <1>1
        <4>3. /\ req[jobs[m].srv].st = "wait"
              /\ req[jobs[m].srv].sent => jobs[m].resume = 0
              /\ \A i \in 1 .. n : jobs[i].srv = jobs[m].srv => m = i
          BY <3>2, <4>2 DEF LiveInv
        <4>4. \A i \in 1 .. Len(jobs') : i = n + 1 \/ i \in 1 .. n  BY <2>1, <1>3
        <4>. QED  BY <4>1, <4>2, <4>3, <4>4, <2>1, <1>2
      <3>. QED  BY <3>1, <3>2, <2>1, <1>3
    <2>3. ASSUME NEW w \in Worker, wk[w].job.srv # None
          PROVE  /\ Busy(w) /\ req'[wk[w].job.srv].st = "wait"
                 /\ \A i \in 1 .. Len(jobs') : jobs'[i].srv # wk[w].job.srv
                 /\ \A v \in Worker : wk[v].job.srv = wk[w].job.srv => v = w
      <3>1. wk[w].job.srv \in Srv \ {s}  BY <2>3, <1>5
      <3>2. /\ Busy(w) /\ req[wk[w].job.srv].st = "wait"
            /\ \A i \in 1 .. n : jobs[i].srv # wk[w].job.srv
            /\ \A v \in Worker : wk[v].job.srv = wk[w].job.srv => v = w
        BY <2>3 DEF LiveInv
      <3>3. \A i \in 1 .. Len(jobs') : i = n + 1 \/ i \in 1 .. n  BY <2>1, <1>3
      <3>. QED  BY <3>1, <3>2, <3>3, <2>1, <1>1, <1>2
    <2>. QED  BY <2>2, <2>3, <1>6 DEF LiveInv, Busy
  <1>. QED  BY <1>1, <1>7, <1>8

\* A table that is changed by sess_put, and a request for that key.
LEMMA PutKept ==
    ASSUME TypeInv, Unique, Kept, NEW s \in Srv, NEW k \in Keys, NEW v \in Seq(Token),
           sess' = Put(s, k, v), \A t \in Srv \ {s} : req'[t] = req[t],
           req'[s].st # "idle" => req'[s].key = k
    PROVE  Kept'
  <1>1. Known(s, k)' /\ \A t \in Srv \ {s} : sess'[t] = sess[t]  BY PutProperties
  <1>. SUFFICES ASSUME NEW t \in Srv, req'[t].st # "idle" PROVE Known(t, req[t].key)'
    BY DEF Kept
  <1>2. CASE t = s  BY <1>1, <1>2
  <1>3. CASE t # s
    <2>1. Known(t, req[t].key)  BY <1>3 DEF Kept
    <2>2. req'[t] = req[t] /\ sess'[t] = sess[t]  BY <1>1, <1>3
    <2>. QED  BY <2>1, <2>2 DEF Known
  <1>. QED  BY <1>2, <1>3

\* What a request of session k starts from: the rows in common, the point to go on
\* from, the request.
Common(s, k, full) == Lcp(Remembered(s, k), full)
From(s, k, full) ==
    IF Common(s, k, full) = Len(full) THEN Common(s, k, full) - 1 ELSE Common(s, k, full)
Fresh(s, k, full) ==
    [NoReq EXCEPT !.key = k, !.full = full, !.resume = From(s, k, full),
                  !.tokens = Drop(full, From(s, k, full)),
                  !.replay = (Common(s, k, full) = Len(full))]
Cut(s, k, full) == Take(Remembered(s, k), Common(s, k, full))

LEMMA StartFacts ==
    ASSUME TypeInv, NEW s \in Srv, NEW k \in Keys, NEW full \in Prompts
    PROVE  /\ Remembered(s, k) \in Seq(Token) /\ full \in Seq(Token)
           /\ Common(s, k, full) \in 0 .. Len(Remembered(s, k))
           /\ Common(s, k, full) \in 0 .. Len(full)
           /\ Cut(s, k, full) = Take(full, Common(s, k, full))
           /\ Cut(s, k, full) \in Seq(Token) /\ Len(Cut(s, k, full)) = Common(s, k, full)
           /\ From(s, k, full) \in 0 .. Len(full)
           /\ Fresh(s, k, full) \in Request
           /\ Fresh(s, k, full).key = k /\ ~Fresh(s, k, full).sent
           /\ Fresh(s, k, full).full = full /\ Fresh(s, k, full).resume = From(s, k, full)
           /\ Fresh(s, k, full).tokens = Drop(full, From(s, k, full))
           /\ Fresh(s, k, full).replay = (Common(s, k, full) = Len(full))
  <1>. DEFINE toks == Remembered(s, k)
              lcp == Common(s, k, full)
              resume == From(s, k, full)
  <1>1. toks \in Seq(Token)  BY RememberedType
  <1>2. full \in Seq(Token) /\ Len(full) \in Nat \ {0}  BY Values
  <1>3. lcp \in 0 .. Len(toks) /\ lcp \in 0 .. Len(full) /\ Take(toks, lcp) = Take(full, lcp)
    BY <1>1, <1>2, LcpProperties DEF Common
  <1>4. Take(toks, lcp) \in Seq(Token) /\ Len(Take(toks, lcp)) = lcp
    <2>. HIDE DEF toks, lcp
    <2>. QED  BY <1>1, <1>3, TakeProperties
  <1>5. resume \in 0 .. Len(full)  BY <1>2, <1>3 DEF From
  <1>6. Drop(full, resume) \in Seq(Token)
    <2>. HIDE DEF resume
    <2>. QED  BY <1>2, <1>5, DropProperties
  <1>7. /\ Fresh(s, k, full) \in Request
        /\ Fresh(s, k, full).key = k /\ ~Fresh(s, k, full).sent
        /\ Fresh(s, k, full).full = full /\ Fresh(s, k, full).resume = resume
        /\ Fresh(s, k, full).tokens = Drop(full, resume)
        /\ Fresh(s, k, full).replay = (lcp = Len(full))
    <2>1. <<>> \in Seq(Token) /\ resume \in Nat /\ (lcp = Len(full)) \in BOOLEAN  BY <1>5
    <2>. QED  BY <1>2, <1>6, <2>1 DEF Fresh, NoReq, Request
  <1>. QED  BY <1>1, <1>2, <1>3, <1>4, <1>5, <1>7 DEF Cut

LEMMA StartEffect ==
    ASSUME NEW s \in Srv, NEW k \in Keys, NEW full \in Prompts, Start(s, k, full)
    PROVE  /\ req[s].st = "idle" /\ \A t \in Srv \ {s} : req[t].st = "idle"
           /\ Common(s, k, full) = Len(full) => mode.regenerate
           /\ sess' = Put(s, k, Cut(s, k, full))
           /\ Send(s, Fresh(s, k, full), Cut(s, k, full))
           /\ UNCHANGED <<sessFile, kvFile, up, mode, wk, engine_lock, cache_key, kv>>
  BY DEF Start, Common, From, Fresh, Cut, files, engine

LEMMA StartTable ==
    ASSUME TableInv, NEW s \in Srv, NEW k \in Keys, NEW full \in Prompts, Start(s, k, full)
    PROVE  TableInv'
  <1>. DEFINE r == Fresh(s, k, full)
              v == Cut(s, k, full)
  <1>1. v \in Seq(Token) /\ r \in Request /\ r.key = k  BY StartFacts DEF TableInv
  <1>2. /\ req[s].st = "idle" /\ sess' = Put(s, k, v) /\ Send(s, r, v)
        /\ UNCHANGED <<sessFile, kvFile, up, mode, wk, engine_lock, cache_key, kv>>
    BY StartEffect
  <1>. HIDE DEF v, r
  <1>3. /\ req' \in [Srv -> Request] /\ jobs' \in Seq(Job)
        /\ \A t \in Srv \ {s} : req'[t] = req[t]
        /\ req'[s] \in {NoReq, [r EXCEPT !.st = "err"], [r EXCEPT !.st = "wait"]}
    BY <1>1, <1>2, SendProperties DEF TableInv
  <1>4. req'[s].st # "idle" => req'[s].key = k
    <2>1. NoReq.st = "idle" /\ [r EXCEPT !.st = "err"].key = k /\ [r EXCEPT !.st = "wait"].key = k
      BY <1>1 DEF NoReq, Request
    <2>. QED  BY <1>3, <2>1
  <1>5. TypeInv'
    <2>1. sess' \in [Srv -> Seq(Entry)]  BY <1>1, <1>2, PutProperties DEF TableInv
    <2>. QED  BY <1>2, <1>3, <2>1 DEF TableInv, TypeInv
  <1>6. Unique'  BY <1>1, <1>2, PutProperties DEF TableInv
  <1>7. Kept'  BY <1>1, <1>2, <1>3, <1>4, PutKept DEF TableInv
  <1>8. LiveInv'  BY <1>1, <1>2, SendLive DEF TableInv
  <1>. QED  BY <1>5, <1>6, <1>7, <1>8 DEF TableInv

\* Who does not wait has no job.
LEMMA Gone ==
    ASSUME TableInv, NEW s \in Srv, req[s].st # "wait"
    PROVE  /\ \A m \in 1 .. Len(jobs) : jobs[m].srv # None => jobs[m].srv \in Srv \ {s}
           /\ \A w \in Worker : wk[w].job.srv # None => wk[w].job.srv \in Srv \ {s}
  <1>1. \A m \in 1 .. Len(jobs) : jobs[m].srv # None => jobs[m].srv \in Srv \ {s}
    <2>1. \A m \in 1 .. Len(jobs) : jobs[m].srv \in Srv \cup {None}
      BY JobTypes DEF TableInv
    <2>. QED  BY <2>1, Values DEF TableInv, LiveInv
  <1>2. \A w \in Worker : wk[w].job.srv # None => wk[w].job.srv \in Srv \ {s}
    <2>1. \A w \in Worker : wk[w].job.srv \in Srv \cup {None}
      BY JobTypes DEF TableInv
    <2>. QED  BY <2>1, Values DEF TableInv, LiveInv
  <1>. QED  BY <1>1, <1>2

LEMMA DoneTable ==
    ASSUME TableInv, NEW s \in Srv, Done(s)
    PROVE  TableInv'
  <1>. DEFINE r == req[s]
              v == Toks(s, r.key) \o Commit(r)
  <1>1. /\ r.st = "done" /\ sess' = Put(s, r.key, v) /\ req' = [req EXCEPT ![s] = NoReq]
        /\ sessFile' = IF mode.cacheDir THEN [sessFile EXCEPT ![SessName(r.key)] = v] ELSE sessFile
        /\ UNCHANGED <<kvFile, up, mode, jobs, wk, engine_lock, engine>>
    BY DEF Done
  <1>2. r \in Request /\ Known(s, r.key)  BY <1>1 DEF TableInv, TypeInv, Kept
  <1>3. r.key \in Keys /\ Toks(s, r.key) \in Seq(Token)  BY <1>2, KnownEntry DEF TableInv
  <1>4. v \in Seq(Token)
    <2>1. <<>> \in Seq(Token) /\ <<Eos>> \in Seq(Token)  BY Values
    <2>2. r.tokens \in Seq(Token) /\ r.gen \in Seq(Token)  BY <1>2 DEF Request
    <2>3. Commit(r) \in Seq(Token)
      <3>1. (IF r.replay THEN <<>> ELSE r.tokens) \in Seq(Token)  BY <2>1, <2>2
      <3>. QED  BY <2>1, <2>2, <3>1, ConcatProperties DEF Commit
    <2>. HIDE DEF r
    <2>. QED  BY <1>3, <2>3, ConcatProperties
  <1>. HIDE DEF v
  <1>5. NoReq \in Request /\ NoReq.st = "idle"  BY Records DEF NoReq
  <1>6. req' \in [Srv -> Request] /\ req'[s] = NoReq /\ \A t \in Srv \ {s} : req'[t] = req[t]
    BY <1>1, <1>5 DEF TableInv, TypeInv
  <1>7. TypeInv'
    <2>1. sess' \in [Srv -> Seq(Entry)]  BY <1>1, <1>3, <1>4, PutProperties DEF TableInv
    <2>2. sessFile' \in [Keys -> File]  BY <1>1, <1>4 DEF TableInv, TypeInv, File
    <2>. QED  BY <1>1, <1>6, <2>1, <2>2 DEF TableInv, TypeInv, engine
  <1>8. Unique'  BY <1>1, <1>3, <1>4, PutProperties DEF TableInv
  <1>9. Kept'  BY <1>1, <1>3, <1>4, <1>5, <1>6, PutKept DEF TableInv
  <1>10. LiveInv'
    <2>1. /\ \A m \in 1 .. Len(jobs) : jobs[m].srv # None => jobs[m].srv \in Srv \ {s}
          /\ \A w \in Worker : wk[w].job.srv # None => wk[w].job.srv \in Srv \ {s}
      BY <1>1, Gone
    <2>. QED  BY <1>1, <1>5, <1>6, <2>1 DEF TableInv, LiveInv, Busy, FullResendTaken
  <1>. QED  BY <1>7, <1>8, <1>9, <1>10 DEF TableInv

LEMMA ResendEffect ==
    ASSUME TableInv, NEW s \in Srv, Resend(s)
    PROVE  /\ req[s].st \in {"err", "rebuild"} /\ Known(s, req[s].key) /\ req[s].key \in Keys
           /\ Toks(s, req[s].key) \in Seq(Token)
           /\ Retry(req[s]) \in Request /\ Retry(req[s]).sent
           /\ Retry(req[s]).key = req[s].key /\ Retry(req[s]).full = req[s].full
           /\ Retry(req[s]).tokens = req[s].tokens /\ Retry(req[s]).resume = req[s].resume
           /\ Retry(req[s]).replay = req[s].replay
           /\ sess' = Put(s, req[s].key, Toks(s, req[s].key))
           /\ Send(s, Retry(req[s]), Toks(s, req[s].key))
           /\ kvFile' \in {kvFile, [kvFile EXCEPT ![FileName[req[s].key]] = None]}
           /\ UNCHANGED <<sessFile, up, mode, wk, engine_lock, cache_key, kv>>
  <1>. DEFINE r == req[s]
  <1>1. r.st \in {"err", "rebuild"} /\ r \in Request  BY DEF Resend, TableInv, TypeInv
  <1>2. Known(s, r.key)  BY <1>1 DEF TableInv, Kept
  <1>3. r.key \in Keys /\ Toks(s, r.key) \in Seq(Token)  BY <1>2, KnownEntry DEF TableInv
  <1>4. /\ Retry(r) \in Request /\ Retry(r).sent /\ Retry(r).key = r.key
        /\ Retry(r).full = r.full /\ Retry(r).tokens = r.tokens
        /\ Retry(r).resume = r.resume /\ Retry(r).replay = r.replay
    <2>. HIDE DEF r
    <2>1. CASE r.sent
      <3>. DEFINE n == r.retry + 1
      <3>1. n \in Nat  BY <1>1 DEF Request
      <3>2. Retry(r) = [r EXCEPT !.retry = n]  BY <2>1 DEF Retry
      <3>. HIDE DEF n
      <3>. QED  BY <1>1, <2>1, <3>1, <3>2 DEF Request
    <2>2. CASE ~r.sent
      <3>1. Retry(r) = [r EXCEPT !.sent = TRUE]  BY <2>2 DEF Retry
      <3>. QED  BY <1>1, <3>1 DEF Request
    <2>. QED  BY <2>1, <2>2
  <1>. QED  BY <1>1, <1>2, <1>3, <1>4 DEF Resend, engine

LEMMA ResendTable ==
    ASSUME TableInv, NEW s \in Srv, Resend(s)
    PROVE  TableInv'
  <1>. DEFINE k == req[s].key
              r == Retry(req[s])
              v == Toks(s, k)
  <1>1. v \in Seq(Token) /\ r \in Request /\ r.key = k /\ k \in Keys  BY ResendEffect
  <1>2. /\ req[s].st # "wait" /\ sess' = Put(s, k, v) /\ Send(s, r, v)
        /\ kvFile' \in {kvFile, [kvFile EXCEPT ![FileName[k]] = None]}
        /\ UNCHANGED <<sessFile, up, mode, wk, engine_lock, cache_key, kv>>
    BY ResendEffect
  <1>. HIDE DEF k, v, r
  <1>3. /\ req' \in [Srv -> Request] /\ jobs' \in Seq(Job)
        /\ \A t \in Srv \ {s} : req'[t] = req[t]
        /\ req'[s] \in {NoReq, [r EXCEPT !.st = "err"], [r EXCEPT !.st = "wait"]}
    BY <1>1, <1>2, SendProperties DEF TableInv
  <1>4. req'[s].st # "idle" => req'[s].key = k
    <2>1. NoReq.st = "idle" /\ [r EXCEPT !.st = "err"].key = k /\ [r EXCEPT !.st = "wait"].key = k
      BY <1>1 DEF NoReq, Request
    <2>. QED  BY <1>3, <2>1
  <1>5. TypeInv'
    <2>1. sess' \in [Srv -> Seq(Entry)]  BY <1>1, <1>2, PutProperties DEF TableInv
    <2>2. kvFile' \in [Keys -> File]  BY <1>2 DEF TableInv, TypeInv, File
    <2>. QED  BY <1>2, <1>3, <2>1, <2>2 DEF TableInv, TypeInv
  <1>6. Unique'  BY <1>1, <1>2, PutProperties DEF TableInv
  <1>7. Kept'  BY <1>1, <1>2, <1>3, <1>4, PutKept DEF TableInv
  <1>8. LiveInv'  BY <1>1, <1>2, SendLive DEF TableInv
  <1>. QED  BY <1>5, <1>6, <1>7, <1>8 DEF TableInv

\* A server stops waiting, or its process ends.
LEMMA ForgetProperties ==
    ASSUME TableInv, NEW s \in Srv, Forget(s)
    PROVE  /\ jobs' \in Seq(Job) /\ Len(jobs') = Len(jobs)
           /\ \A m \in 1 .. Len(jobs) :
                 /\ jobs'[m].srv = IF jobs[m].srv = s THEN None ELSE jobs[m].srv
                 /\ jobs'[m].key = jobs[m].key /\ jobs'[m].resume = jobs[m].resume
                 /\ jobs'[m].delta = jobs[m].delta /\ jobs'[m].prompt = jobs[m].prompt
           /\ wk' \in [Worker -> Thread]
           /\ \A w \in Worker :
                 /\ wk'[w].pc = wk[w].pc /\ wk'[w].ctx = wk[w].ctx /\ wk'[w].gen = wk[w].gen
                 /\ wk'[w].job.srv = IF wk[w].job.srv = s THEN None ELSE wk[w].job.srv
                 /\ wk[w].job.srv # s => wk'[w] = wk[w]
                 /\ wk[w].job \in Job =>
                       /\ wk'[w].job \in Job /\ wk'[w].job.key = wk[w].job.key
                       /\ wk'[w].job.resume = wk[w].job.resume
                       /\ wk'[w].job.delta = wk[w].job.delta
                       /\ wk'[w].job.prompt = wk[w].job.prompt
           /\ req' \in [Srv -> Request] /\ req'[s] = NoReq
           /\ \A t \in Srv \ {s} : req'[t] = req[t]
           /\ LiveInv'
  <1>. DEFINE n == Len(jobs)
  <1>1. /\ n \in Nat /\ \A m \in 1 .. n : jobs[m] \in Job /\ jobs[m].srv \in Srv \cup {None}
        /\ \A w \in Worker : wk[w].job.srv \in Srv \cup {None}
    BY JobTypes DEF TableInv
  <1>2. jobs' \in Seq(Job) /\ Len(jobs') = n
        /\ \A m \in 1 .. n :
              jobs'[m] = IF jobs[m].srv = s THEN [jobs[m] EXCEPT !.srv = None] ELSE jobs[m]
    <2>1. jobs' = [i \in 1 .. n |->
                     IF jobs[i].srv = s THEN [jobs[i] EXCEPT !.srv = None] ELSE jobs[i]]
      BY DEF Forget
    <2>2. \A i \in 1 .. n : (IF jobs[i].srv = s THEN [jobs[i] EXCEPT !.srv = None] ELSE jobs[i]) \in Job
      BY <1>1 DEF Job
    <2>. QED  BY <1>1, <2>1, <2>2
  <1>3. \A m \in 1 .. n :
           /\ jobs'[m].srv = IF jobs[m].srv = s THEN None ELSE jobs[m].srv
           /\ jobs'[m].key = jobs[m].key /\ jobs'[m].resume = jobs[m].resume
           /\ jobs'[m].delta = jobs[m].delta /\ jobs'[m].prompt = jobs[m].prompt
    BY <1>1, <1>2 DEF Job
  <1>4. \A w \in Worker :
           wk'[w] = IF wk[w].job.srv = s THEN [wk[w] EXCEPT !.job.srv = None] ELSE wk[w]
    BY DEF Forget
  <1>5. \A w \in Worker : wk[w] \in Thread /\ (wk[w].job.srv = s => wk[w].job \in Job)
    BY Values DEF TableInv, TypeInv, Thread, NoJob
  <1>7. ASSUME NEW w \in Worker
        PROVE  /\ wk'[w] \in Thread
               /\ wk'[w].pc = wk[w].pc /\ wk'[w].ctx = wk[w].ctx /\ wk'[w].gen = wk[w].gen
               /\ wk'[w].job.srv = IF wk[w].job.srv = s THEN None ELSE wk[w].job.srv
               /\ wk[w].job.srv # s => wk'[w] = wk[w]
               /\ wk[w].job \in Job =>
                     /\ wk'[w].job \in Job /\ wk'[w].job.key = wk[w].job.key
                     /\ wk'[w].job.resume = wk[w].job.resume
                     /\ wk'[w].job.delta = wk[w].job.delta
                     /\ wk'[w].job.prompt = wk[w].job.prompt
    <2>1. CASE wk[w].job.srv = s
      <3>. DEFINE j == [wk[w].job EXCEPT !.srv = None]
      <3>1. /\ j \in Job /\ j.srv = None /\ j.key = wk[w].job.key /\ j.resume = wk[w].job.resume
            /\ j.delta = wk[w].job.delta /\ j.prompt = wk[w].job.prompt
        BY <2>1, <1>5 DEF Job
      <3>2. wk'[w] = [wk[w] EXCEPT !.job = j]  BY <2>1, <1>4
      <3>. HIDE DEF j
      <3>3. /\ wk'[w] \in Thread /\ wk'[w].job = j
            /\ wk'[w].pc = wk[w].pc /\ wk'[w].ctx = wk[w].ctx /\ wk'[w].gen = wk[w].gen
        BY <3>1, <3>2, <1>5 DEF Thread
      <3>. QED  BY <2>1, <3>1, <3>3
    <2>2. CASE wk[w].job.srv # s  BY <2>2, <1>4, <1>5
    <2>. QED  BY <2>1, <2>2
  <1>6. wk' \in [Worker -> Thread]  BY <1>7 DEF Forget
  <1>8. req' \in [Srv -> Request] /\ req'[s] = NoReq /\ \A t \in Srv \ {s} : req'[t] = req[t]
    BY Records DEF Forget, TableInv, TypeInv
  <1>9. LiveInv'
    <2>1. \A m \in 1 .. n : jobs'[m].srv # None => jobs'[m].srv = jobs[m].srv /\ jobs[m].srv \in Srv \ {s}
      BY <1>1, <1>3
    <2>2. \A w \in Worker : wk'[w].job.srv # None =>
              wk'[w].job.srv = wk[w].job.srv /\ wk[w].job.srv \in Srv \ {s}
      BY <1>1, <1>7
    <2>3. NoReq.st = "idle"  BY DEF NoReq
    <2>4. ASSUME NEW m \in 1 .. Len(jobs'), jobs'[m].srv # None
          PROVE  /\ req'[jobs'[m].srv].st = "wait"
                 /\ req'[jobs'[m].srv].sent => jobs'[m].resume = 0
                 /\ \A i \in 1 .. Len(jobs') : jobs'[i].srv = jobs'[m].srv => m = i
      <3>1. jobs'[m].srv = jobs[m].srv /\ jobs[m].srv \in Srv \ {s} /\ m \in 1 .. n
            /\ req'[jobs[m].srv] = req[jobs[m].srv] /\ jobs'[m].resume = jobs[m].resume
        BY <2>4, <2>1, <1>2, <1>3, <1>8
      <3>2. jobs[m].srv # None  BY <3>1, Values
      <3>. QED  BY <3>1, <3>2, <2>1, <1>2 DEF TableInv, LiveInv
    <2>5. ASSUME NEW w \in Worker, wk'[w].job.srv # None
          PROVE  /\ Busy(w)' /\ req'[wk'[w].job.srv].st = "wait"
                 /\ \A i \in 1 .. Len(jobs') : jobs'[i].srv # wk'[w].job.srv
                 /\ \A v \in Worker : wk'[v].job.srv = wk'[w].job.srv => v = w
      <3>1. wk'[w].job.srv = wk[w].job.srv /\ wk[w].job.srv \in Srv \ {s}
            /\ req'[wk[w].job.srv] = req[wk[w].job.srv] /\ wk'[w].pc = wk[w].pc
        BY <2>5, <2>2, <1>7, <1>8
      <3>2. wk[w].job.srv # None  BY <3>1, Values
      <3>3. /\ Busy(w) /\ req[wk[w].job.srv].st = "wait"
            /\ \A i \in 1 .. n : jobs[i].srv # wk[w].job.srv
            /\ \A v \in Worker : wk[v].job.srv = wk[w].job.srv => v = w
        BY <3>2 DEF TableInv, LiveInv
      <3>4. \A i \in 1 .. n : jobs'[i].srv # wk[w].job.srv  BY <3>2, <3>3, <1>3
      <3>5. \A v \in Worker : wk'[v].job.srv = wk[w].job.srv => v = w
        BY <3>2, <3>3, <2>2
      <3>. QED  BY <3>1, <3>3, <3>4, <3>5, <1>2 DEF Busy
    <2>6. FullResendTaken'  BY <1>8, <2>3 DEF TableInv, LiveInv, FullResendTaken
    <2>. QED  BY <2>4, <2>5, <2>6 DEF LiveInv
  <1>. QED  BY <1>1, <1>2, <1>3, <1>6, <1>7, <1>8, <1>9

LEMMA RefuseTable ==
    ASSUME TableInv, NEW s \in Srv, Refuse(s)
    PROVE  TableInv'
  <1>1. /\ req[s].st \in {"err", "rebuild"} /\ req' = [req EXCEPT ![s] = NoReq]
        /\ UNCHANGED <<sess, sessFile, kvFile, up, mode, jobs, wk, engine_lock, cache_key, kv>>
    BY DEF Refuse, files, engine
  <1>2. NoReq \in Request /\ NoReq.st = "idle"  BY Records DEF NoReq
  <1>3. req' \in [Srv -> Request] /\ req'[s] = NoReq /\ \A t \in Srv \ {s} : req'[t] = req[t]
    BY <1>1, <1>2 DEF TableInv, TypeInv
  <1>4. TypeInv' /\ Unique'  BY <1>1, <1>3 DEF TableInv, TypeInv, Unique
  <1>5. Kept'
    <2>. SUFFICES ASSUME NEW t \in Srv, req'[t].st # "idle" PROVE Known(t, req[t].key)'
      BY DEF Kept
    <2>1. req'[t] = req[t]  BY <1>2, <1>3
    <2>. QED  BY <2>1, <1>1 DEF TableInv, Kept, Known
  <1>6. LiveInv'  BY <1>1, <1>2, <1>3, Gone DEF TableInv, LiveInv, Busy, FullResendTaken
  <1>. QED  BY <1>4, <1>5, <1>6 DEF TableInv

LEMMA TimeoutTable ==
    ASSUME TableInv, NEW s \in Srv, Timeout(s)
    PROVE  TableInv'
  <1>1. Forget(s) /\ UNCHANGED <<sess, sessFile, kvFile, up, mode, engine_lock, cache_key, kv>>
    BY DEF Timeout, files, engine
  <1>2. /\ jobs' \in Seq(Job) /\ wk' \in [Worker -> Thread] /\ LiveInv'
        /\ req' \in [Srv -> Request] /\ req'[s] = NoReq /\ \A t \in Srv \ {s} : req'[t] = req[t]
    BY <1>1, ForgetProperties
  <1>3. TypeInv' /\ Unique'  BY <1>1, <1>2 DEF TableInv, TypeInv, Unique
  <1>4. Kept'
    <2>. SUFFICES ASSUME NEW t \in Srv, req'[t].st # "idle" PROVE Known(t, req[t].key)'
      BY DEF Kept
    <2>1. req'[t] = req[t]  BY <1>2 DEF NoReq
    <2>. QED  BY <2>1, <1>1 DEF TableInv, Kept, Known
  <1>. QED  BY <1>2, <1>3, <1>4 DEF TableInv

\* A server that starts again: the table is what the files hold, each key once.
LEMMA SrvDiesEffect ==
    ASSUME TableInv, NEW s \in Srv, SrvDies(s)
    PROVE  /\ mode.srvCrash /\ Forget(s)
           /\ sessFile' \in [Keys -> File]
           /\ ~mode.cacheDir => sessFile' = sessFile
           /\ UNCHANGED <<kvFile, up, mode, engine_lock, cache_key, kv>>
           /\ sess' \in [Srv -> Seq(Entry)] /\ Unique'
           /\ \A t \in Srv \ {s} : sess'[t] = sess[t]
           /\ \A i \in 1 .. Len(sess'[s]) :
                 /\ sess'[s][i][1] \in Keys /\ IsFile(sessFile'[sess'[s][i][1]])
  <1>. DEFINE onDisk == {k \in Keys : IsFile(sessFile'[k]) /\ sessFile'[k] # <<>>}
              n == Least(SessCap, Cardinality(onDisk))
  <1>1. /\ mode.srvCrash /\ Forget(s)
        /\ \/ sessFile' = sessFile
           \/ mode.cacheDir /\ sessFile' = [sessFile EXCEPT ![SessName(req[s].key)] = Bad]
        /\ UNCHANGED <<kvFile, up, mode, engine_lock, cache_key, kv>>
    BY DEF SrvDies, engine
  <1>2. PICK order \in [1 .. n -> onDisk] :
              /\ \A i, j \in 1 .. n : i # j => order[i] # order[j]
              /\ sess' = [sess EXCEPT ![s] = [i \in 1 .. n |-> <<order[i], sessFile'[order[i]]>>]]
    BY DEF SrvDies
  <1>3. sessFile' \in [Keys -> File]  BY <1>1 DEF TableInv, TypeInv, File
  <1>4. n \in Nat
    <2>1. onDisk \in SUBSET Keys /\ IsFiniteSet(Keys)  BY Values
    <2>. HIDE DEF onDisk
    <2>2. Cardinality(onDisk) \in Nat  BY <2>1, FS_Subset, FS_CardinalityType
    <2>. QED  BY <2>2, Values DEF Least
  <1>5. \A k \in onDisk : k \in Keys /\ IsFile(sessFile'[k]) /\ <<k, sessFile'[k]>> \in Entry
    BY <1>3 DEF Entry, File, IsFile
  <1>. DEFINE new == [i \in 1 .. n |-> <<order[i], sessFile'[order[i]]>>]
  <1>. HIDE DEF onDisk, n
  <1>6. \A i \in 1 .. n : order[i] \in onDisk  BY <1>2
  <1>7. new \in Seq(Entry) /\ Len(new) = n
        /\ \A i \in 1 .. n : new[i] = <<order[i], sessFile'[order[i]]>>
    <2>1. \A i \in 1 .. n : <<order[i], sessFile'[order[i]]>> \in Entry  BY <1>5, <1>6
    <2>. QED  BY <2>1, <1>4
  <1>8. sess' = [sess EXCEPT ![s] = new]  BY <1>2
  <1>. HIDE DEF new
  <1>9. sess' \in [Srv -> Seq(Entry)] /\ sess'[s] = new /\ \A t \in Srv \ {s} : sess'[t] = sess[t]
    BY <1>7, <1>8 DEF TableInv, TypeInv
  <1>10. Unique'
    <2>. SUFFICES ASSUME NEW t \in Srv, NEW i \in 1 .. Len(sess'[t]), NEW j \in 1 .. Len(sess'[t]),
                         sess'[t][i][1] = sess'[t][j][1]
                  PROVE  i = j
      BY DEF Unique
    <2>1. CASE t = s
      <3>1. i \in 1 .. n /\ j \in 1 .. n /\ order[i] = order[j]  BY <2>1, <1>7, <1>9
      <3>. QED  BY <3>1, <1>2
    <2>2. CASE t # s  BY <2>2, <1>9 DEF TableInv, Unique
    <2>. QED  BY <2>1, <2>2
  <1>11. \A i \in 1 .. Len(sess'[s]) :
            /\ sess'[s][i][1] \in Keys /\ IsFile(sessFile'[sess'[s][i][1]])
    <2>. SUFFICES ASSUME NEW i \in 1 .. n
                  PROVE  sess'[s][i][1] \in Keys /\ IsFile(sessFile'[sess'[s][i][1]])
      BY <1>7, <1>9
    <2>1. sess'[s][i][1] = order[i]  BY <1>7, <1>9
    <2>2. order[i] \in Keys /\ IsFile(sessFile'[order[i]])  BY <1>5, <1>6
    <2>. QED  BY <2>1, <2>2
  <1>. QED  BY <1>1, <1>3, <1>9, <1>10, <1>11

LEMMA SrvDiesTable ==
    ASSUME TableInv, NEW s \in Srv, SrvDies(s)
    PROVE  TableInv'
  <1>1. /\ Forget(s) /\ sessFile' \in [Keys -> File]
        /\ UNCHANGED <<kvFile, up, mode, engine_lock, cache_key, kv>>
        /\ sess' \in [Srv -> Seq(Entry)] /\ Unique'
        /\ \A t \in Srv \ {s} : sess'[t] = sess[t]
    BY SrvDiesEffect
  <1>2. /\ jobs' \in Seq(Job) /\ wk' \in [Worker -> Thread] /\ LiveInv'
        /\ req' \in [Srv -> Request] /\ req'[s] = NoReq /\ \A t \in Srv \ {s} : req'[t] = req[t]
    BY <1>1, ForgetProperties
  <1>3. TypeInv'  BY <1>1, <1>2 DEF TableInv, TypeInv
  <1>4. Kept'
    <2>. SUFFICES ASSUME NEW t \in Srv, req'[t].st # "idle" PROVE Known(t, req[t].key)'
      BY DEF Kept
    <2>1. t # s /\ req'[t] = req[t] /\ sess'[t] = sess[t]  BY <1>1, <1>2 DEF NoReq
    <2>. QED  BY <2>1 DEF TableInv, Kept, Known
  <1>. QED  BY <1>1, <1>2, <1>3, <1>4 DEF TableInv

-----------------------------------------------------------------------------
(* The rank.                                                               *)

\* The answer to a job: its server's request has the status and the answer.
LEMMA AnswerProperties ==
    ASSUME TypeInv, NEW j, j.srv \in Srv \cup {None}, NEW st \in {"err", "rebuild", "done"},
           NEW gen \in Seq(Token), Answer(j, st, gen)
    PROVE  /\ req' \in [Srv -> Request]
           /\ \A t \in Srv : t # j.srv => req'[t] = req[t]
           /\ j.srv # None =>
                 /\ req'[j.srv].st = st /\ req'[j.srv].gen = gen
                 /\ req'[j.srv].key = req[j.srv].key /\ req'[j.srv].full = req[j.srv].full
                 /\ req'[j.srv].tokens = req[j.srv].tokens
                 /\ req'[j.srv].resume = req[j.srv].resume
                 /\ req'[j.srv].sent = req[j.srv].sent /\ req'[j.srv].replay = req[j.srv].replay
  <1>1. CASE j.srv = None  BY <1>1, Values DEF Answer, TypeInv
  <1>2. CASE j.srv # None
    <2>. DEFINE s == j.srv
                r == [[req[s] EXCEPT !.st = st] EXCEPT !.gen = gen]
    <2>1. s \in Srv /\ req[s] \in Request  BY <1>2 DEF TypeInv
    <2>2. /\ r \in Request /\ r.st = st /\ r.gen = gen
          /\ r.key = req[s].key /\ r.full = req[s].full /\ r.tokens = req[s].tokens
          /\ r.resume = req[s].resume /\ r.sent = req[s].sent /\ r.replay = req[s].replay
      BY <2>1 DEF Request
    <2>3. req' = [req EXCEPT ![s] = r]
      <3>1. req' = [req EXCEPT ![s].st = st, ![s].gen = gen]  BY <1>2 DEF Answer
      <3>. QED  BY <3>1, <2>1 DEF TypeInv
    <2>. HIDE DEF r
    <2>. QED  BY <1>2, <2>1, <2>2, <2>3 DEF TypeInv
  <1>. QED  BY <1>1, <1>2

\* What a work thread does with the first job of the queue.
Refused(j) == j.resume > Len(Loaded(j))
TooLong(j) == ~Refused(j) /\ Len(CutBack(j)) + Len(j.delta) > mode.maxSeq

LEMMA BeginEffect ==
    ASSUME TypeInv, NEW w \in Worker, Begin(w)
    PROVE  LET j == Head(jobs) IN
           /\ j = jobs[1] /\ j \in Job /\ Len(jobs) > 0 /\ wk[w].pc = "idle"
           /\ jobs' \in Seq(Job) /\ Len(jobs') = Len(jobs) - 1
           /\ \A m \in 1 .. Len(jobs') : jobs'[m] = jobs[m + 1]
           /\ cache_key' = j.key
           /\ Refused(j) =>
                 /\ kv' = <<>>
                 /\ kvFile' = IF mode.cacheDir THEN [Saved(j.key) EXCEPT ![FileName[j.key]] = None]
                              ELSE kvFile
                 /\ Answer(j, "rebuild", <<>>) /\ wk' = wk
           /\ ~Refused(j) => kv' = CutBack(j) /\ kvFile' = Saved(j.key)
           /\ TooLong(j) => Answer(j, "err", <<>>) /\ wk' = wk
           /\ ~Refused(j) /\ ~TooLong(j) =>
                 req' = req /\ wk' = [wk EXCEPT ![w] = [@ EXCEPT !.pc = "engine", !.job = j]]
           /\ UNCHANGED <<sess, sessFile, up, mode, engine_lock>>
  <1>1. jobs \in Seq(Job) /\ jobs # <<>> /\ jobs' = Tail(jobs) /\ wk[w] \in Thread
        /\ wk \in [Worker -> Thread]
    BY DEF Begin, TypeInv
  <1>2. /\ Head(jobs) = jobs[1] /\ Head(jobs) \in Job /\ Len(jobs) > 0
        /\ jobs' \in Seq(Job) /\ Len(jobs') = Len(jobs) - 1
        /\ \A m \in 1 .. Len(jobs') : jobs'[m] = jobs[m + 1]
    BY <1>1, HeadTailProperties, EmptySeq
  <1>. DEFINE j == Head(jobs)
  <1>3. /\ wk[w].pc = "idle" /\ cache_key' = j.key
        /\ UNCHANGED <<sess, sessFile, up, mode, engine_lock>>
    BY DEF Begin
  <1>4. CASE Refused(j)
    <2>1. /\ kv' = <<>> /\ Answer(j, "rebuild", <<>>) /\ wk' = wk
          /\ kvFile' = IF mode.cacheDir THEN [Saved(j.key) EXCEPT ![FileName[j.key]] = None] ELSE kvFile
      BY <1>4 DEF Begin, Refused
    <2>. QED  BY <1>2, <1>3, <1>4, <2>1 DEF TooLong
  <1>5. CASE ~Refused(j)
    <2>1. kv' = CutBack(j) /\ kvFile' = Saved(j.key)  BY <1>5 DEF Begin, Refused
    <2>2. TooLong(j) => Answer(j, "err", <<>>) /\ wk' = wk
      BY <1>5 DEF Begin, Refused, TooLong
    <2>3. ~TooLong(j) =>
              req' = req /\ wk' = [wk EXCEPT ![w].pc = "engine", ![w].job = j]
      BY <1>5 DEF Begin, Refused, TooLong
    <2>4. [wk EXCEPT ![w].pc = "engine", ![w].job = j]
          = [wk EXCEPT ![w] = [@ EXCEPT !.pc = "engine", !.job = j]]
      BY <1>1
    <2>. QED  BY <1>2, <1>3, <1>5, <2>1, <2>2, <2>3, <2>4
  <1>. QED  BY <1>4, <1>5

\* A step of the rank changes a request in its status and its answer, or ends it.
LEMMA SameTable ==
    ASSUME Unique, Kept, sess' = sess,
           \A t \in Srv : req'[t].st # "idle" =>
               req[t].st # "idle" /\ req'[t].key = req[t].key
    PROVE  Unique' /\ Kept'
  <1>1. Unique'  BY DEF Unique
  <1>. SUFFICES ASSUME NEW t \in Srv, req'[t].st # "idle" PROVE Known(t, req[t].key)'
    BY <1>1 DEF Kept
  <1>. QED  BY DEF Kept, Known

LEMMA BeginTable ==
    ASSUME TableInv, NEW w \in Worker, Begin(w)
    PROVE  TableInv'
  <1>. DEFINE j == Head(jobs)
  <1>1. /\ j = jobs[1] /\ j \in Job /\ Len(jobs) > 0 /\ wk[w].pc = "idle"
        /\ jobs' \in Seq(Job) /\ Len(jobs') = Len(jobs) - 1
        /\ \A m \in 1 .. Len(jobs') : jobs'[m] = jobs[m + 1]
        /\ cache_key' = j.key
        /\ Refused(j) =>
              /\ kv' = <<>>
              /\ kvFile' = IF mode.cacheDir THEN [Saved(j.key) EXCEPT ![FileName[j.key]] = None]
                           ELSE kvFile
              /\ Answer(j, "rebuild", <<>>) /\ wk' = wk
        /\ ~Refused(j) => kv' = CutBack(j) /\ kvFile' = Saved(j.key)
        /\ TooLong(j) => Answer(j, "err", <<>>) /\ wk' = wk
        /\ ~Refused(j) /\ ~TooLong(j) =>
              req' = req /\ wk' = [wk EXCEPT ![w] = [@ EXCEPT !.pc = "engine", !.job = j]]
        /\ UNCHANGED <<sess, sessFile, up, mode, engine_lock>>
    BY BeginEffect DEF TableInv
  <1>2. Len(jobs) \in Nat /\ \A m \in 1 .. Len(jobs) : jobs[m].srv \in Srv \cup {None}
    BY JobTypes DEF TableInv
  <1>3. j.key \in Keys /\ j.srv \in Srv \cup {None} /\ j.resume \in Nat
    BY <1>1 DEF Job
  <1>4. kv' \in Seq(Token) /\ kvFile' \in [Keys -> File]
    <2>1. Saved(j.key) \in [Keys -> File]  BY <1>3, SavedType DEF TableInv
    <2>2. ~Refused(j) => CutBack(j) \in Seq(Token)
      BY <1>1, LoadedType DEF TableInv, Refused
    <2>3. <<>> \in Seq(Token) /\ kvFile \in [Keys -> File] /\ None \in File
      BY DEF TableInv, TypeInv, File
    <2>4. [Saved(j.key) EXCEPT ![FileName[j.key]] = None] \in [Keys -> File]  BY <2>1, <2>3
    <2>5. CASE Refused(j)
      <3>1. kv' = <<>> /\ kvFile' = IF mode.cacheDir THEN [Saved(j.key) EXCEPT ![FileName[j.key]] = None]
                                    ELSE kvFile
        BY <2>5, <1>1
      <3>. HIDE DEF j
      <3>. QED  BY <3>1, <2>3, <2>4
    <2>6. CASE ~Refused(j)
      <3>1. kv' = CutBack(j) /\ kvFile' = Saved(j.key)  BY <2>6, <1>1
      <3>. HIDE DEF j
      <3>. QED  BY <3>1, <2>1, <2>2, <2>6
    <2>. QED  BY <2>5, <2>6
  \* The thread with the job, and the first job of the queue is not in it.
  <1>5. wk' \in [Worker -> Thread] /\ \A v \in Worker \ {w} : wk'[v] = wk[v]
    <2>1. wk[w] \in Thread  BY DEF TableInv, TypeInv
    <2>2. [wk[w] EXCEPT !.pc = "engine", !.job = j] \in Thread  BY <1>1, <2>1 DEF Thread
    <2>. HIDE DEF j
    <2>. QED  BY <1>1, <2>2 DEF TableInv, TypeInv
  <1>6. wk'[w] = wk[w] \/ (wk'[w].pc = "engine" /\ wk'[w].job = j /\ req' = req)
    <2>1. CASE wk' = wk  BY <2>1
    <2>2. CASE ~Refused(j) /\ ~TooLong(j)
      <3>1. wk[w] \in Thread /\ wk \in [Worker -> Thread]  BY DEF TableInv, TypeInv
      <3>2. req' = req /\ wk' = [wk EXCEPT ![w] = [@ EXCEPT !.pc = "engine", !.job = j]]
        BY <2>2, <1>1
      <3>. HIDE DEF j
      <3>3. wk'[w] = [wk[w] EXCEPT !.pc = "engine", !.job = j]  BY <3>1, <3>2
      <3>4. wk'[w].pc = "engine" /\ wk'[w].job = j  BY <3>1, <3>3 DEF Thread
      <3>. QED  BY <3>2, <3>4
    <2>. QED  BY <2>1, <2>2, <1>1
  <1>7. j.srv # None =>
           /\ req[j.srv].st = "wait" /\ (req[j.srv].sent => j.resume = 0)
           /\ \A m \in 1 .. Len(jobs) : jobs[m].srv = j.srv => m = 1
           /\ \A v \in Worker : wk[v].job.srv # j.srv
    BY <1>1, <1>2 DEF TableInv, LiveInv
  \* The request it belongs to.
  <1>8. /\ req' \in [Srv -> Request]
        /\ \A t \in Srv : t # j.srv => req'[t] = req[t]
        /\ \A t \in Srv : req'[t].st # "idle" =>
               req[t].st # "idle" /\ req'[t].key = req[t].key
        /\ FullResendTaken'
    <2>1. CASE ~Refused(j) /\ ~TooLong(j)
      BY <2>1, <1>1 DEF TableInv, TypeInv, LiveInv, FullResendTaken
    <2>2. CASE Refused(j) \/ TooLong(j)
      <3>. DEFINE st == IF Refused(j) THEN "rebuild" ELSE "err"
      <3>0. Refused(j) => ~TooLong(j)  BY DEF TooLong
      <3>1. Answer(j, st, <<>>) /\ st \in {"rebuild", "err"} /\ <<>> \in Seq(Token)
        BY <1>1, <2>2, <3>0
      <3>2. /\ req' \in [Srv -> Request]
            /\ \A t \in Srv : t # j.srv => req'[t] = req[t]
            /\ j.srv # None => /\ req'[j.srv].st = st /\ req'[j.srv].key = req[j.srv].key
                               /\ req'[j.srv].sent = req[j.srv].sent
        <4>. HIDE DEF st, j
        <4>. QED  BY <1>3, <3>1, AnswerProperties DEF TableInv
      <3>3. st = "rebuild" /\ j.srv # None => ~req[j.srv].sent
        <4>1. st = "rebuild" => j.resume > Len(Loaded(j))  BY DEF Refused
        <4>2. Len(Loaded(j)) \in Nat  BY <1>1, LoadedType DEF TableInv
        <4>. HIDE DEF st, j
        <4>. QED  BY <4>1, <4>2, <1>3, <1>7
      <3>. HIDE DEF st, j
      <3>4. FullResendTaken'
        <4>. SUFFICES ASSUME NEW t \in Srv, req'[t].st = "rebuild" PROVE ~req'[t].sent
          BY DEF FullResendTaken
        <4>1. CASE t = j.srv  BY <4>1, <3>2, <3>3, Values
        <4>2. CASE t # j.srv  BY <4>2, <3>2 DEF TableInv, LiveInv, FullResendTaken
        <4>. QED  BY <4>1, <4>2
      <3>. QED  BY <3>2, <3>4, <1>3, <1>7, Values
    <2>. QED  BY <2>1, <2>2
  <1>. HIDE DEF j
  <1>9. TypeInv'  BY <1>1, <1>3, <1>4, <1>5, <1>8 DEF TableInv, TypeInv
  <1>10. Unique' /\ Kept'  BY <1>1, <1>8, SameTable DEF TableInv
  <1>11. LiveInv'
    <2>1. ASSUME NEW m \in 1 .. Len(jobs'), jobs'[m].srv # None
          PROVE  /\ req'[jobs'[m].srv].st = "wait"
                 /\ req'[jobs'[m].srv].sent => jobs'[m].resume = 0
                 /\ \A n \in 1 .. Len(jobs') : jobs'[n].srv = jobs'[m].srv => m = n
      <3>1. m + 1 \in 1 .. Len(jobs) /\ jobs'[m] = jobs[m + 1] /\ m + 1 # 1  BY <1>1, <1>2
      <3>2. jobs[m + 1].srv # None /\ jobs[m + 1].srv \in Srv  BY <2>1, <3>1, <1>2
      <3>3. /\ req[jobs[m + 1].srv].st = "wait"
            /\ req[jobs[m + 1].srv].sent => jobs[m + 1].resume = 0
            /\ \A n \in 1 .. Len(jobs) : jobs[n].srv = jobs[m + 1].srv => m + 1 = n
        BY <3>1, <3>2 DEF TableInv, LiveInv
      <3>4. jobs[m + 1].srv # j.srv  BY <3>1, <3>2, <1>7
      <3>5. req'[jobs[m + 1].srv] = req[jobs[m + 1].srv]  BY <3>2, <3>4, <1>8
      <3>6. \A n \in 1 .. Len(jobs') :
               jobs'[n] = jobs[n + 1] /\ n + 1 \in 1 .. Len(jobs) /\ (m + 1 = n + 1 => m = n)
        BY <1>1, <1>2
      <3>. QED  BY <3>1, <3>3, <3>5, <3>6
    <2>2. ASSUME NEW v \in Worker, wk'[v].job.srv # None
          PROVE  /\ Busy(v)' /\ req'[wk'[v].job.srv].st = "wait"
                 /\ \A n \in 1 .. Len(jobs') : jobs'[n].srv # wk'[v].job.srv
                 /\ \A u \in Worker : wk'[u].job.srv = wk'[v].job.srv => u = v
      <3>0. \A n \in 1 .. Len(jobs') :
               jobs'[n] = jobs[n + 1] /\ n + 1 \in 1 .. Len(jobs) /\ n + 1 # 1
        BY <1>1, <1>2
      <3>1. CASE wk'[v] # wk[v]
        <4>1. v = w /\ wk'[v].pc = "engine" /\ wk'[v].job = j /\ req' = req
          BY <3>1, <1>5, <1>6
        <4>2. \A u \in Worker : wk'[u].job.srv = j.srv => u = v
          BY <4>1, <2>2, <1>5, <1>7
        <4>3. \A n \in 1 .. Len(jobs') : jobs'[n].srv # j.srv
          BY <3>0, <4>1, <2>2, <1>7
        <4>. QED  BY <2>2, <4>1, <4>2, <4>3, <1>7 DEF Busy
      <3>2. CASE wk'[v] = wk[v]
        <4>1. /\ Busy(v) /\ req[wk[v].job.srv].st = "wait"
              /\ \A n \in 1 .. Len(jobs) : jobs[n].srv # wk[v].job.srv
              /\ \A u \in Worker : wk[u].job.srv = wk[v].job.srv => u = v
          BY <2>2, <3>2 DEF TableInv, LiveInv
        <4>2. wk[v].job.srv # j.srv /\ wk[v].job.srv \in Srv
          <5>1. wk[v].job.srv \in Srv \cup {None}  BY JobTypes DEF TableInv
          <5>. QED  BY <5>1, <2>2, <3>2, <4>1, <1>1, <1>2
        <4>3. req'[wk[v].job.srv] = req[wk[v].job.srv]  BY <4>2, <1>8
        <4>4. \A u \in Worker : wk'[u].job.srv = wk[v].job.srv => u = v
          BY <4>1, <4>2, <1>5, <1>6
        <4>. QED  BY <3>0, <3>2, <4>1, <4>3, <4>4 DEF Busy
      <3>. QED  BY <3>1, <3>2
    <2>. QED  BY <2>1, <2>2, <1>8 DEF LiveInv
  <1>. QED  BY <1>9, <1>10, <1>11 DEF TableInv

\* Prefill and decode: what the answer is computed from, what is answered, and the
\* rows that are cached afterwards.
Ctx(w) == kv \o wk[w].job.delta
Out(w, gen) == Take(gen, Least(Len(gen), mode.maxSeq - Len(Ctx(w))))
All(w, gen) == Ctx(w) \o Out(w, gen) \o <<Eos>>

LEMMA RunEffect ==
    ASSUME TypeInv, NEW w \in Worker, NEW gen \in Gens, RunWith(w, gen)
    PROVE  /\ wk[w].pc = "engine" /\ wk[w].job \in Job \cup {NoJob}
           /\ Ctx(w) \in Seq(Token) /\ Out(w, gen) \in Seq(Token)
           /\ All(w, gen) \in Seq(Token)
           /\ kv' \in Seq(Token) /\ Prefix(kv', All(w, gen))
           /\ Len(kv') = Least(Len(All(w, gen)), mode.maxSeq)
           /\ Len(All(w, gen)) = Len(Ctx(w)) + Len(Out(w, gen)) + 1
           /\ wk' \in [Worker -> Thread]
           /\ \A v \in Worker \ {w} : wk'[v] = wk[v]
           /\ wk'[w].pc = "save" /\ wk'[w].job = wk[w].job
           /\ wk'[w].ctx = Ctx(w) /\ wk'[w].gen = Out(w, gen)
           /\ UNCHANGED <<sess, req, sessFile, kvFile, up, mode, jobs, cache_key>>
  <1>. DEFINE ctx == Ctx(w)
              out == Out(w, gen)
              all == All(w, gen)
              n == Least(Len(gen), mode.maxSeq - Len(ctx))
              l == Least(Len(ctx \o out) + 1, mode.maxSeq)
  <1>1. /\ kv' = Take(all, l) /\ wk[w].pc = "engine"
        /\ wk' = [wk EXCEPT ![w].pc = "save", ![w].ctx = ctx, ![w].gen = out]
        /\ UNCHANGED <<sess, req, sessFile, kvFile, up, mode, jobs, cache_key>>
    BY DEF RunWith, Ctx, Out, All, files
  <1>2. wk[w] \in Thread /\ wk[w].job \in Job \cup {NoJob} /\ wk[w].job.delta \in Seq(Token)
    <2>1. wk[w] \in Thread /\ wk[w].job \in Job \cup {NoJob}  BY DEF TypeInv, Thread
    <2>2. \A j \in Job : j.delta \in Seq(Token)  BY DEF Job
    <2>3. NoJob.delta = <<>> /\ <<>> \in Seq(Token)  BY DEF NoJob
    <2>. QED  BY <2>1, <2>2, <2>3
  <1>3. gen \in Seq(Token) /\ Len(gen) \in Nat /\ mode.maxSeq \in Nat /\ <<Eos>> \in Seq(Token)
        /\ <<>> \in Seq(Token)
    BY Values DEF TypeInv
  <1>4. ctx \in Seq(Token) /\ Len(ctx) \in Nat  BY <1>2, ConcatProperties DEF Ctx, TypeInv
  <1>5. out \in Seq(Token) /\ Len(out) \in Nat
    <2>1. n \in Int /\ n <= Len(gen)  BY <1>3, <1>4 DEF Least
    <2>2. CASE n >= 0
      <3>1. n \in 0 .. Len(gen)  BY <2>1, <2>2
      <3>2. Take(gen, n) \in Seq(Token)
        <4>. HIDE DEF n
        <4>. QED  BY <1>3, <3>1, TakeProperties
      <3>. QED  BY <3>2 DEF Out
    <2>3. CASE n < 0
      <3>1. Take(gen, n) = <<>>
        <4>. HIDE DEF n
        <4>. QED  BY <1>3, <2>1, <2>3, SubSeqEmpty DEF Take
      <3>. QED  BY <3>1, <1>3 DEF Out
    <2>. QED  BY <2>1, <2>2, <2>3
  <1>6. all \in Seq(Token) /\ Len(all) = Len(ctx) + Len(out) + 1 /\ Len(ctx \o out) = Len(ctx) + Len(out)
    <2>. HIDE DEF ctx, out
    <2>1. ctx \o out \in Seq(Token) /\ Len(ctx \o out) = Len(ctx) + Len(out)
      BY <1>4, <1>5, ConcatProperties
    <2>2. (ctx \o out) \o <<Eos>> \in Seq(Token)
          /\ Len((ctx \o out) \o <<Eos>>) = Len(ctx \o out) + Len(<<Eos>>)
      BY <1>3, <2>1, ConcatProperties
    <2>. QED  BY <2>1, <2>2 DEF All, ctx, out
  <1>. HIDE DEF ctx, out, all
  <1>7. l \in 0 .. Len(all) /\ l = Least(Len(all), mode.maxSeq)
    BY <1>3, <1>4, <1>5, <1>6 DEF Least
  <1>8. kv' \in Seq(Token) /\ Prefix(kv', all) /\ Len(kv') = Least(Len(all), mode.maxSeq)
    <2>. HIDE DEF l
    <2>1. kv' \in Seq(Token) /\ Len(kv') = l /\ \A i \in 1 .. l : kv'[i] = all[i]
      BY <1>1, <1>6, <1>7, TakeProperties
    <2>. QED  BY <2>1, <1>6, <1>7 DEF Prefix
  <1>9. /\ wk' \in [Worker -> Thread] /\ \A v \in Worker \ {w} : wk'[v] = wk[v]
        /\ wk'[w].pc = "save" /\ wk'[w].job = wk[w].job
        /\ wk'[w].ctx = ctx /\ wk'[w].gen = out
    <2>. DEFINE th == [wk[w] EXCEPT !.pc = "save", !.ctx = ctx, !.gen = out]
    <2>1. /\ th \in Thread /\ th.pc = "save" /\ th.job = wk[w].job
          /\ th.ctx = ctx /\ th.gen = out
      BY <1>2, <1>4, <1>5 DEF Thread
    <2>2. wk' = [wk EXCEPT ![w] = th]  BY <1>1 DEF TypeInv
    <2>. HIDE DEF th
    <2>. QED  BY <2>1, <2>2 DEF TypeInv
  <1>. QED  BY <1>1, <1>2, <1>4, <1>5, <1>6, <1>8, <1>9 DEF ctx, out, all

LEMMA RunTable ==
    ASSUME TableInv, NEW w \in Worker, Run(w)
    PROVE  TableInv'
  <1>1. PICK gen \in Gens : RunWith(w, gen)  BY DEF Run
  <1>2. /\ wk[w].pc = "engine" /\ kv' \in Seq(Token) /\ wk' \in [Worker -> Thread]
        /\ \A v \in Worker \ {w} : wk'[v] = wk[v]
        /\ wk'[w].pc = "save" /\ wk'[w].job = wk[w].job
        /\ UNCHANGED <<sess, req, sessFile, kvFile, up, mode, jobs, cache_key>>
    BY <1>1, RunEffect DEF TableInv
  <1>3. TypeInv'  BY <1>2 DEF TableInv, TypeInv
  <1>4. Unique' /\ Kept'  BY <1>2, SameTable DEF TableInv
  <1>5. \A v \in Worker : wk'[v].job = wk[v].job /\ (Busy(v) => Busy(v)')  BY <1>2 DEF Busy
  <1>6. LiveInv'  BY <1>2, <1>5 DEF TableInv, LiveInv, FullResendTaken
  <1>. QED  BY <1>3, <1>4, <1>6 DEF TableInv

LEMMA SaveEffect ==
    ASSUME TypeInv, NEW w \in Worker, Save(w)
    PROVE  /\ wk[w].pc = "save" /\ kvFile' \in [Keys -> File]
           /\ kvFile' = IF mode.cacheDir /\ kv # <<>> THEN [kvFile EXCEPT ![FileName[cache_key]] = kv]
                        ELSE kvFile
           /\ Answer(wk[w].job, "done", wk[w].gen) /\ wk[w].gen \in Seq(Token)
           /\ wk[w].job.srv \in Srv \cup {None}
           /\ wk' = [wk EXCEPT ![w] = Idle] /\ wk' \in [Worker -> Thread]
           /\ wk'[w] = Idle /\ \A v \in Worker \ {w} : wk'[v] = wk[v]
           /\ UNCHANGED <<sess, sessFile, up, mode, jobs, cache_key, kv>>
  <1>1. /\ wk[w].pc = "save" /\ wk' = [wk EXCEPT ![w] = Idle]
        /\ kvFile' = IF mode.cacheDir /\ kv # <<>> THEN [kvFile EXCEPT ![FileName[cache_key]] = kv]
                     ELSE kvFile
        /\ Answer(wk[w].job, "done", wk[w].gen)
        /\ UNCHANGED <<sess, sessFile, up, mode, jobs, cache_key, kv>>
    BY DEF Save, engine
  <1>2. kvFile' \in [Keys -> File]  BY <1>1 DEF TypeInv, File
  <1>3. wk[w].gen \in Seq(Token) /\ wk[w].job.srv \in Srv \cup {None}
    BY JobTypes DEF TypeInv, Thread
  <1>4. wk' \in [Worker -> Thread] /\ wk'[w] = Idle /\ \A v \in Worker \ {w} : wk'[v] = wk[v]
    BY <1>1, Records DEF TypeInv
  <1>. QED  BY <1>1, <1>2, <1>3, <1>4

LEMMA SaveTable ==
    ASSUME TableInv, NEW w \in Worker, Save(w)
    PROVE  TableInv'
  <1>. DEFINE j == wk[w].job
  <1>1. /\ wk[w].pc = "save" /\ kvFile' \in [Keys -> File]
        /\ Answer(j, "done", wk[w].gen) /\ wk[w].gen \in Seq(Token)
        /\ j.srv \in Srv \cup {None} /\ wk' \in [Worker -> Thread]
        /\ wk'[w] = Idle /\ \A v \in Worker \ {w} : wk'[v] = wk[v]
        /\ UNCHANGED <<sess, sessFile, up, mode, jobs, cache_key, kv>>
    BY SaveEffect DEF TableInv
  <1>2. /\ req' \in [Srv -> Request]
        /\ \A t \in Srv : t # j.srv => req'[t] = req[t]
        /\ j.srv # None => req'[j.srv].st = "done" /\ req'[j.srv].key = req[j.srv].key
    BY <1>1, AnswerProperties DEF TableInv
  <1>3. j.srv # None => /\ req[j.srv].st = "wait"
                        /\ \A m \in 1 .. Len(jobs) : jobs[m].srv # j.srv
                        /\ \A v \in Worker : wk[v].job.srv = j.srv => v = w
    BY DEF TableInv, LiveInv
  <1>. HIDE DEF j
  <1>4. TypeInv'  BY <1>1, <1>2 DEF TableInv, TypeInv
  <1>5. Unique' /\ Kept'
    <2>1. \A t \in Srv : req'[t].st # "idle" => req[t].st # "idle" /\ req'[t].key = req[t].key
      BY <1>1, <1>2, <1>3, Values
    <2>. QED  BY <1>1, <2>1, SameTable DEF TableInv
  <1>6. wk'[w].job.srv = None  BY <1>1 DEF Idle, NoJob
  <1>7. \A m \in 1 .. Len(jobs) : jobs[m].srv # None =>
           jobs[m].srv # j.srv /\ req'[jobs[m].srv] = req[jobs[m].srv]
    BY <1>2, <1>3, JobTypes DEF TableInv
  <1>8. \A v \in Worker : wk'[v].job.srv # None =>
           /\ v # w /\ wk'[v] = wk[v] /\ wk[v].job.srv # j.srv
           /\ req'[wk[v].job.srv] = req[wk[v].job.srv]
    <2>1. \A v \in Worker : wk[v].job.srv \in Srv \cup {None}  BY JobTypes DEF TableInv
    <2>. QED  BY <2>1, <1>1, <1>2, <1>3, <1>6 DEF j
  <1>9. FullResendTaken'  BY <1>1, <1>2, Values DEF TableInv, LiveInv, FullResendTaken
  <1>10. LiveInv'
    <2>1. ASSUME NEW v \in Worker, wk'[v].job.srv # None
          PROVE  /\ Busy(v)' /\ req'[wk'[v].job.srv].st = "wait"
                 /\ \A n \in 1 .. Len(jobs) : jobs[n].srv # wk'[v].job.srv
                 /\ \A u \in Worker : wk'[u].job.srv = wk'[v].job.srv => u = v
      <3>1. /\ v # w /\ wk'[v] = wk[v] /\ wk[v].job.srv # None
            /\ req'[wk[v].job.srv] = req[wk[v].job.srv]
        BY <2>1, <1>8
      <3>2. /\ Busy(v) /\ req[wk[v].job.srv].st = "wait"
            /\ \A n \in 1 .. Len(jobs) : jobs[n].srv # wk[v].job.srv
            /\ \A u \in Worker : wk[u].job.srv = wk[v].job.srv => u = v
        BY <3>1 DEF TableInv, LiveInv
      <3>3. \A u \in Worker : wk'[u].job.srv = wk[v].job.srv => u = v
        BY <3>1, <3>2, <1>8
      <3>. QED  BY <3>1, <3>2, <3>3 DEF Busy
    <2>. QED  BY <2>1, <1>1, <1>7, <1>9 DEF TableInv, LiveInv
  <1>. QED  BY <1>4, <1>5, <1>10 DEF TableInv

\* A request without a session overwrites rows, but only with tokens.
LEMMA PlainInferTable ==
    ASSUME TableInv, PlainInfer
    PROVE  TableInv'
  <1>1. PICK p \in Prompts, gen \in Gens :
            kv' = [i \in 1 .. Len(kv) |-> IF i <= Len(p \o gen) THEN (p \o gen)[i] ELSE kv[i]]
    BY DEF PlainInfer
  <1>2. UNCHANGED <<sess, req, sessFile, kvFile, up, mode, jobs, wk, engine_lock, cache_key>>
    BY DEF PlainInfer, server, files
  <1>3. kv' \in Seq(Token)
    <2>. DEFINE q == p \o gen
    <2>1. q \in Seq(Token)
      <3>1. p \in Seq(Token) /\ gen \in Seq(Token)  BY Values
      <3>. QED  BY <3>1, ConcatProperties
    <2>2. kv \in Seq(Token) /\ Len(kv) \in Nat  BY DEF TableInv, TypeInv
    <2>3. \A i \in 1 .. Len(kv) : (IF i <= Len(q) THEN q[i] ELSE kv[i]) \in Token
      <3>. HIDE DEF q
      <3>. SUFFICES ASSUME NEW i \in 1 .. Len(kv)
                    PROVE  (IF i <= Len(q) THEN q[i] ELSE kv[i]) \in Token
        OBVIOUS
      <3>1. i <= Len(q) => i \in 1 .. Len(q)  BY <2>1, <2>2
      <3>2. i <= Len(q) => q[i] \in Token  BY <3>1, <2>1, ElementOfSeq
      <3>3. kv[i] \in Token  BY <2>2, ElementOfSeq
      <3>. QED  BY <3>2, <3>3
    <2>. HIDE DEF q
    <2>. QED  BY <1>1, <2>2, <2>3 DEF q
  <1>4. TypeInv'  BY <1>2, <1>3 DEF TableInv, TypeInv
  <1>5. Unique' /\ Kept'  BY <1>2, SameTable DEF TableInv
  <1>6. LiveInv'  BY <1>2 DEF TableInv, LiveInv, Busy, FullResendTaken
  <1>. QED  BY <1>4, <1>5, <1>6 DEF TableInv

LEMMA RankDiesTable ==
    ASSUME TableInv, RankDies
    PROVE  TableInv'
  <1>1. /\ jobs' = <<>> /\ wk' = [w \in Worker |-> Idle] /\ cache_key' = None /\ kv' = <<>>
        /\ req' = [s \in Srv |-> IF req[s].st = "wait" THEN NoReq ELSE req[s]]
        /\ \/ kvFile' = kvFile
           \/ cache_key # None /\ kvFile' = [kvFile EXCEPT ![FileName[cache_key]] = Bad]
        /\ UNCHANGED <<mode, sess, sessFile>>
    BY DEF RankDies
  <1>2. kvFile' \in [Keys -> File]  BY <1>1 DEF TableInv, TypeInv, File
  <1>3. req' \in [Srv -> Request] /\ wk' \in [Worker -> Thread]
    BY <1>1, Records DEF TableInv, TypeInv
  <1>4. \A w \in Worker : wk'[w].job.srv = None  BY <1>1 DEF Idle, NoJob
  <1>5. TypeInv'
    <2>1. <<>> \in Seq(Job) /\ <<>> \in Seq(Token)  OBVIOUS
    <2>. QED  BY <1>1, <1>2, <1>3, <2>1 DEF TableInv, TypeInv
  <1>6. NoReq.st = "idle"  BY DEF NoReq
  <1>7. Unique' /\ Kept'
    <2>1. \A t \in Srv : req'[t].st # "idle" => req[t].st # "idle" /\ req'[t].key = req[t].key
      BY <1>1, <1>6
    <2>. QED  BY <1>1, <2>1, SameTable DEF TableInv
  <1>8. FullResendTaken'  BY <1>1, <1>6 DEF TableInv, LiveInv, FullResendTaken
  <1>9. Len(jobs') = 0  BY <1>1
  <1>10. LiveInv'  BY <1>4, <1>8, <1>9 DEF LiveInv
  <1>. QED  BY <1>5, <1>7, <1>10 DEF TableInv

LEMMA TableInit ==
    ASSUME Init
    PROVE  TableInv
  <1>1. TypeInv
    <2>1. <<>> \in Seq(Job) /\ <<>> \in Seq(Token) /\ <<>> \in Seq(Entry)  OBVIOUS
    <2>. QED  BY <2>1, Records DEF Init, TypeInv, File
  <1>2. \A s \in Srv : Len(sess[s]) = 0  BY DEF Init
  <1>3. Len(jobs) = 0  BY DEF Init
  <1>. QED  BY <1>1, <1>2, <1>3
          DEF Init, TableInv, Unique, Kept, LiveInv, FullResendTaken, NoReq, Idle, NoJob

LEMMA TableStep ==
    ASSUME TableInv, [Next]_vars
    PROVE  TableInv'
  <1>1. CASE \E s \in Srv : WithKey(s) \/ WithoutKey(s)
    <2>1. PICK s \in Srv, k \in Keys, full \in Prompts : Start(s, k, full)
      <3>1. \A s \in Srv, full \in Prompts : BestPrefix(s, full) \subseteq Keys
        BY DEF BestPrefix
      <3>2. \A k \in Key \cup AutoKey : k \in Keys  BY DEF Keys
      <3>. QED  BY <1>1, <3>1, <3>2 DEF WithKey, WithoutKey
    <2>. QED  BY <2>1, StartTable
  <1>2. CASE \E s \in Srv : SrvStep(s)
    BY <1>2, DoneTable, ResendTable, RefuseTable DEF SrvStep
  <1>3. CASE \E s \in Srv : Timeout(s)  BY <1>3, TimeoutTable
  <1>4. CASE \E s \in Srv : SrvDies(s)  BY <1>4, SrvDiesTable
  <1>5. CASE RankStep  BY <1>5, BeginTable, RunTable, SaveTable DEF RankStep
  <1>6. CASE PlainInfer  BY <1>6, PlainInferTable
  <1>7. CASE RankDies  BY <1>7, RankDiesTable
  <1>8. CASE RankStarts \/ UNCHANGED vars
    <2>1. UNCHANGED <<sess, req, sessFile, kvFile, mode, jobs, wk, cache_key, kv>>
      BY <1>8 DEF RankStarts, vars, server, files, engine
    <2>2. TypeInv'  BY <2>1 DEF TableInv, TypeInv
    <2>3. Unique' /\ Kept'  BY <2>1, SameTable DEF TableInv
    <2>4. LiveInv'  BY <2>1 DEF TableInv, LiveInv, Busy, FullResendTaken
    <2>. QED  BY <2>2, <2>3, <2>4 DEF TableInv
  <1>. QED  BY <1>1, <1>2, <1>3, <1>4, <1>5, <1>6, <1>7, <1>8 DEF Next

\* A full resend is never refused with "rebuild", whatever is lost, cut back or
\* overwritten, for any number of servers and work threads: the branch of
\* forward_infer_sess that starts the session afresh after one is dead code.
THEOREM FullResendIsTaken == Spec => []FullResendTaken
  <1>1. Init => TableInv  BY TableInit
  <1>2. TableInv /\ [Next]_vars => TableInv'  BY TableStep
  <1>3. TableInv => FullResendTaken  BY DEF TableInv, LiveInv
  <1>. QED  BY <1>1, <1>2, <1>3, PTL DEF Spec

-----------------------------------------------------------------------------
(* One server with one work thread: sessions and cached rows go together.  *)

\* Beginnings of sequences.
LEMMA PrefixFacts ==
    ASSUME NEW u \in Seq(Token), NEW v \in Seq(Token), NEW w \in Seq(Token)
    PROVE  /\ Prefix(u, v) /\ Prefix(v, w) => Prefix(u, w)
           /\ Prefix(u, w) /\ Prefix(v, w) => Agrees(u, v)
           /\ Prefix(u, v) /\ Agrees(v, w) => Agrees(u, w)
           /\ Agrees(u, w) /\ Prefix(v, w) => Agrees(u, v)
           /\ Prefix(u, v) => Agrees(u, v)
           /\ Agrees(u, v) /\ Len(u) <= Len(v) => Prefix(u, v)
  <1>1. Len(u) \in Nat /\ Len(v) \in Nat /\ Len(w) \in Nat  OBVIOUS
  <1>. QED  BY <1>1 DEF Prefix, Agrees

LEMMA EmptyPrefix ==
    ASSUME NEW u \in Seq(Token)
    PROVE  /\ <<>> \in Seq(Token) /\ Prefix(<<>>, u) /\ Prefix(u, u)
           /\ Agrees(<<>>, u) /\ Agrees(u, <<>>)
  <1>1. Len(u) \in Nat /\ Len(<<>>) = 0  OBVIOUS
  <1>. QED  BY <1>1 DEF Prefix, Agrees

LEMMA TakePrefix ==
    ASSUME NEW q \in Seq(Token), NEW n \in 0 .. Len(q)
    PROVE  Take(q, n) \in Seq(Token) /\ Len(Take(q, n)) = n /\ Prefix(Take(q, n), q)
  <1>1. Take(q, n) \in Seq(Token) /\ Len(Take(q, n)) = n
        /\ \A i \in 1 .. n : Take(q, n)[i] = q[i]
    BY TakeProperties
  <1>. QED  BY <1>1 DEF Prefix

\* A beginning of u is u up to its length.
LEMMA PrefixIsTake ==
    ASSUME NEW u \in Seq(Token), NEW v \in Seq(Token), Prefix(u, v)
    PROVE  Len(u) \in 0 .. Len(v) /\ u = Take(v, Len(u))
  <1>. DEFINE n == Len(u)
              t == Take(v, n)
  <1>1. n \in 0 .. Len(v)  BY DEF Prefix
  <1>2. t \in Seq(Token) /\ Len(t) = n /\ \A i \in 1 .. n : t[i] = v[i]
    BY <1>1, TakeProperties
  <1>3. \A i \in 1 .. Len(u) : u[i] = t[i]  BY <1>2 DEF Prefix
  <1>4. u = t
    <2>. HIDE DEF t
    <2>. QED  BY <1>2, <1>3, SeqEqual
  <1>. QED  BY <1>1, <1>4

LEMMA ConcatPrefix ==
    ASSUME NEW u \in Seq(Token), NEW v \in Seq(Token)
    PROVE  u \o v \in Seq(Token) /\ Len(u \o v) = Len(u) + Len(v) /\ Prefix(u, u \o v)
  <1>1. u \o v \in Seq(Token) /\ Len(u \o v) = Len(u) + Len(v)
        /\ \A i \in 1 .. Len(u) + Len(v) :
              (u \o v)[i] = IF i <= Len(u) THEN u[i] ELSE v[i - Len(u)]
    BY ConcatProperties
  <1>2. Len(u) \in Nat /\ Len(v) \in Nat  OBVIOUS
  <1>. QED  BY <1>1, <1>2 DEF Prefix

LEMMA Associative ==
    ASSUME NEW a \in Seq(Token), NEW b \in Seq(Token), NEW c \in Seq(Token)
    PROVE  a \o (b \o c) = (a \o b) \o c
  <1>. DEFINE bc == b \o c
              ab == a \o b
              l == a \o bc
              r == ab \o c
              n == Len(a) + Len(b) + Len(c)
  <1>0. Len(a) \in Nat /\ Len(b) \in Nat /\ Len(c) \in Nat  OBVIOUS
  <1>1. bc \in Seq(Token) /\ Len(bc) = Len(b) + Len(c)
        /\ \A i \in 1 .. Len(b) + Len(c) : bc[i] = IF i <= Len(b) THEN b[i] ELSE c[i - Len(b)]
    BY ConcatProperties
  <1>2. ab \in Seq(Token) /\ Len(ab) = Len(a) + Len(b)
        /\ \A i \in 1 .. Len(a) + Len(b) : ab[i] = IF i <= Len(a) THEN a[i] ELSE b[i - Len(a)]
    BY ConcatProperties
  <1>. HIDE DEF bc, ab
  <1>a. bc \in Seq(Token)  BY <1>1
  <1>b. ab \in Seq(Token)  BY <1>2
  <1>3. l \in Seq(Token) /\ Len(l) = Len(a) + Len(bc)
        /\ \A i \in 1 .. Len(a) + Len(bc) : l[i] = IF i <= Len(a) THEN a[i] ELSE bc[i - Len(a)]
    BY <1>a, ConcatProperties
  <1>4. r \in Seq(Token) /\ Len(r) = Len(ab) + Len(c)
        /\ \A i \in 1 .. Len(ab) + Len(c) : r[i] = IF i <= Len(ab) THEN ab[i] ELSE c[i - Len(ab)]
    BY <1>b, ConcatProperties
  <1>. HIDE DEF l, r
  <1>5. Len(l) = n /\ Len(r) = n  BY <1>0, <1>1, <1>2, <1>3, <1>4
  <1>6. \A i \in 1 .. n : l[i] = r[i]
    <2>. SUFFICES ASSUME NEW i \in 1 .. n PROVE l[i] = r[i]  OBVIOUS
    <2>0. i \in Nat /\ i > 0 /\ i <= Len(a) + Len(b) + Len(c)  BY <1>0
    <2>1. CASE i <= Len(a)
      <3>1. i \in 1 .. Len(a) + Len(bc) /\ i \in 1 .. Len(ab) + Len(c)
            /\ i \in 1 .. Len(a) + Len(b) /\ i <= Len(ab)
        BY <2>0, <2>1, <1>0, <1>1, <1>2
      <3>. QED  BY <2>1, <3>1, <1>2, <1>3, <1>4
    <2>2. CASE i > Len(a) /\ i <= Len(a) + Len(b)
      <3>1. /\ i \in 1 .. Len(a) + Len(bc) /\ i \in 1 .. Len(ab) + Len(c)
            /\ i \in 1 .. Len(a) + Len(b) /\ i <= Len(ab) /\ ~(i <= Len(a))
            /\ i - Len(a) \in 1 .. Len(b) + Len(c) /\ i - Len(a) <= Len(b)
        BY <2>0, <2>2, <1>0, <1>1, <1>2
      <3>2. l[i] = b[i - Len(a)]  BY <3>1, <1>1, <1>3
      <3>3. r[i] = b[i - Len(a)]  BY <3>1, <1>2, <1>4
      <3>. QED  BY <3>2, <3>3
    <2>3. CASE i > Len(a) + Len(b)
      <3>1. /\ i \in 1 .. Len(a) + Len(bc) /\ i \in 1 .. Len(ab) + Len(c)
            /\ ~(i <= Len(ab)) /\ ~(i <= Len(a))
            /\ i - Len(a) \in 1 .. Len(b) + Len(c) /\ ~(i - Len(a) <= Len(b))
            /\ (i - Len(a)) - Len(b) = i - Len(ab)
        BY <2>0, <2>3, <1>0, <1>1, <1>2
      <3>2. l[i] = c[i - Len(ab)]  BY <3>1, <1>1, <1>3
      <3>3. r[i] = c[i - Len(ab)]  BY <3>1, <1>4
      <3>. QED  BY <3>2, <3>3
    <2>. QED  BY <2>0, <2>1, <2>2, <2>3, <1>0
  <1>7. l = r  BY <1>3, <1>4, <1>5, <1>6, SeqEqual
  <1>. QED  BY <1>7 DEF l, r, bc, ab

\* What a session is after an answer g, when it was the beginning u of the prompt p.
LEMMA CommitFacts ==
    ASSUME NEW u \in Seq(Token), NEW p \in Seq(Token), NEW g \in Seq(Token), Prefix(u, p)
    PROVE  /\ u \o (Drop(p, Len(u)) \o g \o <<Eos>>) = p \o g \o <<Eos>>
           /\ p \o g \o <<Eos>> \in Seq(Token)
  <1>. DEFINE t == Drop(p, Len(u))
              e == <<Eos>>
  <1>1. Len(u) \in 0 .. Len(p) /\ u = Take(p, Len(u))  BY PrefixIsTake
  <1>2. u \o t = p
    <2>1. Take(p, Len(u)) \o Drop(p, Len(u)) = p  BY <1>1, TakeDrop
    <2>. QED  BY <1>1, <2>1
  <1>3. t \in Seq(Token)  BY <1>1, DropProperties
  <1>4. e \in Seq(Token)  BY Values
  <1>. HIDE DEF t, e
  <1>. DEFINE tg == t \o g
              pg == p \o g
  <1>5. tg \in Seq(Token)  BY <1>3, ConcatProperties
  <1>6. pg \in Seq(Token)  BY ConcatProperties
  <1>7. u \o tg = (u \o t) \o g  BY <1>3, Associative
  <1>8. u \o tg = pg  BY <1>2, <1>7
  <1>9. t \o g \o e = tg \o e /\ p \o g \o e = pg \o e  OBVIOUS
  <1>. HIDE DEF tg, pg
  <1>10. u \o (tg \o e) = (u \o tg) \o e  BY <1>4, <1>5, Associative
  <1>11. pg \o e \in Seq(Token)  BY <1>4, <1>6, ConcatProperties
  <1>12. u \o (tg \o e) = pg \o e  BY <1>8, <1>10
  <1>. QED  BY <1>9, <1>11, <1>12 DEF t, e

\* What the theorems below ask of a deployment: clients do not ask again for a prompt
\* that is cached completely and, with files, the server does not crash and does not
\* evict.
InUse(m) == Key \cup (IF m.autoKey THEN AutoKey ELSE {})
Steady(m) == ~m.regenerate /\ (m.cacheDir => ~m.srvCrash /\ Cardinality(InUse(m)) <= SessCap)
OneServer == \A s, t \in Srv : s = t
OneThread == \A v, w \in Worker : v = w

\* No two of the clients' keys share a file: they differ in their first 63 bytes, and
\* not only in characters that are replaced.
ClientKeys == Key \cup AutoKey
KeysApart == \A j, k \in ClientKeys :
                SessName(j) = SessName(k) \/ KvName(j) = KvName(k) => j = k

Together == OneServer /\ OneThread /\ KeysApart /\ \A m \in Modes : m.plain \/ Steady(m)

\* The keys a rank hears of.
RankKeys == {RankKey[k] : k \in ClientKeys}

\* A session that has a file is in the table.
FileInv ==
    /\ ~mode.cacheDir => \A k \in Keys : sessFile[k] = None /\ kvFile[k] = None
    /\ mode.cacheDir => \A k \in ClientKeys, s \in Srv :
                           sessFile[FileName[k]] # None => Known(s, k)
    /\ \A s \in Srv, k \in Keys : Known(s, k) => k \in InUse(mode)
    /\ cache_key \in RankKeys \cup {None}

\* The request goes on where its session ends.
RequestInv ==
    \A s \in Srv : req[s].st # "idle" =>
        /\ req[s].key \in InUse(mode) /\ ~req[s].replay /\ req[s].full \in Prompts
        /\ Prefix(Toks(s, req[s].key), req[s].full)
        /\ req[s].resume = Len(Toks(s, req[s].key))
        /\ req[s].tokens = Drop(req[s].full, req[s].resume)

\* The job of a request is the youngest of the rank.
Of(j, s) == j.key = RankKey[req[s].key] /\ j.prompt = req[s].full
LastInv ==
    /\ \A m \in 1 .. Len(jobs) : jobs[m].srv # None =>
          m = Len(jobs) /\ Of(jobs[m], jobs[m].srv)
    /\ \A w \in Worker : wk[w].job.srv # None => jobs = <<>> /\ Of(wk[w].job, wk[w].job.srv)

\* The rows a job counts on; with what it brings they are its prompt.
Basis(j) == Take(j.prompt, j.resume)
Sound(j) == /\ j.prompt \in Prompts /\ j.resume <= Len(j.prompt)
            /\ j.delta = Drop(j.prompt, j.resume) /\ j.key \in RankKeys

\* An inference owns the cache, and the answer follows the prompt.
WorkInv ==
    /\ \A m \in 1 .. Len(jobs) : Sound(jobs[m])
    /\ \A w \in Worker : Busy(w) => Sound(wk[w].job) /\ wk[w].job \in Job
                                    /\ cache_key = wk[w].job.key
    /\ \A w \in Worker : wk[w].pc = "engine" =>
          kv = Basis(wk[w].job) /\ Len(wk[w].job.prompt) <= mode.maxSeq
    /\ \A w \in Worker : wk[w].pc = "save" =>
          /\ wk[w].ctx = wk[w].job.prompt /\ Prefix(wk[w].ctx, kv)
          /\ Agrees(wk[w].ctx \o wk[w].gen \o <<Eos>>, kv)

\* Whatever is asked of a session after a job j starts with a part of j's prompt: who
\* is still to come finds the rows that j will leave behind right.
Covers(j) == \A s \in Srv, k \in ClientKeys :
                RankKey[k] = j.key /\ Known(s, k) => Prefix(Toks(s, k), j.prompt)
Before(j, i) == i.key = j.key => Prefix(Basis(i), j.prompt)
OrderInv ==
    /\ \A m \in 1 .. Len(jobs) :
          Covers(jobs[m]) /\ \A n \in 1 .. Len(jobs) : m < n => Before(jobs[m], jobs[n])
    /\ \A w \in Worker : Busy(w) =>
          Covers(wk[w].job) /\ \A n \in 1 .. Len(jobs) : Before(wk[w].job, jobs[n])

\* The rows the rank has under key k, in the engine and in the file, agree with u.
Aligned(k, u) ==
    /\ cache_key = k => Agrees(u, kv)
    /\ IsFile(kvFile[FileName[k]]) => Agrees(u, kvFile[FileName[k]])
AlignInv ==
    /\ \A s \in Srv, k \in ClientKeys : Known(s, k) => Aligned(RankKey[k], Toks(s, k))
    /\ \A m \in 1 .. Len(jobs) : Aligned(jobs[m].key, Basis(jobs[m]))
    /\ \A s \in Srv : req[s].st = "done" =>
          /\ jobs = <<>> /\ \A w \in Worker : ~Busy(w)
          /\ Aligned(RankKey[req[s].key], req[s].full \o req[s].gen \o <<Eos>>)

\* Keys that are apart have files of their own, and keys of their own at the rank.
LEMMA Apart ==
    ASSUME KeysApart
    PROVE  /\ \A i, j \in RankKeys : FileName[i] = FileName[j] => i = j
           /\ \A i, j \in ClientKeys : RankKey[i] = RankKey[j] => i = j
           /\ \A i, j \in ClientKeys : FileName[i] = FileName[j] => i = j
  <1>1. \A i, j \in ClientKeys : FileName[RankKey[i]] = FileName[RankKey[j]] => i = j
    BY DEF KeysApart, KvName
  <1>2. \A i, j \in ClientKeys : FileName[i] = FileName[j] => i = j
    BY DEF KeysApart, SessName
  <1>. QED  BY <1>1, <1>2 DEF RankKeys

\* What the clients' keys, the keys in use and the rank's keys are.
LEMMA KeySets ==
    /\ ClientKeys \subseteq Keys /\ RankKeys \subseteq Keys
    /\ \A m : InUse(m) \subseteq ClientKeys
    /\ \A k \in ClientKeys : RankKey[k] \in RankKeys
  BY Names DEF ClientKeys, RankKeys, InUse, Keys

Content == FileInv /\ RequestInv /\ LastInv /\ WorkInv /\ OrderInv /\ AlignInv

LEMMA BasisFacts ==
    ASSUME NEW j \in Job, Sound(j)
    PROVE  /\ j.prompt \in Seq(Token) /\ Len(j.prompt) \in Nat \ {0}
           /\ j.resume \in 0 .. Len(j.prompt)
           /\ Basis(j) \in Seq(Token) /\ Len(Basis(j)) = j.resume
           /\ Prefix(Basis(j), j.prompt)
           /\ Basis(j) \o j.delta = j.prompt
           /\ j.delta \in Seq(Token) /\ Len(j.delta) = Len(j.prompt) - j.resume
  <1>. DEFINE p == j.prompt
              n == j.resume
  <1>1. p \in Seq(Token) /\ Len(p) \in Nat \ {0} /\ n \in 0 .. Len(p)
    BY Values DEF Sound, Job
  <1>. HIDE DEF p, n
  <1>2. Take(p, n) \in Seq(Token) /\ Len(Take(p, n)) = n /\ Prefix(Take(p, n), p)
    BY <1>1, TakePrefix
  <1>3. Drop(p, n) \in Seq(Token) /\ Len(Drop(p, n)) = Len(p) - n  BY <1>1, DropProperties
  <1>4. Take(p, n) \o Drop(p, n) = p  BY <1>1, TakeDrop
  <1>. QED  BY <1>1, <1>2, <1>3, <1>4 DEF Sound, Basis, p, n

LEMMA AlignedPrefix ==
    ASSUME TypeInv, NEW k \in Keys, NEW v \in Seq(Token), NEW u \in Seq(Token),
           Aligned(k, v), Prefix(u, v)
    PROVE  Aligned(k, u)
  <1>1. kv \in Seq(Token) /\ (IsFile(kvFile[FileName[k]]) => kvFile[FileName[k]] \in Seq(Token))
    BY Names DEF TypeInv, File, IsFile
  <1>. QED  BY <1>1, PrefixFacts DEF Aligned

LEMMA AlignedEmpty ==
    ASSUME TypeInv, NEW k \in Keys
    PROVE  Aligned(k, <<>>)
  <1>1. kv \in Seq(Token) /\ (IsFile(kvFile[FileName[k]]) => kvFile[FileName[k]] \in Seq(Token))
    BY Names DEF TypeInv, File, IsFile
  <1>. QED  BY <1>1, EmptyPrefix DEF Aligned

\* As many sessions as the table has room for: the new one fits.
LEMMA Fits ==
    ASSUME TypeInv, Unique, FileInv, NEW s \in Srv, NEW k \in InUse(mode), ~Known(s, k),
           Cardinality(InUse(mode)) <= SessCap
    PROVE  Len(sess[s]) < SessCap
  <1>. DEFINE n == Len(sess[s])
              T == InUse(mode) \ {k}
              f == [i \in 1 .. n |-> sess[s][i][1]]
  <1>1. n \in Nat  BY DEF TypeInv
  <1>2. IsFiniteSet(InUse(mode))
    <2>1. InUse(mode) \in SUBSET Keys  BY KeySets
    <2>. QED  BY <2>1, Values, FS_Subset
  <1>3. /\ IsFiniteSet(T) /\ Cardinality(T) = Cardinality(InUse(mode)) - 1
        /\ Cardinality(InUse(mode)) \in Nat
    BY <1>2, FS_RemoveElement, FS_CardinalityType
  <1>4. IsFiniteSet(1 .. n) /\ Cardinality(1 .. n) = n
    <2>. HIDE DEF n
    <2>1. Cardinality(1 .. n) = IF 1 > n THEN 0 ELSE n - 1 + 1  BY <1>1, FS_Interval
    <2>2. IsFiniteSet(1 .. n)  BY <1>1, FS_Interval
    <2>. QED  BY <2>1, <2>2, <1>1
  <1>5. f \in [1 .. n -> T]
    <2>1. \A i \in 1 .. n : Known(s, sess[s][i][1]) /\ sess[s][i][1] \in Keys
      BY EntryKnown
    <2>. QED  BY <2>1 DEF FileInv
  <1>6. \A i, j \in 1 .. n : f[i] = f[j] => i = j  BY DEF Unique
  <1>7. ~(Cardinality(T) < n)
    <2>. SUFFICES ASSUME Cardinality(T) < n PROVE FALSE  OBVIOUS
    <2>. DEFINE D == 1 .. n
    <2>1. /\ IsFiniteSet(D) /\ Cardinality(T) < Cardinality(D) /\ f \in [D -> T]
          /\ \A i, j \in D : f[i] = f[j] => i = j
      BY <1>4, <1>5, <1>6
    <2>. HIDE DEF f, T, n, D
    <2>2. \E i, j \in D : i # j /\ f[i] = f[j]  BY <1>3, <2>1, FS_PigeonHole
    <2>. QED  BY <2>1, <2>2
  <1>. QED  BY <1>1, <1>3, <1>7, Values

\* A job that is appended to the queue.
LEMMA Appended ==
    ASSUME TypeInv, NEW j \in Job, jobs' = Append(jobs, j) \/ jobs' = jobs
    PROVE  /\ Len(jobs) \in Nat /\ Len(jobs') \in Nat
           /\ \A m \in 1 .. Len(jobs') :
                 \/ m \in 1 .. Len(jobs) /\ jobs'[m] = jobs[m]
                 \/ m = Len(jobs) + 1 /\ m = Len(jobs') /\ jobs'[m] = j /\ jobs' = Append(jobs, j)
  <1>1. jobs \in Seq(Job) /\ Len(jobs) \in Nat  BY DEF TypeInv
  <1>2. CASE jobs' = jobs  BY <1>1, <1>2
  <1>3. CASE jobs' = Append(jobs, j)
    <2>1. /\ Len(jobs') = Len(jobs) + 1 /\ jobs'[Len(jobs) + 1] = j
          /\ \A m \in 1 .. Len(jobs) : jobs'[m] = jobs[m]
      BY <1>1, <1>3, AppendProperties
    <2>. QED  BY <1>1, <1>3, <2>1
  <1>. QED  BY <1>2, <1>3

\* The job of a request that goes on where its session ends.
LEMMA JobOfFacts ==
    ASSUME NEW s \in Srv, NEW r \in Request, r.key \in ClientKeys, NEW v \in Seq(Token),
           r.full \in Prompts, Prefix(v, r.full), r.resume = Len(v),
           r.tokens = Drop(r.full, r.resume)
    PROVE  /\ JobOf(s, r, v) \in Job /\ Sound(JobOf(s, r, v))
           /\ JobOf(s, r, v).key = RankKey[r.key] /\ JobOf(s, r, v).srv = s
           /\ JobOf(s, r, v).prompt = r.full
           /\ Basis(JobOf(s, r, v)) \in Seq(Token) /\ Prefix(Basis(JobOf(s, r, v)), v)
  <1>. DEFINE j == JobOf(s, r, v)
              p == r.full
              n == r.resume
  <1>1. p \in Seq(Token) /\ Len(p) \in Nat /\ n \in 0 .. Len(p) /\ v = Take(p, n)
    BY Values, PrefixIsTake
  <1>2. /\ j.srv = s /\ j.key = RankKey[r.key] /\ j.prompt = p /\ j.resume = (IF r.sent THEN 0 ELSE n)
        /\ j.delta = IF r.sent THEN v \o r.tokens ELSE r.tokens
    BY DEF JobOf
  <1>3. v \o Drop(p, n) = p
    <2>. HIDE DEF p, n
    <2>. QED  BY <1>1, TakeDrop
  <1>4. Drop(p, n) \in Seq(Token)
    <2>. HIDE DEF p, n
    <2>. QED  BY <1>1, DropProperties
  <1>5. Drop(p, 0) = p /\ Take(p, 0) = <<>>
    <2>. HIDE DEF p, n
    <2>1. Take(p, 0) = <<>>  BY <1>1, SubSeqEmpty DEF Take
    <2>2. 0 \in 0 .. Len(p)  BY <1>1
    <2>3. /\ Drop(p, 0) \in Seq(Token) /\ Len(Drop(p, 0)) = Len(p) - 0
          /\ \A i \in 1 .. (Len(p) - 0) : Drop(p, 0)[i] = p[0 + i]
      BY <1>1, <2>2, DropProperties
    <2>4. Len(Drop(p, 0)) = Len(p) /\ \A i \in 1 .. Len(p) : Drop(p, 0)[i] = p[i]
      BY <1>1, <2>3
    <2>. QED  BY <1>1, <2>1, <2>3, <2>4, SeqEqual
  <1>6. r.tokens = Drop(p, n)  OBVIOUS
  <1>. HIDE DEF p, n
  <1>7. j \in Job
    <2>1. (IF r.sent THEN 0 ELSE n) \in Nat /\ p \in Seq(Token)  BY <1>1
    <2>2. (IF r.sent THEN v \o r.tokens ELSE r.tokens) \in Seq(Token)  BY <1>1, <1>3, <1>4, <1>6
    <2>3. RankKey[r.key] \in Keys  BY KeySets, Names
    <2>. QED  BY <2>1, <2>2, <2>3 DEF JobOf, Job, p, n
  <1>. HIDE DEF j
  <1>8. Sound(j)
    <2>1. p \in Prompts /\ j.resume <= Len(p)  BY <1>1, <1>2 DEF p
    <2>2. j.delta = Drop(p, j.resume)  BY <1>2, <1>3, <1>5, <1>6
    <2>3. j.key \in RankKeys  BY <1>2, KeySets
    <2>. QED  BY <2>1, <2>2, <2>3, <1>2 DEF Sound
  <1>9. Basis(j) \in Seq(Token) /\ Prefix(Basis(j), v)
    <2>1. Basis(j) = IF r.sent THEN <<>> ELSE v  BY <1>1, <1>2, <1>5 DEF Basis
    <2>. QED  BY <2>1, EmptyPrefix
  <1>. QED  BY <1>2, <1>7, <1>8, <1>9 DEF j, p

\* A request is sent: the session keeps a beginning v of what it was, and the prompt
\* goes on from there.
LEMMA SendContent ==
    ASSUME TableInv, Content, OneServer, KeysApart, NEW s \in Srv, req[s].st # "wait",
           NEW k \in InUse(mode), NEW v \in Seq(Token), sess' = Put(s, k, v),
           mode.cacheDir => Known(s, k) \/ Len(sess[s]) < SessCap,
           IF Known(s, k) THEN Prefix(v, Toks(s, k)) ELSE v = <<>>,
           NEW r \in Request, r.key = k, ~r.replay, r.full \in Prompts, Prefix(v, r.full),
           r.resume = Len(v), r.tokens = Drop(r.full, r.resume), Send(s, r, v),
           NEW name \in Keys, kvFile' \in {kvFile, [kvFile EXCEPT ![name] = None]},
           UNCHANGED <<sessFile, up, mode, wk, engine_lock, cache_key, kv>>
    PROVE  Content'
  <1>. DEFINE j == JobOf(s, r, v)
  <1>1. k \in ClientKeys /\ k \in Keys /\ RankKey[k] \in Keys /\ TypeInv /\ Unique
    BY KeySets, Names DEF TableInv
  <1>2. \A t \in Srv : t = s  BY DEF OneServer
  <1>3. /\ \A m \in 1 .. Len(jobs) : jobs[m].srv = None
        /\ \A w \in Worker : wk[w].job.srv = None
    BY <1>2, Gone
  <1>4. /\ j \in Job /\ Sound(j) /\ j.key = RankKey[k] /\ j.srv = s /\ j.prompt = r.full
        /\ Basis(j) \in Seq(Token) /\ Prefix(Basis(j), v)
    BY <1>1, JobOfFacts
  <1>5. \/ req'[s].st = "idle" /\ jobs' = jobs
        \/ /\ req'[s].st \in {"err", "wait"} /\ req'[s].key = k /\ ~req'[s].replay
           /\ req'[s].full = r.full /\ req'[s].resume = r.resume /\ req'[s].tokens = r.tokens
           /\ jobs' \in {jobs, Append(jobs, j)} /\ (jobs' = Append(jobs, j) => req'[s].st = "wait")
    <2>1. \/ req'[s] = NoReq /\ jobs' = jobs
          \/ req'[s] = [r EXCEPT !.st = "err"] /\ jobs' = jobs
          \/ req'[s] = [r EXCEPT !.st = "wait"] /\ jobs' = Append(jobs, j)
      BY <1>1, SendProperties
    <2>2. NoReq.st = "idle"  BY DEF NoReq
    <2>3. ASSUME NEW st \in {"err", "wait"}
          PROVE  LET q == [r EXCEPT !.st = st] IN
                 /\ q.st = st /\ q.key = k /\ ~q.replay /\ q.full = r.full
                 /\ q.resume = r.resume /\ q.tokens = r.tokens
      BY DEF Request
    <2>. HIDE DEF j
    <2>4. CASE req'[s] = NoReq /\ jobs' = jobs  BY <2>2, <2>4
    <2>5. CASE req'[s] = [r EXCEPT !.st = "err"] /\ jobs' = jobs  BY <2>3, <2>5
    <2>6. CASE req'[s] = [r EXCEPT !.st = "wait"] /\ jobs' = Append(jobs, j)  BY <2>3, <2>6
    <2>. QED  BY <2>1, <2>4, <2>5, <2>6
  <1>. HIDE DEF j
  <1>6. /\ Len(jobs) \in Nat /\ Len(jobs') \in Nat
        /\ \A m \in 1 .. Len(jobs') :
              \/ m \in 1 .. Len(jobs) /\ jobs'[m] = jobs[m]
              \/ m = Len(jobs) + 1 /\ m = Len(jobs') /\ jobs'[m] = j /\ jobs' = Append(jobs, j)
    BY <1>1, <1>4, <1>5, Appended
  \* The table afterwards.
  <1>7. /\ Known(s, k)' /\ Toks(s, k)' = v
        /\ \A i \in Keys \ {k} : Known(s, i)' => Known(s, i) /\ Toks(s, i)' = Toks(s, i)
        /\ mode.cacheDir => \A i \in Keys : Known(s, i) => Known(s, i)'
    BY <1>1, PutProperties
  <1>8. ASSUME NEW i \in Keys, Known(s, i)'
        PROVE  /\ Toks(s, i)' \in Seq(Token)
               /\ IF Known(s, i) THEN Prefix(Toks(s, i)', Toks(s, i)) ELSE Toks(s, i)' = <<>>
    <2>1. CASE i = k  BY <2>1, <1>7
    <2>2. CASE i # k
      <3>1. Known(s, i) /\ Toks(s, i)' = Toks(s, i) /\ Toks(s, i) \in Seq(Token)
        BY <2>2, <1>1, <1>7, <1>8, KnownEntry
      <3>. QED  BY <3>1, EmptyPrefix
    <2>. QED  BY <2>1, <2>2
  \* A beginning of what a session was is a beginning of what it should be.
  <1>9. ASSUME NEW i \in Keys, Known(s, i)', NEW p \in Seq(Token),
               Known(s, i) => Prefix(Toks(s, i), p)
        PROVE  Prefix(Toks(s, i)', p)
    <2>1. PICK u \in Seq(Token) : u = Toks(s, i)'  BY <1>8, <1>9
    <2>2. CASE Known(s, i)
      <3>1. Toks(s, i) \in Seq(Token)  BY <2>2, <1>1, KnownEntry
      <3>. QED  BY <2>1, <2>2, <3>1, <1>8, <1>9, PrefixFacts
    <2>3. CASE ~Known(s, i)  BY <2>1, <2>3, <1>8, <1>9, EmptyPrefix
    <2>. QED  BY <2>2, <2>3
  <1>10. FileInv'
    <2>1. \A i \in ClientKeys, t \in Srv :
            mode.cacheDir /\ sessFile[FileName[i]] # None => Known(t, i)'
      BY <1>2, <1>7, KeySets DEF Content, FileInv
    <2>2. \A t \in Srv, i \in Keys : Known(t, i)' => i \in InUse(mode)
      BY <1>2, <1>7 DEF Content, FileInv
    <2>3. ~mode.cacheDir => \A i \in Keys : sessFile[i] = None /\ kvFile'[i] = None
      BY <1>1 DEF Content, FileInv, TypeInv
    <2>4. InUse(mode)' = InUse(mode)  BY DEF InUse
    <2>5. cache_key' \in RankKeys \cup {None}  BY DEF Content, FileInv
    <2>. QED  BY <2>1, <2>2, <2>3, <2>4, <2>5 DEF FileInv
  <1>11. RequestInv'
    <2>. SUFFICES ASSUME NEW t \in Srv, req'[t].st # "idle"
                  PROVE  /\ req'[t].key \in InUse(mode)' /\ ~req'[t].replay
                         /\ req'[t].full \in Prompts
                         /\ Prefix(Toks(t, req[t].key), req[t].full)'
                         /\ req'[t].resume = Len(Toks(t, req[t].key))'
                         /\ req'[t].tokens = Drop(req[t].full, req[t].resume)'
      BY DEF RequestInv
    <2>1. t = s /\ InUse(mode)' = InUse(mode)  BY <1>2 DEF InUse
    <2>2. req'[t].key = k /\ ~req'[t].replay /\ req'[t].full = r.full
          /\ req'[t].resume = r.resume /\ req'[t].tokens = r.tokens
      BY <2>1, <1>5
    <2>3. Toks(t, req[t].key)' = v  BY <2>1, <2>2, <1>7
    <2>. QED  BY <2>1, <2>2, <2>3
  <1>12. LastInv'
    <2>1. ASSUME NEW m \in 1 .. Len(jobs'), jobs'[m].srv # None
          PROVE  m = Len(jobs') /\ jobs'[m] = j /\ j.key = RankKey[req'[s].key] /\ j.prompt = req'[s].full
      BY <2>1, <1>3, <1>4, <1>5, <1>6
    <2>. QED  BY <2>1, <1>3, <1>4 DEF LastInv, Of
  <1>13. WorkInv'
    <2>1. \A m \in 1 .. Len(jobs') : Sound(jobs'[m])
      BY <1>4, <1>6 DEF Content, WorkInv
    <2>2. \A m \in 1 .. Len(jobs') : Sound(jobs[m])'  BY <2>1 DEF Sound
    <2>. QED  BY <2>2 DEF Content, WorkInv, Busy, Sound, Basis
  \* What is asked of a session after a pending job x.
  <1>14. ASSUME NEW x \in Job, Sound(x), Covers(x)
         PROVE  /\ \A i \in ClientKeys : RankKey[i] = x.key /\ Known(s, i)' =>
                       Prefix(Toks(s, i)', x.prompt)
                /\ Before(x, j)
    <2>1. x.prompt \in Seq(Token)  BY <1>14, BasisFacts
    <2>2. \A i \in ClientKeys : RankKey[i] = x.key /\ Known(s, i)' =>
             Prefix(Toks(s, i)', x.prompt)
      BY <2>1, <1>9, <1>14, KeySets DEF Covers
    <2>3. ASSUME x.key = RankKey[k] PROVE Prefix(Basis(j), x.prompt)
      <3>1. Prefix(v, x.prompt)  BY <2>2, <2>3, <1>1, <1>7
      <3>. QED  BY <3>1, <2>1, <1>4, PrefixFacts
    <2>. QED  BY <2>2, <2>3, <1>4 DEF Before
  <1>15. ASSUME NEW m \in 1 .. Len(jobs)
         PROVE  jobs[m] \in Job /\ Sound(jobs[m]) /\ Covers(jobs[m])
    BY <1>1, JobTypes DEF Content, WorkInv, OrderInv
  <1>16. \A w \in Worker : Busy(w) => wk[w].job \in Job /\ Sound(wk[w].job) /\ Covers(wk[w].job)
    BY DEF Content, WorkInv, OrderInv
  <1>17. OrderInv'
    <2>1. ASSUME NEW m \in 1 .. Len(jobs')
          PROVE  Covers(jobs[m])' /\ \A n \in 1 .. Len(jobs') : m < n => Before(jobs[m], jobs[n])'
      <3>1. ASSUME NEW i \in ClientKeys, RankKey[i] = jobs'[m].key, Known(s, i)'
            PROVE  Prefix(Toks(s, i)', jobs'[m].prompt)
        <4>1. CASE m \in 1 .. Len(jobs) /\ jobs'[m] = jobs[m]
          BY <3>1, <4>1, <1>14, <1>15
        <4>2. CASE jobs'[m] = j
          <5>1. i = k  BY <3>1, <4>2, <1>1, <1>4, Apart
          <5>. QED  BY <4>2, <5>1, <1>4, <1>7
        <4>. QED  BY <4>1, <4>2, <1>6
      <3>2. ASSUME NEW n \in 1 .. Len(jobs'), m < n
            PROVE  jobs'[n].key = jobs'[m].key => Prefix(Basis(jobs'[n]), jobs'[m].prompt)
        <4>1. m \in 1 .. Len(jobs) /\ jobs'[m] = jobs[m]  BY <3>2, <1>6
        <4>2. CASE n \in 1 .. Len(jobs) /\ jobs'[n] = jobs[n]
          BY <3>2, <4>1, <4>2 DEF Content, OrderInv, Before
        <4>3. CASE jobs'[n] = j
          <5>1. Before(jobs[m], j)  BY <4>1, <1>14, <1>15
          <5>. QED  BY <4>1, <4>3, <5>1 DEF Before
        <4>. QED  BY <4>2, <4>3, <1>6
      <3>3. Covers(jobs[m])'  BY <3>1, <1>2 DEF Covers
      <3>. QED  BY <3>2, <3>3 DEF Before, Basis
    <2>2. ASSUME NEW w \in Worker, Busy(w)'
          PROVE  Covers(wk[w].job)' /\ \A n \in 1 .. Len(jobs') : Before(wk[w].job, jobs[n])'
      <3>1. Busy(w)  BY <2>2 DEF Busy
      <3>2. \A i \in ClientKeys : RankKey[i] = wk[w].job.key /\ Known(s, i)' =>
               Prefix(Toks(s, i)', wk[w].job.prompt)
        BY <3>1, <1>14, <1>16
      <3>3. ASSUME NEW n \in 1 .. Len(jobs')
            PROVE  jobs'[n].key = wk[w].job.key => Prefix(Basis(jobs'[n]), wk[w].job.prompt)
        <4>1. CASE n \in 1 .. Len(jobs) /\ jobs'[n] = jobs[n]
          BY <3>1, <4>1 DEF Content, OrderInv, Before
        <4>2. CASE jobs'[n] = j
          <5>1. Before(wk[w].job, j)  BY <3>1, <1>14, <1>16
          <5>. QED  BY <4>2, <5>1 DEF Before
        <4>. QED  BY <4>1, <4>2, <1>6
      <3>4. Covers(wk[w].job)'  BY <3>2, <1>2 DEF Covers
      <3>. QED  BY <3>3, <3>4 DEF Before, Basis
    <2>. QED  BY <2>1, <2>2 DEF OrderInv
  \* The rows have not changed.
  <1>18. ASSUME NEW i \in Keys, NEW u \in Seq(Token), Aligned(i, u)
         PROVE  /\ cache_key' = i => Agrees(u, kv')
                /\ IsFile(kvFile'[FileName[i]]) => Agrees(u, kvFile'[FileName[i]])
    <2>1. IsFile(kvFile'[FileName[i]]) => kvFile'[FileName[i]] = kvFile[FileName[i]]
      BY Names DEF IsFile, TypeInv, TableInv
    <2>. QED  BY <2>1, <1>18 DEF Aligned
  <1>19. ASSUME NEW i \in ClientKeys, Known(s, i)'
         PROVE  Aligned(RankKey[i], Toks(s, i))'
    <2>0. i \in Keys /\ RankKey[i] \in Keys  BY KeySets, Names
    <2>1. PICK u \in Seq(Token) : u = Toks(s, i)'  BY <2>0, <1>8, <1>19
    <2>2. Aligned(RankKey[i], u)
      <3>1. CASE Known(s, i)
        <4>1. Toks(s, i) \in Seq(Token) /\ Prefix(u, Toks(s, i))
              /\ Aligned(RankKey[i], Toks(s, i))
          BY <2>0, <2>1, <3>1, <1>1, <1>8, <1>19, KnownEntry DEF Content, AlignInv
        <4>. QED  BY <2>0, <4>1, <1>1, AlignedPrefix
      <3>2. CASE ~Known(s, i)  BY <2>0, <2>1, <3>2, <1>1, <1>8, <1>19, AlignedEmpty
      <3>. QED  BY <3>1, <3>2
    <2>. QED  BY <2>0, <2>1, <2>2, <1>18 DEF Aligned
  <1>20. ASSUME NEW m \in 1 .. Len(jobs')
         PROVE  Aligned(jobs[m].key, Basis(jobs[m]))'
    <2>1. PICK x \in Job : x = jobs'[m] /\ Sound(x) /\ Aligned(x.key, Basis(x))
      <3>1. CASE m \in 1 .. Len(jobs) /\ jobs'[m] = jobs[m]
        BY <3>1, <1>15 DEF Content, AlignInv
      <3>2. CASE jobs'[m] = j
        <4>1. Aligned(RankKey[k], v)
          <5>1. CASE Known(s, k)
            <6>1. Toks(s, k) \in Seq(Token) /\ Aligned(RankKey[k], Toks(s, k))
              BY <5>1, <1>1, KnownEntry DEF Content, AlignInv
            <6>. QED  BY <6>1, <5>1, <1>1, AlignedPrefix
          <5>2. CASE ~Known(s, k)  BY <5>2, <1>1, AlignedEmpty
          <5>. QED  BY <5>1, <5>2
        <4>2. Aligned(RankKey[k], Basis(j))  BY <4>1, <1>1, <1>4, AlignedPrefix
        <4>. QED  BY <3>2, <4>2, <1>4
      <3>. QED  BY <3>1, <3>2, <1>6
    <2>2. x.key \in Keys /\ Basis(x) \in Seq(Token)  BY <2>1, BasisFacts DEF Job
    <2>3. (cache_key' = x.key => Agrees(Basis(x), kv'))
          /\ (IsFile(kvFile'[FileName[x.key]]) => Agrees(Basis(x), kvFile'[FileName[x.key]]))
      BY <2>1, <2>2, <1>18
    <2>. QED  BY <2>1, <2>3 DEF Aligned, Basis
  <1>21. AlignInv'
    <2>1. \A t \in Srv : req'[t].st # "done"  BY <1>2, <1>5
    <2>. QED  BY <2>1, <1>2, <1>19, <1>20 DEF AlignInv
  <1>. QED  BY <1>10, <1>11, <1>12, <1>13, <1>17, <1>21 DEF Content

LEMMA StartContent ==
    ASSUME TableInv, Content, OneServer, KeysApart, Steady(mode), NEW s \in Srv, NEW k \in InUse(mode),
           NEW full \in Prompts, Start(s, k, full)
    PROVE  Content'
  <1>. DEFINE r == Fresh(s, k, full)
              v == Cut(s, k, full)
              c == Common(s, k, full)
              old == Remembered(s, k)
  <1>1. k \in ClientKeys /\ k \in Keys /\ TypeInv /\ Unique  BY KeySets DEF TableInv
  <1>2. /\ req[s].st = "idle" /\ (c = Len(full) => mode.regenerate)
        /\ sess' = Put(s, k, v) /\ Send(s, r, v)
        /\ UNCHANGED <<sessFile, kvFile, up, mode, wk, engine_lock, cache_key, kv>>
    BY <1>1, StartEffect
  <1>3. /\ old \in Seq(Token) /\ full \in Seq(Token) /\ c \in 0 .. Len(old) /\ c \in 0 .. Len(full)
        /\ v = Take(full, c) /\ v \in Seq(Token) /\ Len(v) = c
        /\ r \in Request /\ r.key = k /\ r.full = full
        /\ r.resume = From(s, k, full) /\ r.tokens = Drop(full, r.resume)
        /\ r.replay = (c = Len(full))
    BY <1>1, StartFacts
  <1>4. c # Len(full) /\ From(s, k, full) = c  BY <1>2 DEF Steady, From
  <1>5. v = Take(old, c)  BY DEF Cut
  <1>6. Known(s, k) => old = Toks(s, k)  BY DEF Remembered
  <1>7. ~Known(s, k) => old = <<>>
    BY <1>1, Names DEF Remembered, IsFile, Content, FileInv
  <1>. HIDE DEF r, v, c, old
  <1>8. IF Known(s, k) THEN Prefix(v, Toks(s, k)) ELSE v = <<>>
    <2>1. Prefix(v, old)  BY <1>3, <1>5, TakePrefix
    <2>2. CASE Known(s, k)  BY <2>1, <2>2, <1>6
    <2>3. CASE ~Known(s, k)
      <3>1. Len(v) = 0  BY <2>3, <1>3, <1>7
      <3>. QED  BY <2>3, <3>1, <1>3, EmptySeq
    <2>. QED  BY <2>2, <2>3
  <1>9. mode.cacheDir => Known(s, k) \/ Len(sess[s]) < SessCap
    BY <1>1, Fits DEF Steady, Content
  <1>10. Prefix(v, full)  BY <1>3, TakePrefix
  <1>11. ~r.replay /\ r.resume = Len(v) /\ r.tokens = Drop(r.full, r.resume)
    BY <1>3, <1>4
  <1>12. req[s].st # "wait" /\ r.full \in Prompts /\ Prefix(v, r.full)
         /\ kvFile' \in {kvFile, [kvFile EXCEPT ![k] = None]}
    BY <1>2, <1>3, <1>10
  <1>. QED  BY <1>1, <1>2, <1>3, <1>8, <1>9, <1>11, <1>12, SendContent

LEMMA ResendContent ==
    ASSUME TableInv, Content, OneServer, KeysApart, NEW s \in Srv, Resend(s)
    PROVE  Content'
  <1>. DEFINE k == req[s].key
              r == Retry(req[s])
              v == Toks(s, k)
  <1>1. /\ req[s].st \in {"err", "rebuild"} /\ Known(s, k) /\ v \in Seq(Token)
        /\ r \in Request /\ r.key = k /\ r.full = req[s].full /\ r.tokens = req[s].tokens
        /\ r.resume = req[s].resume /\ r.replay = req[s].replay
        /\ sess' = Put(s, k, v) /\ Send(s, r, v)
        /\ kvFile' \in {kvFile, [kvFile EXCEPT ![FileName[k]] = None]}
        /\ UNCHANGED <<sessFile, up, mode, wk, engine_lock, cache_key, kv>>
    BY ResendEffect
  <1>2. /\ k \in InUse(mode) /\ ~req[s].replay /\ req[s].full \in Prompts
        /\ Prefix(v, req[s].full) /\ req[s].resume = Len(v)
        /\ req[s].tokens = Drop(req[s].full, req[s].resume)
    BY <1>1 DEF Content, RequestInv
  <1>6. FileName[k] \in Keys  BY <1>2, KeySets, Names
  <1>3. Prefix(v, v)  BY <1>1, EmptyPrefix
  <1>4. Known(s, k) /\ Prefix(v, Toks(s, k))  BY <1>1, <1>3
  <1>. HIDE DEF k, r, v
  <1>5. /\ req[s].st # "wait" /\ ~r.replay /\ r.full \in Prompts /\ Prefix(v, r.full)
        /\ r.resume = Len(v) /\ r.tokens = Drop(r.full, r.resume)
    BY <1>1, <1>2
  <1>. QED  BY <1>1, <1>2, <1>4, <1>5, <1>6, SendContent

\* Only the session of s changes, and s waits for nothing.
LEMMA NothingPending ==
    ASSUME TableInv, Content, NEW s \in Srv, req[s].st = "done"
    PROVE  Len(jobs) = 0 /\ \A w \in Worker : ~Busy(w)
  BY DEF Content, AlignInv

LEMMA DoneContent ==
    ASSUME TableInv, Content, OneServer, KeysApart, NEW s \in Srv, Done(s)
    PROVE  Content'
  <1>. DEFINE r == req[s]
  <1>0. r.st = "done" /\ r \in Request /\ Known(s, r.key)
    BY DEF Done, TableInv, TypeInv, Kept
  <1>a. PICK k \in Keys : k = r.key  BY <1>0, KnownEntry DEF TableInv
  <1>. DEFINE v == Toks(s, k) \o Commit(r)
              old == Toks(s, k)
  <1>1. /\ r.st = "done" /\ sess' = Put(s, k, v) /\ req' = [req EXCEPT ![s] = NoReq]
        /\ sessFile' = IF mode.cacheDir THEN [sessFile EXCEPT ![FileName[k]] = v] ELSE sessFile
        /\ UNCHANGED <<kvFile, up, mode, jobs, wk, engine_lock, cache_key, kv>>
    BY <1>a, Names DEF Done, engine
  <1>2. r \in Request /\ Known(s, k)  BY <1>0, <1>a
  <1>3. k \in Keys /\ old \in Seq(Token)  BY <1>2, KnownEntry DEF TableInv
  <1>4. /\ k \in InUse(mode) /\ ~r.replay /\ r.full \in Prompts /\ Prefix(old, r.full)
        /\ r.resume = Len(old) /\ r.tokens = Drop(r.full, r.resume)
    BY <1>1, <1>a DEF Content, RequestInv
  <1>5. Len(jobs) = 0 /\ \A w \in Worker : ~Busy(w)  BY <1>1, NothingPending
  \* The session and what is added are the prompt and the answer.
  <1>6. v \in Seq(Token) /\ v = r.full \o r.gen \o <<Eos>>
    <2>1. r.full \in Seq(Token) /\ r.gen \in Seq(Token)  BY <1>2 DEF Request
    <2>2. Commit(r) = Drop(r.full, Len(old)) \o r.gen \o <<Eos>>  BY <1>4 DEF Commit
    <2>. DEFINE p == r.full
                g == r.gen
                all == p \o g \o <<Eos>>
                added == Drop(p, Len(old)) \o g \o <<Eos>>
    <2>3. p \in Seq(Token) /\ g \in Seq(Token) /\ Prefix(old, p)  BY <1>4, <2>1
    <2>4. old \o added = all /\ all \in Seq(Token)
      <3>. HIDE DEF p, g, old
      <3>. QED  BY <1>3, <2>3, CommitFacts
    <2>5. v = old \o added  BY <2>2
    <2>. HIDE DEF v, all, added
    <2>. QED  BY <2>4, <2>5 DEF all
  <1>7. Aligned(RankKey[k], v)  BY <1>1, <1>a, <1>6 DEF Content, AlignInv
  <1>. HIDE DEF v
  <1>8. /\ Known(s, k)' /\ Toks(s, k)' = v
        /\ \A i \in Keys \ {k} : Known(s, i)' => Known(s, i) /\ Toks(s, i)' = Toks(s, i)
        /\ \A i \in Keys : Known(s, i) => Known(s, i)'
    <2>1. TypeInv /\ Unique  BY DEF TableInv
    <2>2. sess' = Put(s, k, v)  BY <1>1
    <2>. HIDE DEF r, old
    <2>. QED  BY <1>2, <1>3, <1>6, <2>1, <2>2, PutProperties
  <1>9. \A t \in Srv : t = s  BY DEF OneServer
  <1>10. req'[s].st = "idle"  BY <1>1 DEF NoReq, TableInv, TypeInv
  <1>11. FileInv'
    <2>0. k \in ClientKeys /\ ClientKeys \subseteq Keys  BY <1>4, KeySets
    <2>1. \A i \in ClientKeys, t \in Srv :
             mode.cacheDir /\ sessFile'[FileName[i]] # None => Known(t, i)'
      <3>. SUFFICES ASSUME NEW i \in ClientKeys, mode.cacheDir, sessFile'[FileName[i]] # None
                    PROVE  Known(s, i)'
        BY <1>9
      <3>1. CASE i = k  BY <3>1, <1>8
      <3>2. CASE i # k
        <4>1. FileName[i] # FileName[k]  BY <2>0, <3>2, Apart
        <4>2. sessFile'[FileName[i]] = sessFile[FileName[i]]
          BY <2>0, <4>1, <1>1, Names DEF TableInv, TypeInv
        <4>. QED  BY <2>0, <4>2, <1>8 DEF Content, FileInv
      <3>. QED  BY <3>1, <3>2
    <2>2. \A t \in Srv, i \in Keys : Known(t, i)' => i \in InUse(mode)
      BY <1>4, <1>8, <1>9 DEF Content, FileInv
    <2>3. ~mode.cacheDir => \A i \in Keys : sessFile'[i] = None /\ kvFile'[i] = None
      BY <1>1 DEF Content, FileInv
    <2>4. InUse(mode)' = InUse(mode)  BY <1>1 DEF InUse
    <2>5. cache_key' \in RankKeys \cup {None}  BY <1>1 DEF Content, FileInv
    <2>. QED  BY <2>1, <2>2, <2>3, <2>4, <2>5, <1>1 DEF FileInv
  <1>12. RequestInv'  BY <1>9, <1>10 DEF RequestInv
  <1>13. Len(jobs') = 0 /\ \A w \in Worker : ~Busy(w)'  BY <1>1, <1>5 DEF Busy
  <1>14. WorkInv' /\ OrderInv'
    BY <1>13 DEF WorkInv, OrderInv, Busy
  <1>15. LastInv'
    <2>1. \A w \in Worker : wk[w].job.srv = None
      BY <1>5 DEF TableInv, LiveInv
    <2>. QED  BY <2>1, <1>1, <1>13 DEF LastInv
  <1>16. AlignInv'
    <2>1. ASSUME NEW i \in ClientKeys, Known(s, i)' PROVE Aligned(RankKey[i], Toks(s, i))'
      <3>1. CASE i = k  BY <3>1, <1>1, <1>7, <1>8 DEF Aligned
      <3>2. CASE i # k
        <4>1. Known(s, i) /\ Toks(s, i)' = Toks(s, i)  BY <2>1, <3>2, <1>8, KeySets
        <4>. QED  BY <4>1, <1>1 DEF Content, AlignInv, Aligned
      <3>. QED  BY <3>1, <3>2
    <2>. QED  BY <2>1, <1>9, <1>10, <1>13 DEF AlignInv
  <1>. QED  BY <1>11, <1>12, <1>14, <1>15, <1>16 DEF Content

LEMMA SameSession ==
    ASSUME sess' = sess
    PROVE  \A s, i : (Known(s, i)' <=> Known(s, i)) /\ Toks(s, i)' = Toks(s, i)
  BY DEF Known, Toks, Pos

\* A request ends and its job, if there is one, is nobody's any more.
LEMMA GoneContent ==
    ASSUME TableInv, Content, OneServer, NEW s \in Srv, req'[s].st = "idle",
           Len(jobs') = Len(jobs),
           \A m \in 1 .. Len(jobs) :
              /\ jobs'[m].srv = None /\ jobs'[m] \in Job
              /\ jobs'[m].key = jobs[m].key /\ jobs'[m].resume = jobs[m].resume
              /\ jobs'[m].delta = jobs[m].delta /\ jobs'[m].prompt = jobs[m].prompt,
           \A w \in Worker :
              /\ wk'[w].job.srv = None /\ wk'[w].pc = wk[w].pc
              /\ wk'[w].ctx = wk[w].ctx /\ wk'[w].gen = wk[w].gen
              /\ Busy(w) => /\ wk'[w].job \in Job
                            /\ wk'[w].job.key = wk[w].job.key
                            /\ wk'[w].job.resume = wk[w].job.resume
                            /\ wk'[w].job.delta = wk[w].job.delta
                            /\ wk'[w].job.prompt = wk[w].job.prompt,
           FileInv',
           \A t \in Srv, i \in Keys : Known(t, i)' => Known(t, i) /\ Toks(t, i)' = Toks(t, i),
           UNCHANGED <<mode, kvFile, cache_key, kv>>
    PROVE  Content'
  <1>1. \A t \in Srv : t = s  BY DEF OneServer
  <1>2. \A w \in Worker : Busy(w)' <=> Busy(w)  BY DEF Busy
  <1>3. RequestInv'  BY <1>1 DEF RequestInv
  <1>4. LastInv'  BY DEF LastInv
  <1>5. \A w \in Worker : Busy(w) => wk[w].pc # "idle" /\ wk[w].job \in Job /\ Sound(wk[w].job)
    BY DEF Content, WorkInv, Busy
  <1>6. \A m \in 1 .. Len(jobs) : jobs[m] \in Job /\ Sound(jobs[m])
    BY JobTypes DEF Content, WorkInv, TableInv
  <1>7. WorkInv'
    <2>1. \A m \in 1 .. Len(jobs') : Sound(jobs[m])'  BY <1>6 DEF Sound
    <2>2. ASSUME NEW w \in Worker, Busy(w)
          PROVE  Sound(wk[w].job)' /\ wk'[w].job \in Job /\ cache_key' = wk'[w].job.key
      BY <2>2, <1>5 DEF Sound, Content, WorkInv
    <2>3. ASSUME NEW w \in Worker, wk[w].pc = "engine"
          PROVE  kv' = Basis(wk[w].job)' /\ Len(wk'[w].job.prompt) <= mode.maxSeq
      BY <2>3 DEF Basis, Content, WorkInv, Busy
    <2>4. ASSUME NEW w \in Worker, wk[w].pc = "save"
          PROVE  /\ wk'[w].ctx = wk'[w].job.prompt /\ Prefix(wk'[w].ctx, kv')
                 /\ Agrees(wk'[w].ctx \o wk'[w].gen \o <<Eos>>, kv')
      BY <2>4 DEF Content, WorkInv, Busy
    <2>. QED  BY <2>1, <2>2, <2>3, <2>4, <1>2 DEF WorkInv
  <1>8. ASSUME NEW x \in Job, Covers(x), NEW t \in Srv, NEW k \in ClientKeys,
               RankKey[k] = x.key, Known(t, k)'
        PROVE  Prefix(Toks(t, k)', x.prompt)
    BY <1>8, KeySets DEF Covers
  <1>9. OrderInv'
    <2>1. ASSUME NEW m \in 1 .. Len(jobs) PROVE Covers(jobs[m])'
      <3>. SUFFICES ASSUME NEW t \in Srv, NEW k \in ClientKeys,
                           RankKey[k] = jobs'[m].key, Known(t, k)'
                    PROVE  Prefix(Toks(t, k)', jobs'[m].prompt)
        BY DEF Covers
      <3>1. jobs[m] \in Job /\ Covers(jobs[m])  BY <1>6 DEF Content, OrderInv
      <3>2. jobs'[m].key = jobs[m].key /\ jobs'[m].prompt = jobs[m].prompt  OBVIOUS
      <3>3. Prefix(Toks(t, k)', jobs[m].prompt)  BY <3>1, <3>2, <1>8
      <3>. QED  BY <3>2, <3>3
    <2>2. ASSUME NEW m \in 1 .. Len(jobs), NEW n \in 1 .. Len(jobs), m < n
          PROVE  Before(jobs[m], jobs[n])'
      BY <2>2 DEF Before, Basis, Content, OrderInv
    <2>3. ASSUME NEW w \in Worker, Busy(w) PROVE Covers(wk[w].job)'
      <3>. SUFFICES ASSUME NEW t \in Srv, NEW k \in ClientKeys,
                           RankKey[k] = wk'[w].job.key, Known(t, k)'
                    PROVE  Prefix(Toks(t, k)', wk'[w].job.prompt)
        BY DEF Covers
      <3>1. wk[w].job \in Job /\ Covers(wk[w].job)  BY <2>3, <1>5 DEF Content, OrderInv
      <3>2. wk'[w].job.key = wk[w].job.key /\ wk'[w].job.prompt = wk[w].job.prompt  BY <2>3
      <3>3. Prefix(Toks(t, k)', wk[w].job.prompt)  BY <3>1, <3>2, <1>8
      <3>. QED  BY <3>2, <3>3
    <2>4. ASSUME NEW w \in Worker, Busy(w), NEW n \in 1 .. Len(jobs)
          PROVE  Before(wk[w].job, jobs[n])'
      BY <2>4 DEF Before, Basis, Content, OrderInv
    <2>. QED  BY <2>1, <2>2, <2>3, <2>4, <1>2 DEF OrderInv
  <1>10. AlignInv'
    <2>1. \A t \in Srv, i \in ClientKeys : Known(t, i)' => Aligned(RankKey[i], Toks(t, i))'
      BY KeySets DEF Content, AlignInv, Aligned
    <2>2. \A m \in 1 .. Len(jobs') : Aligned(jobs[m].key, Basis(jobs[m]))'
      BY DEF Content, AlignInv, Aligned, Basis
    <2>. QED  BY <2>1, <2>2, <1>1 DEF AlignInv
  <1>. QED  BY <1>3, <1>4, <1>7, <1>9, <1>10 DEF Content

LEMMA RefuseContent ==
    ASSUME TableInv, Content, OneServer, NEW s \in Srv, Refuse(s)
    PROVE  Content'
  <1>1. /\ req[s].st \in {"err", "rebuild"} /\ req' = [req EXCEPT ![s] = NoReq]
        /\ UNCHANGED <<sess, sessFile, kvFile, up, mode, jobs, wk, engine_lock, cache_key, kv>>
    BY DEF Refuse, files, engine
  <1>2. req'[s].st = "idle"  BY <1>1 DEF TableInv, TypeInv, NoReq
  <1>3. \A t \in Srv : t = s  BY DEF OneServer
  <1>4. \A m \in 1 .. Len(jobs) : jobs[m].srv = None /\ jobs[m] \in Job
    BY <1>1, <1>3, Gone, JobTypes DEF TableInv
  <1>5. \A w \in Worker : wk[w].job.srv = None /\ (Busy(w) => wk[w].job \in Job)
    BY <1>1, <1>3, Gone DEF Content, WorkInv
  <1>6. FileInv'  BY <1>1, SameSession DEF Content, FileInv, InUse
  <1>. QED  BY <1>1, <1>2, <1>4, <1>5, <1>6, SameSession, GoneContent

\* With one server, Forget leaves all jobs to nobody.
LEMMA ForgetAll ==
    ASSUME TableInv, Content, OneServer, NEW s \in Srv, Forget(s)
    PROVE  /\ req'[s].st = "idle" /\ Len(jobs') = Len(jobs)
           /\ \A m \in 1 .. Len(jobs) :
                 /\ jobs'[m].srv = None /\ jobs'[m] \in Job
                 /\ jobs'[m].key = jobs[m].key /\ jobs'[m].resume = jobs[m].resume
                 /\ jobs'[m].delta = jobs[m].delta /\ jobs'[m].prompt = jobs[m].prompt
           /\ \A w \in Worker :
                 /\ wk'[w].job.srv = None /\ wk'[w].pc = wk[w].pc
                 /\ wk'[w].ctx = wk[w].ctx /\ wk'[w].gen = wk[w].gen
                 /\ Busy(w) => /\ wk'[w].job \in Job
                               /\ wk'[w].job.key = wk[w].job.key
                               /\ wk'[w].job.resume = wk[w].job.resume
                               /\ wk'[w].job.delta = wk[w].job.delta
                               /\ wk'[w].job.prompt = wk[w].job.prompt
  <1>1. \A t \in Srv : t = s  BY DEF OneServer
  <1>2. /\ \A m \in 1 .. Len(jobs) : jobs[m].srv \in {s, None}
        /\ \A w \in Worker : wk[w].job.srv \in {s, None}
    BY <1>1, JobTypes DEF TableInv
  <1>3. \A w \in Worker : Busy(w) => wk[w].job \in Job  BY DEF Content, WorkInv
  <1>4. req'[s] = NoReq /\ NoReq.st = "idle"  BY ForgetProperties DEF NoReq
  <1>5. /\ jobs' \in Seq(Job) /\ Len(jobs') = Len(jobs)
        /\ \A m \in 1 .. Len(jobs) :
              /\ jobs'[m].srv = IF jobs[m].srv = s THEN None ELSE jobs[m].srv
              /\ jobs'[m].key = jobs[m].key /\ jobs'[m].resume = jobs[m].resume
              /\ jobs'[m].delta = jobs[m].delta /\ jobs'[m].prompt = jobs[m].prompt
    BY ForgetProperties
  <1>6. \A m \in 1 .. Len(jobs) : jobs'[m] \in Job  BY <1>5, ElementOfSeq
  <1>7. \A w \in Worker :
           /\ wk'[w].pc = wk[w].pc /\ wk'[w].ctx = wk[w].ctx /\ wk'[w].gen = wk[w].gen
           /\ wk'[w].job.srv = IF wk[w].job.srv = s THEN None ELSE wk[w].job.srv
           /\ wk[w].job \in Job =>
                 /\ wk'[w].job \in Job /\ wk'[w].job.key = wk[w].job.key
                 /\ wk'[w].job.resume = wk[w].job.resume
                 /\ wk'[w].job.delta = wk[w].job.delta
                 /\ wk'[w].job.prompt = wk[w].job.prompt
    BY ForgetProperties
  <1>. QED  BY <1>2, <1>3, <1>4, <1>5, <1>6, <1>7

LEMMA TimeoutContent ==
    ASSUME TableInv, Content, OneServer, NEW s \in Srv, Timeout(s)
    PROVE  Content'
  <1>1. Forget(s) /\ UNCHANGED <<sess, sessFile, kvFile, up, mode, engine_lock, cache_key, kv>>
    BY DEF Timeout, files, engine
  <1>2. FileInv'  BY <1>1, SameSession DEF Content, FileInv, InUse
  <1>. QED  BY <1>1, <1>2, ForgetAll, SameSession, GoneContent

\* A server that crashes has no files, so it knows no session afterwards.
LEMMA SrvDiesContent ==
    ASSUME TableInv, Content, OneServer, Steady(mode), NEW s \in Srv, SrvDies(s)
    PROVE  Content'
  <1>1. /\ mode.srvCrash /\ Forget(s) /\ (~mode.cacheDir => sessFile' = sessFile)
        /\ UNCHANGED <<kvFile, up, mode, engine_lock, cache_key, kv>>
        /\ \A i \in 1 .. Len(sess'[s]) :
              sess'[s][i][1] \in Keys /\ IsFile(sessFile'[sess'[s][i][1]])
    BY SrvDiesEffect
  <1>2. ~mode.cacheDir  BY <1>1 DEF Steady
  <1>3. \A k \in Keys : ~IsFile(sessFile'[k])  BY <1>1, <1>2 DEF Content, FileInv, IsFile
  <1>4. \A t \in Srv, i \in Keys : ~Known(t, i)'
    <2>1. \A t \in Srv : t = s  BY DEF OneServer
    <2>2. \A i \in 1 .. Len(sess'[s]) : FALSE  BY <1>1, <1>3
    <2>. QED  BY <2>1, <2>2 DEF Known
  <1>5. FileInv'  BY <1>1, <1>2, <1>4 DEF Content, FileInv
  <1>. QED  BY <1>1, <1>4, <1>5, ForgetAll, GoneContent

\* The rank loses everything but the files.
LEMMA RankDiesContent ==
    ASSUME TableInv, Content, OneServer, RankDies
    PROVE  Content'
  <1>1. /\ jobs' = <<>> /\ wk' = [w \in Worker |-> Idle] /\ cache_key' = None /\ kv' = <<>>
        /\ req' = [s \in Srv |-> IF req[s].st = "wait" THEN NoReq ELSE req[s]]
        /\ \/ kvFile' = kvFile
           \/ mode.cacheDir /\ cache_key # None /\ kvFile' = [kvFile EXCEPT ![FileName[cache_key]] = Bad]
        /\ UNCHANGED <<mode, sess, sessFile>>
    BY DEF RankDies
  <1>2. \A w \in Worker : wk'[w].job.srv = None /\ ~Busy(w)' /\ wk'[w].pc = "idle"
    BY <1>1 DEF Idle, NoJob, Busy
  <1>3. Len(jobs') = 0  BY <1>1
  <1>4. NoReq.st = "idle"  BY DEF NoReq
  <1>5. \A s \in Srv : req'[s].st # "idle" => req'[s] = req[s]  BY <1>1, <1>4
  <1>6. \A i \in Keys : IsFile(kvFile'[i]) => kvFile'[i] = kvFile[i]
    BY <1>1 DEF IsFile, TableInv, TypeInv
  <1>7. FileInv'
    <2>1. ~mode.cacheDir => kvFile' = kvFile  BY <1>1
    <2>. QED  BY <2>1, <1>1, SameSession DEF Content, FileInv, InUse
  <1>8. RequestInv'
    <2>. SUFFICES ASSUME NEW s \in Srv, req'[s].st # "idle"
                  PROVE  /\ req'[s].key \in InUse(mode)' /\ ~req'[s].replay
                         /\ req'[s].full \in Prompts
                         /\ Prefix(Toks(s, req[s].key), req[s].full)'
                         /\ req'[s].resume = Len(Toks(s, req[s].key))'
                         /\ req'[s].tokens = Drop(req[s].full, req[s].resume)'
      BY DEF RequestInv
    <2>1. req'[s] = req[s] /\ InUse(mode)' = InUse(mode)  BY <1>1, <1>5 DEF InUse
    <2>2. Toks(s, req[s].key)' = Toks(s, req[s].key)  BY <2>1, <1>1 DEF Toks, Pos
    <2>3. /\ req[s].key \in InUse(mode) /\ ~req[s].replay /\ req[s].full \in Prompts
          /\ Prefix(Toks(s, req[s].key), req[s].full)
          /\ req[s].resume = Len(Toks(s, req[s].key))
          /\ req[s].tokens = Drop(req[s].full, req[s].resume)
      BY <2>1 DEF Content, RequestInv
    <2>. QED  BY <2>1, <2>2, <2>3
  <1>9. LastInv' /\ WorkInv' /\ OrderInv'
    BY <1>2, <1>3 DEF LastInv, WorkInv, OrderInv
  <1>10. AlignInv'
    <2>1. ASSUME NEW i \in Keys, NEW u, Aligned(i, u)
          PROVE  /\ cache_key' # i
                 /\ IsFile(kvFile'[FileName[i]]) => Agrees(u, kvFile'[FileName[i]])
      BY <2>1, <1>1, <1>6, Values, Names DEF Aligned
    <2>2. ASSUME NEW s \in Srv, NEW i \in ClientKeys, Known(s, i)'
          PROVE  Aligned(RankKey[i], Toks(s, i))'
      <3>1. Known(s, i) /\ Toks(s, i)' = Toks(s, i)  BY <2>2, <1>1, SameSession
      <3>2. Aligned(RankKey[i], Toks(s, i))  BY <3>1 DEF Content, AlignInv
      <3>3. RankKey[i] \in Keys  BY KeySets, Names
      <3>. QED  BY <3>1, <3>2, <3>3, <2>1 DEF Aligned
    <2>3. ASSUME NEW s \in Srv, req'[s].st = "done"
          PROVE  /\ jobs' = <<>> /\ \A w \in Worker : ~Busy(w)'
                 /\ Aligned(RankKey[req[s].key], req[s].full \o req[s].gen \o <<Eos>>)'
      <3>1. req'[s] = req[s]  BY <2>3, <1>5
      <3>2. Aligned(RankKey[req[s].key], req[s].full \o req[s].gen \o <<Eos>>)
        BY <2>3, <3>1 DEF Content, AlignInv
      <3>3. RankKey[req[s].key] \in Keys
        BY <2>3, <3>1, KeySets, Names DEF Content, RequestInv
      <3>. QED  BY <3>1, <3>2, <3>3, <2>1, <1>1, <1>2 DEF Aligned
    <2>. QED  BY <2>2, <2>3, <1>3 DEF AlignInv
  <1>. QED  BY <1>7, <1>8, <1>9, <1>10 DEF Content

\* The rows a job starts from are those it counts on.
LEMMA StartsFromBasis ==
    ASSUME TypeInv, FileInv, KeysApart, NEW j \in Job, Sound(j), Aligned(j.key, Basis(j)), ~Refused(j)
    PROVE  CutBack(j) = Basis(j)
  <1>. DEFINE b == Basis(j)
              n == j.resume
              f == kvFile[FileName[j.key]]
  <1>1. b \in Seq(Token) /\ Len(b) = n /\ n \in Nat  BY BasisFacts
  <1>2. /\ CutBack(j) \in Seq(Token) /\ Len(CutBack(j)) = n /\ Len(Loaded(j)) \in Nat
        /\ n <= Len(Loaded(j)) /\ \A i \in 1 .. n : CutBack(j)[i] = Loaded(j)[i]
    BY LoadedType DEF Refused
  <1>3. j.key \in Keys /\ kv \in Seq(Token) /\ (IsFile(f) => f \in Seq(Token))
    BY Names DEF Job, TypeInv, File, IsFile
  <1>4. \A i \in 1 .. n : b[i] = Loaded(j)[i]
    <2>1. CASE j.key = cache_key
      <3>1. Loaded(j) = kv /\ Agrees(b, kv)  BY <2>1 DEF Loaded, Aligned
      <3>. QED  BY <3>1, <1>1, <1>2 DEF Agrees
    <2>2. CASE j.key # cache_key
      <3>0. cache_key # None => FileName[cache_key] # FileName[j.key]
        BY <2>2, Apart DEF FileInv, Sound
      <3>1. Saved(j.key)[FileName[j.key]] = f
        BY <2>2, <3>0, <1>3, Names DEF Saved, TypeInv
      <3>2. CASE mode.cacheDir /\ n > 0 /\ IsFile(f) /\ Len(f) >= n
        <4>1. Loaded(j) = Take(f, n)  BY <2>2, <3>1, <3>2 DEF Loaded
        <4>2. f \in Seq(Token) /\ n \in 0 .. Len(f) /\ Agrees(b, f)
          BY <3>2, <1>1, <1>3 DEF Aligned
        <4>3. \A i \in 1 .. n : Take(f, n)[i] = f[i]
          <5>. HIDE DEF n, f
          <5>. QED  BY <4>2, TakeProperties
        <4>. QED  BY <4>1, <4>2, <4>3, <1>1 DEF Agrees
      <3>3. CASE ~(mode.cacheDir /\ n > 0 /\ IsFile(f) /\ Len(f) >= n)
        <4>1. Loaded(j) = <<>>  BY <2>2, <3>1, <3>3 DEF Loaded
        <4>. QED  BY <4>1, <1>1, <1>2
      <3>. QED  BY <3>2, <3>3
    <2>. QED  BY <2>1, <2>2
  <1>5. \A i \in 1 .. Len(b) : b[i] = CutBack(j)[i]  BY <1>1, <1>2, <1>4
  <1>. HIDE DEF b
  <1>6. CutBack(j) = b  BY <1>1, <1>2, <1>5, SeqEqual
  <1>. QED  BY <1>6 DEF b

\* Where the rows of the sessions are after a work thread has switched to the job.
LEMMA SwitchAligned ==
    ASSUME TableInv, Content, KeysApart, NEW w \in Worker, Begin(w), NEW i \in RankKeys,
           NEW u \in Seq(Token), Aligned(i, u),
           i = jobs[1].key => Prefix(u, jobs[1].prompt)
    PROVE  /\ cache_key' = i => Agrees(u, kv')
           /\ IsFile(kvFile'[FileName[i]]) => Agrees(u, kvFile'[FileName[i]])
  <1>. DEFINE j == Head(jobs)
  <1>1. /\ j = jobs[1] /\ j \in Job /\ Len(jobs) > 0 /\ cache_key' = j.key
        /\ Refused(j) =>
              /\ kv' = <<>>
              /\ kvFile' = IF mode.cacheDir THEN [Saved(j.key) EXCEPT ![FileName[j.key]] = None]
                           ELSE kvFile
        /\ ~Refused(j) => kv' = CutBack(j) /\ kvFile' = Saved(j.key)
    BY BeginEffect DEF TableInv
  <1>2. 1 \in 1 .. Len(jobs)  BY <1>1, JobTypes DEF TableInv
  <1>3. /\ Sound(j) /\ Aligned(j.key, Basis(j)) /\ j.key \in Keys /\ j.key \in RankKeys
        /\ i \in Keys /\ FileName[i] \in Keys /\ FileName[j.key] \in Keys
    BY <1>1, <1>2, KeySets, Names DEF Content, WorkInv, AlignInv, Job, Sound
  <1>4. Basis(j) \in Seq(Token) /\ j.prompt \in Seq(Token) /\ Prefix(Basis(j), j.prompt)
    BY <1>1, <1>3, BasisFacts
  <1>5. TypeInv /\ FileInv /\ cache_key \in RankKeys \cup {None}
    BY DEF TableInv, Content, FileInv
  <1>. HIDE DEF j
  <1>6. cache_key' = i => Agrees(u, kv')
    <2>. SUFFICES ASSUME i = j.key PROVE Agrees(u, kv')  BY <1>1
    <2>1. CASE Refused(j)  BY <2>1, <1>1, EmptyPrefix
    <2>2. CASE ~Refused(j)
      <3>1. kv' = Basis(j)  BY <2>2, <1>1, <1>3, <1>5, StartsFromBasis
      <3>2. Prefix(u, j.prompt)  BY <1>1
      <3>3. Agrees(u, Basis(j))  BY <3>2, <1>4, PrefixFacts
      <3>. QED  BY <3>1, <3>3
    <2>. QED  BY <2>1, <2>2
  <1>7. IsFile(Saved(j.key)[FileName[i]]) => Agrees(u, Saved(j.key)[FileName[i]])
    <2>1. CASE cache_key = i
      <3>1. \/ Saved(j.key)[FileName[i]] = kv
            \/ Saved(j.key)[FileName[i]] = kvFile[FileName[i]]
        BY <2>1, <1>3, <1>5, Names DEF Saved, TypeInv
      <3>. QED  BY <2>1, <3>1 DEF Aligned
    <2>2. CASE cache_key # i
      <3>1. cache_key # None => FileName[cache_key] # FileName[i]  BY <2>2, <1>5, Apart
      <3>2. Saved(j.key)[FileName[i]] = kvFile[FileName[i]]
        BY <3>1, <1>3, <1>5 DEF Saved, TypeInv
      <3>. QED  BY <3>2 DEF Aligned
    <2>. QED  BY <2>1, <2>2
  <1>8. IsFile(kvFile'[FileName[i]]) => Agrees(u, kvFile'[FileName[i]])
    <2>1. CASE ~Refused(j)  BY <2>1, <1>1, <1>7
    <2>2. CASE Refused(j) /\ ~mode.cacheDir  BY <2>2, <1>1 DEF Aligned
    <2>3. CASE Refused(j) /\ mode.cacheDir
      <3>1. Saved(j.key) \in [Keys -> File]  BY <1>3, <1>5, SavedType
      <3>2. kvFile'[FileName[i]] = IF FileName[i] = FileName[j.key] THEN None
                                   ELSE Saved(j.key)[FileName[i]]
        BY <2>3, <3>1, <1>1, <1>3
      <3>. QED  BY <3>2, <1>7 DEF IsFile
    <2>. QED  BY <2>1, <2>2, <2>3
  <1>. QED  BY <1>6, <1>8

LEMMA BeginContent ==
    ASSUME TableInv, Content, OneServer, OneThread, KeysApart, NEW w \in Worker, Begin(w)
    PROVE  Content'
  <1>. DEFINE j == Head(jobs)
  <1>1. /\ j = jobs[1] /\ j \in Job /\ Len(jobs) > 0 /\ wk[w].pc = "idle"
        /\ jobs' \in Seq(Job) /\ Len(jobs') = Len(jobs) - 1
        /\ \A m \in 1 .. Len(jobs') : jobs'[m] = jobs[m + 1]
        /\ cache_key' = j.key
        /\ Refused(j) =>
              /\ kv' = <<>>
              /\ kvFile' = IF mode.cacheDir THEN [Saved(j.key) EXCEPT ![FileName[j.key]] = None]
                           ELSE kvFile
              /\ Answer(j, "rebuild", <<>>) /\ wk' = wk
        /\ ~Refused(j) => kv' = CutBack(j) /\ kvFile' = Saved(j.key)
        /\ TooLong(j) => Answer(j, "err", <<>>) /\ wk' = wk
        /\ ~Refused(j) /\ ~TooLong(j) =>
              req' = req /\ wk' = [wk EXCEPT ![w] = [@ EXCEPT !.pc = "engine", !.job = j]]
        /\ UNCHANGED <<sess, sessFile, up, mode, engine_lock>>
    BY BeginEffect DEF TableInv
  <1>2. Len(jobs) \in Nat /\ \A m \in 1 .. Len(jobs) : jobs[m] \in Job /\ jobs[m].srv \in Srv \cup {None}
    BY JobTypes DEF TableInv
  <1>3. \A m \in 1 .. Len(jobs') : m + 1 \in 1 .. Len(jobs) /\ m + 1 # 1 /\ 1 < m + 1
    BY <1>1, <1>2
  <1>4. /\ j.key \in Keys /\ j.srv \in Srv \cup {None} /\ Sound(j) /\ Covers(j)
        /\ Aligned(j.key, Basis(j)) /\ 1 \in 1 .. Len(jobs)
        /\ \A m \in 1 .. Len(jobs') : Before(j, jobs'[m])
    <2>1. 1 \in 1 .. Len(jobs)  BY <1>1, <1>2
    <2>2. j.key \in Keys /\ j.srv \in Srv \cup {None}  BY <1>1 DEF Job
    <2>3. Sound(j) /\ Covers(j) /\ Aligned(j.key, Basis(j))
      BY <1>1, <2>1 DEF Content, WorkInv, AlignInv, OrderInv
    <2>4. \A n \in 1 .. Len(jobs) : 1 < n => Before(jobs[1], jobs[n])
      BY <2>1 DEF Content, OrderInv
    <2>5. \A m \in 1 .. Len(jobs') : Before(j, jobs'[m])  BY <1>1, <1>3, <2>4
    <2>. QED  BY <2>1, <2>2, <2>3, <2>5
  <1>5. TypeInv /\ FileInv /\ \A t \in Srv : \A x \in Srv : t = x  BY DEF TableInv, OneServer, Content
  <1>6. \A v \in Worker : v = w  BY DEF OneThread
  <1>7. \A i \in Keys, t \in Srv : (Known(t, i)' <=> Known(t, i)) /\ Toks(t, i)' = Toks(t, i)
    BY <1>1, SameSession
  \* The work thread.
  <1>8. \/ wk' = wk /\ ~Busy(w)'
        \/ /\ ~Refused(j) /\ ~TooLong(j) /\ req' = req
           /\ wk'[w].pc = "engine" /\ wk'[w].job = j
    <2>1. wk[w] \in Thread /\ wk \in [Worker -> Thread]  BY DEF TableInv, TypeInv
    <2>2. CASE Refused(j) \/ TooLong(j)
      <3>1. wk' = wk  BY <2>2, <1>1
      <3>. QED  BY <3>1, <1>1 DEF Busy
    <2>3. CASE ~Refused(j) /\ ~TooLong(j)
      <3>1. req' = req /\ wk' = [wk EXCEPT ![w] = [@ EXCEPT !.pc = "engine", !.job = j]]
        BY <2>3, <1>1
      <3>. HIDE DEF j
      <3>2. wk'[w] = [wk[w] EXCEPT !.pc = "engine", !.job = j]  BY <2>1, <3>1
      <3>3. wk'[w].pc = "engine" /\ wk'[w].job = j  BY <2>1, <3>2 DEF Thread
      <3>. QED  BY <2>3, <3>1, <3>3
    <2>. QED  BY <2>2, <2>3
  \* The request: nobody has an answer yet.
  <1>9. \A t \in Srv :
           /\ req[t].st # "done" /\ req'[t].st # "done"
           /\ req'[t].st # "idle" => req[t].st # "idle"
           /\ req'[t].key = req[t].key /\ req'[t].full = req[t].full
           /\ req'[t].tokens = req[t].tokens /\ req'[t].resume = req[t].resume
           /\ req'[t].replay = req[t].replay
    <2>0. \A t \in Srv : req[t].st # "done"
      <3>1. \A t \in Srv : req[t].st = "done" => Len(jobs) = 0  BY NothingPending
      <3>. QED  BY <3>1, <1>1
    <2>1. CASE req' = req  BY <2>0, <2>1
    <2>2. CASE Refused(j) \/ TooLong(j)
      <3>. DEFINE st == IF Refused(j) THEN "rebuild" ELSE "err"
      <3>1. Answer(j, st, <<>>) /\ st \in {"rebuild", "err"} /\ <<>> \in Seq(Token)
        BY <1>1, <2>2 DEF TooLong
      <3>2. /\ \A t \in Srv : t # j.srv => req'[t] = req[t]
            /\ j.srv # None =>
                  /\ req'[j.srv].st = st
                  /\ req'[j.srv].key = req[j.srv].key /\ req'[j.srv].full = req[j.srv].full
                  /\ req'[j.srv].tokens = req[j.srv].tokens
                  /\ req'[j.srv].resume = req[j.srv].resume
                  /\ req'[j.srv].replay = req[j.srv].replay
        <4>. HIDE DEF st, j
        <4>. QED  BY <1>4, <1>5, <3>1, AnswerProperties
      <3>3. j.srv # None => req[j.srv].st = "wait"
        BY <1>1, <1>4 DEF TableInv, LiveInv
      <3>. HIDE DEF st, j
      <3>. QED  BY <2>0, <3>1, <3>2, <3>3, Values
    <2>. QED  BY <1>8, <2>1, <2>2, <1>1
  <1>. HIDE DEF j
  <1>10. FileInv'
    <2>1. ~mode.cacheDir => kvFile' = kvFile
      <3>1. ~mode.cacheDir => Saved(j.key) = kvFile  BY DEF Saved
      <3>. QED  BY <3>1, <1>1
    <2>2. cache_key' \in RankKeys \cup {None}  BY <1>1, <1>4 DEF Sound
    <2>3. \A t \in Srv, i \in ClientKeys : Known(t, i)' <=> Known(t, i)  BY <1>7, KeySets
    <2>. QED  BY <2>1, <2>2, <2>3, <1>1, <1>7 DEF Content, FileInv, InUse
  <1>11. RequestInv'
    <2>. SUFFICES ASSUME NEW t \in Srv, req'[t].st # "idle"
                  PROVE  /\ req'[t].key \in InUse(mode)' /\ ~req'[t].replay
                         /\ req'[t].full \in Prompts
                         /\ Prefix(Toks(t, req[t].key), req[t].full)'
                         /\ req'[t].resume = Len(Toks(t, req[t].key))'
                         /\ req'[t].tokens = Drop(req[t].full, req[t].resume)'
      BY DEF RequestInv
    <2>1. InUse(mode)' = InUse(mode)  BY <1>1 DEF InUse
    <2>0. PICK i \in Keys : i = req[t].key
      BY <1>9, KeySets DEF Content, RequestInv
    <2>2. Toks(t, req[t].key)' = Toks(t, req[t].key)  BY <2>0, <1>7, <1>9
    <2>3. /\ req[t].key \in InUse(mode) /\ ~req[t].replay /\ req[t].full \in Prompts
          /\ Prefix(Toks(t, req[t].key), req[t].full)
          /\ req[t].resume = Len(Toks(t, req[t].key))
          /\ req[t].tokens = Drop(req[t].full, req[t].resume)
      BY <1>9 DEF Content, RequestInv
    <2>. QED  BY <2>1, <2>2, <2>3, <1>9
  <1>12. LastInv'
    <2>1. ASSUME NEW m \in 1 .. Len(jobs'), jobs'[m].srv # None
          PROVE  m = Len(jobs') /\ Of(jobs[m], jobs[m].srv)'
      <3>1. /\ jobs'[m] = jobs[m + 1] /\ m + 1 \in 1 .. Len(jobs)
            /\ jobs[m + 1].srv \in Srv
        BY <2>1, <1>1, <1>2, <1>3
      <3>2. m + 1 = Len(jobs) /\ Of(jobs[m + 1], jobs[m + 1].srv)
        BY <2>1, <3>1 DEF Content, LastInv
      <3>3. m = Len(jobs')  BY <3>2, <1>1, <1>2
      <3>. QED  BY <3>1, <3>2, <3>3, <1>9 DEF Of
    <2>2. ASSUME NEW v \in Worker, wk'[v].job.srv # None
          PROVE  jobs' = <<>> /\ Of(wk[v].job, wk[v].job.srv)'
      <3>1. CASE wk' = wk
        <4>1. jobs = <<>>  BY <2>2, <3>1 DEF Content, LastInv
        <4>. QED  BY <4>1, <1>1
      <3>2. CASE wk'[w].pc = "engine" /\ wk'[w].job = j /\ req' = req
        <4>1. wk'[v].job = jobs[1] /\ jobs[1].srv # None  BY <2>2, <3>2, <1>1, <1>6
        <4>2. 1 = Len(jobs) /\ Of(jobs[1], jobs[1].srv)
          BY <4>1, <1>4 DEF Content, LastInv
        <4>3. jobs' = <<>>  BY <4>2, <1>1, EmptySeq
        <4>. QED  BY <4>1, <4>2, <4>3, <3>2 DEF Of
      <3>. QED  BY <3>1, <3>2, <1>8
    <2>. QED  BY <2>1, <2>2 DEF LastInv
  <1>13. WorkInv'
    <2>1. \A m \in 1 .. Len(jobs') : Sound(jobs[m])'
      BY <1>1, <1>3 DEF Content, WorkInv, Sound
    <2>2. CASE ~Busy(w)'
      <3>1. \A v \in Worker : ~Busy(v)' /\ wk'[v].pc # "engine" /\ wk'[v].pc # "save"
        BY <2>2, <1>6 DEF Busy
      <3>. QED  BY <2>1, <3>1 DEF WorkInv
    <2>3. CASE ~Refused(j) /\ ~TooLong(j) /\ wk'[w].pc = "engine" /\ wk'[w].job = j
      <3>1. kv' = CutBack(j) /\ CutBack(j) = Basis(j)
        BY <2>3, <1>1, <1>4, <1>5, StartsFromBasis
      <3>2. Len(j.prompt) <= mode.maxSeq
        <4>1. /\ Len(Basis(j)) = j.resume /\ Len(j.delta) = Len(j.prompt) - j.resume
              /\ Len(j.prompt) \in Nat /\ j.resume \in Nat
          BY <1>1, <1>4, BasisFacts DEF Job
        <4>2. mode.maxSeq \in Nat  BY <1>5, Values DEF TypeInv
        <4>3. ~(Len(CutBack(j)) + Len(j.delta) > mode.maxSeq)  BY <2>3 DEF TooLong
        <4>. QED  BY <3>1, <4>1, <4>2, <4>3
      <3>3. Sound(wk[w].job)'  BY <2>3, <1>4 DEF Sound
      <3>4. kv' = Basis(wk[w].job)'  BY <2>3, <3>1 DEF Basis
      <3>5. Len(wk'[w].job.prompt) <= mode'.maxSeq /\ wk'[w].job \in Job
            /\ cache_key' = wk'[w].job.key /\ wk'[w].pc # "save"
        BY <2>3, <3>2, <1>1
      <3>. QED  BY <2>1, <3>3, <3>4, <3>5, <1>6 DEF WorkInv
    <2>. QED  BY <2>2, <2>3, <1>8
  <1>14. OrderInv'
    <2>1. ASSUME NEW m \in 1 .. Len(jobs')
          PROVE  Covers(jobs[m])' /\ \A n \in 1 .. Len(jobs') : m < n => Before(jobs[m], jobs[n])'
      <3>1. Covers(jobs[m])'
        <4>. SUFFICES ASSUME NEW t \in Srv, NEW k \in ClientKeys,
                             RankKey[k] = jobs'[m].key, Known(t, k)'
                      PROVE  Prefix(Toks(t, k)', jobs'[m].prompt)
          BY DEF Covers
        <4>1. PICK x \in Job : x = jobs'[m] /\ Covers(x)
          BY <1>1, <1>2, <1>3 DEF Content, OrderInv
        <4>2. RankKey[k] = x.key => Prefix(Toks(t, k)', x.prompt)
          BY <4>1, <1>7, KeySets DEF Covers
        <4>. QED  BY <4>1, <4>2
      <3>2. ASSUME NEW n \in 1 .. Len(jobs'), m < n PROVE Before(jobs[m], jobs[n])'
        <4>1. /\ jobs'[m] = jobs[m + 1] /\ jobs'[n] = jobs[n + 1]
              /\ m + 1 \in 1 .. Len(jobs) /\ n + 1 \in 1 .. Len(jobs) /\ m + 1 < n + 1
          BY <3>2, <1>1, <1>3
        <4>2. Before(jobs[m + 1], jobs[n + 1])  BY <4>1 DEF Content, OrderInv
        <4>. QED  BY <4>1, <4>2 DEF Before, Basis
      <3>. QED  BY <3>1, <3>2
    <2>2. ASSUME NEW v \in Worker, Busy(v)'
          PROVE  Covers(wk[v].job)' /\ \A n \in 1 .. Len(jobs') : Before(wk[v].job, jobs[n])'
      <3>1. v = w /\ wk'[v].job = j
        BY <2>2, <1>6, <1>8
      <3>2. Covers(wk[v].job)'
        <4>. SUFFICES ASSUME NEW t \in Srv, NEW k \in ClientKeys,
                             RankKey[k] = wk'[v].job.key, Known(t, k)'
                      PROVE  Prefix(Toks(t, k)', wk'[v].job.prompt)
          BY DEF Covers
        <4>1. PICK x \in Job : x = j /\ Covers(x)  BY <1>1, <1>4
        <4>2. RankKey[k] = x.key => Prefix(Toks(t, k)', x.prompt)
          BY <4>1, <1>7, KeySets DEF Covers
        <4>. QED  BY <3>1, <4>1, <4>2
      <3>3. \A n \in 1 .. Len(jobs') : Before(wk[v].job, jobs[n])'
        BY <3>1, <1>4 DEF Before, Basis
      <3>. QED  BY <3>2, <3>3
    <2>. QED  BY <2>1, <2>2 DEF OrderInv
  <1>15. AlignInv'
    <2>1. ASSUME NEW t \in Srv, NEW i \in ClientKeys, Known(t, i)'
          PROVE  Aligned(RankKey[i], Toks(t, i))'
      <3>1. Known(t, i) /\ Toks(t, i)' = Toks(t, i)  BY <2>1, <1>7, KeySets
      <3>2. Toks(t, i) \in Seq(Token) /\ Aligned(RankKey[i], Toks(t, i))
        BY <3>1, <1>5, KnownEntry DEF Content, AlignInv
      <3>3. RankKey[i] = jobs[1].key => Prefix(Toks(t, i), jobs[1].prompt)
        BY <3>1, <1>1, <1>4 DEF Covers
      <3>4. PICK u \in Seq(Token), rk \in RankKeys : u = Toks(t, i) /\ rk = RankKey[i]
        BY <3>2, KeySets
      <3>5. /\ cache_key' = rk => Agrees(u, kv')
            /\ IsFile(kvFile'[FileName[rk]]) => Agrees(u, kvFile'[FileName[rk]])
        BY <3>2, <3>3, <3>4, SwitchAligned
      <3>. QED  BY <3>1, <3>4, <3>5 DEF Aligned
    <2>2. ASSUME NEW m \in 1 .. Len(jobs') PROVE Aligned(jobs[m].key, Basis(jobs[m]))'
      <3>1. PICK x \in Job : x = jobs'[m] /\ Sound(x) /\ Aligned(x.key, Basis(x))
        BY <1>1, <1>2, <1>3 DEF Content, WorkInv, AlignInv
      <3>2. x.key \in RankKeys /\ Basis(x) \in Seq(Token)  BY <3>1, BasisFacts DEF Sound
      <3>3. x.key = jobs[1].key => Prefix(Basis(x), jobs[1].prompt)
        BY <3>1, <1>1, <1>4 DEF Before
      <3>4. /\ cache_key' = x.key => Agrees(Basis(x), kv')
            /\ IsFile(kvFile'[FileName[x.key]]) => Agrees(Basis(x), kvFile'[FileName[x.key]])
        BY <3>1, <3>2, <3>3, SwitchAligned
      <3>. QED  BY <3>1, <3>4 DEF Aligned, Basis
    <2>. QED  BY <2>1, <2>2, <1>9 DEF AlignInv
  <1>. QED  BY <1>10, <1>11, <1>12, <1>13, <1>14, <1>15 DEF Content

\* The answer is computed from the prompt, and the rows are those of both.
LEMMA RunFacts ==
    ASSUME TypeInv, WorkInv, NEW w \in Worker, NEW gen \in Gens, RunWith(w, gen)
    PROVE  LET j == wk[w].job IN
           /\ Ctx(w) = j.prompt /\ Prefix(j.prompt, kv')
           /\ Agrees(All(w, gen), kv')
  <1>. DEFINE j == wk[w].job
              all == All(w, gen)
              out == Out(w, gen)
  <1>1. /\ wk[w].pc = "engine" /\ all \in Seq(Token) /\ kv' \in Seq(Token) /\ Prefix(kv', all)
        /\ Len(kv') = Least(Len(all), mode.maxSeq) /\ out \in Seq(Token)
        /\ Len(all) = Len(Ctx(w)) + Len(out) + 1
    BY RunEffect
  <1>2. /\ j \in Job /\ Sound(j) /\ kv = Basis(j) /\ Len(j.prompt) <= mode.maxSeq
    BY <1>1 DEF WorkInv, Busy
  <1>3. j.prompt \in Seq(Token) /\ Basis(j) \o j.delta = j.prompt  BY <1>2, BasisFacts
  <1>4. Ctx(w) = j.prompt  BY <1>2, <1>3 DEF Ctx
  <1>5. all = j.prompt \o out \o <<Eos>>  BY <1>4 DEF All
  <1>6. mode.maxSeq \in Nat /\ <<Eos>> \in Seq(Token)  BY Values DEF TypeInv
  <1>. HIDE DEF all, out, j
  <1>7. Prefix(j.prompt, all)
    <2>. DEFINE po == j.prompt \o out
    <2>1. po \in Seq(Token) /\ Prefix(j.prompt, po)  BY <1>1, <1>3, ConcatPrefix
    <2>2. all = po \o <<Eos>>  BY <1>5
    <2>. HIDE DEF po
    <2>3. Prefix(po, po \o <<Eos>>)  BY <1>6, <2>1, ConcatPrefix
    <2>. QED  BY <1>1, <1>3, <2>1, <2>2, <2>3, PrefixFacts
  <1>8. Len(j.prompt) <= Len(kv')
    <2>1. Len(j.prompt) \in Nat /\ Len(out) \in Nat /\ Len(all) \in Nat  BY <1>1, <1>3
    <2>. QED  BY <2>1, <1>1, <1>2, <1>4, <1>6 DEF Least, j
  <1>9. \A i \in 1 .. Len(kv') : kv'[i] = all[i]  BY <1>1 DEF Prefix
  <1>10. Agrees(all, kv')
    <2>1. Len(all) \in Nat /\ Len(kv') \in Nat  BY <1>1
    <2>. QED  BY <2>1, <1>9 DEF Agrees
  <1>11. Prefix(j.prompt, kv')
    <2>1. Len(j.prompt) \in Nat /\ Len(kv') \in Nat  BY <1>1, <1>3
    <2>. QED  BY <2>1, <1>7, <1>8, <1>9 DEF Prefix
  <1>. QED  BY <1>4, <1>10, <1>11 DEF j, all

LEMMA RunContent ==
    ASSUME TableInv, Content, OneThread, NEW w \in Worker, Run(w)
    PROVE  Content'
  <1>1. PICK gen \in Gens : RunWith(w, gen)  BY DEF Run
  <1>. DEFINE j == wk[w].job
              all == All(w, gen)
  <1>2. /\ wk[w].pc = "engine" /\ all \in Seq(Token) /\ kv' \in Seq(Token)
        /\ wk'[w].pc = "save" /\ wk'[w].job = j
        /\ wk'[w].ctx = Ctx(w) /\ wk'[w].gen = Out(w, gen)
        /\ UNCHANGED <<sess, req, sessFile, kvFile, up, mode, jobs, cache_key>>
    BY <1>1, RunEffect DEF TableInv
  <1>3. Ctx(w) = j.prompt /\ Prefix(j.prompt, kv') /\ Agrees(all, kv')
    BY <1>1, RunFacts DEF TableInv, Content
  <1>4. Busy(w) /\ j \in Job /\ Sound(j) /\ cache_key = j.key
    BY <1>2 DEF Content, WorkInv, Busy
  <1>5. \A v \in Worker : v = w  BY DEF OneThread
  <1>6. /\ wk'[w].ctx = wk'[w].job.prompt /\ Prefix(wk'[w].ctx, kv')
        /\ wk'[w].ctx \o wk'[w].gen \o <<Eos>> = all
    BY <1>2, <1>3 DEF All
  <1>7. j.prompt \in Seq(Token)  BY <1>4, BasisFacts
  <1>. HIDE DEF j, all
  <1>8. FileInv' /\ RequestInv'
    BY <1>2 DEF Content, FileInv, RequestInv, InUse, Known, Toks, Pos
  <1>9. LastInv'
    <2>1. \A v \in Worker : wk'[v].job = wk[v].job  BY <1>2, <1>5 DEF j
    <2>. QED  BY <2>1, <1>2 DEF Content, LastInv, Of
  <1>10. WorkInv'
    <2>1. \A m \in 1 .. Len(jobs') : Sound(jobs[m])'
      BY <1>2 DEF Content, WorkInv, Sound
    <2>2. Sound(wk[w].job)'  BY <1>2, <1>4 DEF Sound
    <2>3. Agrees(wk'[w].ctx \o wk'[w].gen \o <<Eos>>, kv')  BY <1>3, <1>6
    <2>4. wk'[w].job \in Job /\ cache_key' = wk'[w].job.key /\ wk'[w].pc # "engine"
      BY <1>2, <1>4
    <2>. QED  BY <2>1, <2>2, <2>3, <2>4, <1>5, <1>6 DEF WorkInv
  <1>11. OrderInv'
    <2>1. \A m \in 1 .. Len(jobs') : Covers(jobs[m])'
      BY <1>2, SameSession DEF Content, OrderInv, Covers
    <2>2. \A m, n \in 1 .. Len(jobs') : m < n => Before(jobs[m], jobs[n])'
      BY <1>2 DEF Content, OrderInv, Before, Basis
    <2>3. Covers(wk[w].job)'
      <3>1. Covers(wk[w].job)  BY <1>4 DEF Content, OrderInv
      <3>. QED  BY <3>1, <1>2, SameSession DEF Covers, j
    <2>4. \A n \in 1 .. Len(jobs') : Before(wk[w].job, jobs[n])'
      <3>1. \A n \in 1 .. Len(jobs) : Before(wk[w].job, jobs[n])
        BY <1>4 DEF Content, OrderInv
      <3>. QED  BY <3>1, <1>2 DEF Before, Basis, j
    <2>. QED  BY <2>1, <2>2, <2>3, <2>4, <1>5 DEF OrderInv
  \* Who counts on rows of this session counts on a beginning of the prompt.
  <1>12. ASSUME NEW i \in Keys, NEW u \in Seq(Token), Aligned(i, u),
                i = j.key => Prefix(u, j.prompt)
         PROVE  Aligned(i, u)'
    <2>1. cache_key' = i => Agrees(u, kv')
      BY <1>12, <1>2, <1>3, <1>4, <1>7, PrefixFacts
    <2>. QED  BY <2>1, <1>12, <1>2 DEF Aligned
  <1>13. AlignInv'
    <2>1. ASSUME NEW t \in Srv, NEW i \in ClientKeys, Known(t, i)'
          PROVE  Aligned(RankKey[i], Toks(t, i))'
      <3>1. Known(t, i) /\ Toks(t, i)' = Toks(t, i)  BY <2>1, <1>2, SameSession
      <3>2. Toks(t, i) \in Seq(Token) /\ Aligned(RankKey[i], Toks(t, i))
        BY <3>1, KnownEntry DEF Content, AlignInv, TableInv
      <3>3. RankKey[i] = j.key => Prefix(Toks(t, i), j.prompt)
        BY <3>1, <1>4 DEF Content, OrderInv, Covers, j
      <3>4. PICK u \in Seq(Token), rk \in Keys : u = Toks(t, i) /\ rk = RankKey[i]
        BY <3>2, KeySets, Names
      <3>5. Aligned(rk, u)'  BY <3>2, <3>3, <3>4, <1>12
      <3>. QED  BY <3>1, <3>4, <3>5 DEF Aligned
    <2>2. ASSUME NEW m \in 1 .. Len(jobs') PROVE Aligned(jobs[m].key, Basis(jobs[m]))'
      <3>1. PICK x \in Job : x = jobs[m] /\ Sound(x) /\ Aligned(x.key, Basis(x))
        BY <1>2, JobTypes DEF Content, WorkInv, AlignInv, TableInv
      <3>2. x.key \in Keys /\ Basis(x) \in Seq(Token)  BY <3>1, BasisFacts DEF Job
      <3>3. x.key = j.key => Prefix(Basis(x), j.prompt)
        BY <3>1, <1>2, <1>4 DEF Content, OrderInv, Before, j
      <3>4. PICK u \in Seq(Token) : u = Basis(x)  BY <3>2
      <3>5. Aligned(x.key, u)'  BY <3>1, <3>2, <3>3, <3>4, <1>12
      <3>. QED  BY <3>1, <3>4, <3>5, <1>2 DEF Aligned, Basis
    <2>3. \A t \in Srv : req'[t].st # "done"
      <3>1. \A t \in Srv : req[t].st # "done"  BY <1>4, NothingPending
      <3>. QED  BY <3>1, <1>2
    <2>. QED  BY <2>1, <2>2, <2>3 DEF AlignInv
  <1>. QED  BY <1>8, <1>9, <1>10, <1>11, <1>13 DEF Content

LEMMA SaveContent ==
    ASSUME TableInv, Content, OneServer, OneThread, KeysApart, NEW w \in Worker, Save(w)
    PROVE  Content'
  <1>. DEFINE j == wk[w].job
              a == wk[w].ctx \o wk[w].gen \o <<Eos>>
  <1>1. /\ wk[w].pc = "save" /\ kvFile' \in [Keys -> File]
        /\ kvFile' = IF mode.cacheDir /\ kv # <<>> THEN [kvFile EXCEPT ![FileName[cache_key]] = kv]
                     ELSE kvFile
        /\ Answer(j, "done", wk[w].gen) /\ wk[w].gen \in Seq(Token)
        /\ j.srv \in Srv \cup {None} /\ wk'[w] = Idle
        /\ UNCHANGED <<sess, sessFile, up, mode, jobs, cache_key, kv>>
    BY SaveEffect DEF TableInv
  <1>2. /\ \A t \in Srv : t # j.srv => req'[t] = req[t]
        /\ j.srv # None =>
              /\ req'[j.srv].st = "done" /\ req'[j.srv].gen = wk[w].gen
              /\ req'[j.srv].key = req[j.srv].key /\ req'[j.srv].full = req[j.srv].full
              /\ req'[j.srv].tokens = req[j.srv].tokens
              /\ req'[j.srv].resume = req[j.srv].resume /\ req'[j.srv].replay = req[j.srv].replay
    BY <1>1, AnswerProperties DEF TableInv
  <1>3. /\ Busy(w) /\ j \in Job /\ Sound(j) /\ cache_key = j.key
        /\ j.key \in Keys /\ j.key \in RankKeys /\ FileName[j.key] \in Keys
    BY <1>1, Names DEF Content, WorkInv, Busy, Job, Sound
  <1>4. wk[w].ctx = j.prompt /\ Prefix(j.prompt, kv) /\ Agrees(a, kv)
    BY <1>1 DEF Content, WorkInv
  <1>5. j.srv # None =>
           /\ req[j.srv].st = "wait" /\ Len(jobs) = 0
           /\ j.key = RankKey[req[j.srv].key] /\ j.prompt = req[j.srv].full
    BY DEF Content, LastInv, Of, TableInv, LiveInv
  <1>6. \A v \in Worker : v = w  BY DEF OneThread
  <1>7. \A t \in Srv, i \in Keys : (Known(t, i)' <=> Known(t, i)) /\ Toks(t, i)' = Toks(t, i)
    BY <1>1, SameSession
  <1>8. \A v \in Worker : ~Busy(v)' /\ wk'[v].job.srv = None /\ wk'[v].pc = "idle"
    BY <1>1, <1>6 DEF Busy, Idle, NoJob
  <1>9. \A t \in Srv : req[t].st # "done"  BY <1>3, NothingPending
  <1>10. kv # <<>>
    <2>1. Len(j.prompt) \in Nat \ {0}  BY <1>3, BasisFacts
    <2>. QED  BY <2>1, <1>4 DEF Prefix
  <1>. HIDE DEF j
  <1>11. \A t \in Srv :
           /\ req'[t].st # "idle" => req[t].st # "idle"
           /\ req'[t].key = req[t].key /\ req'[t].full = req[t].full
           /\ req'[t].tokens = req[t].tokens /\ req'[t].resume = req[t].resume
           /\ req'[t].replay = req[t].replay
    BY <1>1, <1>2, <1>5, Values
  <1>12. FileInv'
    <2>1. ~mode.cacheDir => kvFile' = kvFile  BY <1>1
    <2>2. \A t \in Srv, i \in ClientKeys : Known(t, i)' <=> Known(t, i)  BY <1>7, KeySets
    <2>. QED  BY <2>1, <2>2, <1>1, <1>7 DEF Content, FileInv, InUse
  <1>13. RequestInv'
    <2>. SUFFICES ASSUME NEW t \in Srv, req'[t].st # "idle"
                  PROVE  /\ req'[t].key \in InUse(mode)' /\ ~req'[t].replay
                         /\ req'[t].full \in Prompts
                         /\ Prefix(Toks(t, req[t].key), req[t].full)'
                         /\ req'[t].resume = Len(Toks(t, req[t].key))'
                         /\ req'[t].tokens = Drop(req[t].full, req[t].resume)'
      BY DEF RequestInv
    <2>0. PICK i \in Keys : i = req[t].key
      BY <1>11, KeySets DEF Content, RequestInv
    <2>1. InUse(mode)' = InUse(mode)  BY <1>1 DEF InUse
    <2>2. Toks(t, req[t].key)' = Toks(t, req[t].key)  BY <2>0, <1>7, <1>11
    <2>3. /\ req[t].key \in InUse(mode) /\ ~req[t].replay /\ req[t].full \in Prompts
          /\ Prefix(Toks(t, req[t].key), req[t].full)
          /\ req[t].resume = Len(Toks(t, req[t].key))
          /\ req[t].tokens = Drop(req[t].full, req[t].resume)
      BY <1>11 DEF Content, RequestInv
    <2>. QED  BY <2>1, <2>2, <2>3, <1>11
  <1>14. LastInv'
    <2>1. ASSUME NEW m \in 1 .. Len(jobs), jobs[m].srv # None
          PROVE  m = Len(jobs) /\ Of(jobs[m], jobs[m].srv)'
      <3>1. m = Len(jobs) /\ Of(jobs[m], jobs[m].srv)  BY <2>1 DEF Content, LastInv
      <3>2. jobs[m].srv \in Srv  BY <2>1, JobTypes DEF TableInv
      <3>. QED  BY <3>1, <3>2, <1>1, <1>11 DEF Of
    <2>. QED  BY <2>1, <1>1, <1>8 DEF LastInv
  <1>15. WorkInv' /\ OrderInv'
    <2>1. \A m \in 1 .. Len(jobs') : Sound(jobs[m])'
      BY <1>1 DEF Content, WorkInv, Sound
    <2>2. \A m \in 1 .. Len(jobs') : Covers(jobs[m])'
      BY <1>1, SameSession DEF Content, OrderInv, Covers
    <2>3. \A m, n \in 1 .. Len(jobs') : m < n => Before(jobs[m], jobs[n])'
      BY <1>1 DEF Content, OrderInv, Before, Basis
    <2>. QED  BY <2>1, <2>2, <2>3, <1>8 DEF WorkInv, OrderInv
  \* The file of the session becomes what the engine has cached.
  <1>16. ASSUME NEW i \in RankKeys, NEW u, Aligned(i, u) PROVE Aligned(i, u)'
    <2>1. i \in Keys /\ FileName[i] \in Keys  BY KeySets, Names
    <2>2. cache_key # i => FileName[cache_key] # FileName[i]  BY <1>3, Apart
    <2>3. \/ kvFile'[FileName[i]] = kvFile[FileName[i]]
          \/ cache_key = i /\ kvFile'[FileName[i]] = kv
      BY <2>1, <2>2, <1>1, <1>3 DEF TableInv, TypeInv
    <2>. QED  BY <2>3, <1>1, <1>16 DEF Aligned
  <1>17. ASSUME NEW t \in Srv, req'[t].st = "done"
         PROVE  /\ jobs' = <<>> /\ \A v \in Worker : ~Busy(v)'
                /\ Aligned(RankKey[req[t].key], req[t].full \o req[t].gen \o <<Eos>>)'
    <2>1. t = j.srv /\ j.srv # None  BY <1>17, <1>1, <1>2, <1>9, Values
    <2>2. jobs' = <<>>  BY <2>1, <1>1, <1>5, EmptySeq DEF TableInv, TypeInv
    <2>3. /\ RankKey[req'[t].key] = j.key /\ req'[t].gen = wk[w].gen /\ req'[t].full = wk[w].ctx
      BY <2>1, <1>2, <1>4, <1>5
    <2>4. req'[t].full \o req'[t].gen \o <<Eos>> = a  BY <2>3
    <2>5. /\ cache_key' = j.key => Agrees(a, kv')
          /\ IsFile(kvFile'[FileName[j.key]]) => Agrees(a, kvFile'[FileName[j.key]])
      <3>1. CASE mode.cacheDir
        <4>1. kvFile'[FileName[j.key]] = kv  BY <3>1, <1>1, <1>3, <1>10 DEF TableInv, TypeInv
        <4>. QED  BY <4>1, <1>1, <1>4
      <3>2. CASE ~mode.cacheDir
        <4>1. kvFile'[FileName[j.key]] = None  BY <3>2, <1>1, <1>3 DEF Content, FileInv
        <4>. QED  BY <4>1, <1>1, <1>4 DEF IsFile
      <3>. QED  BY <3>1, <3>2
    <2>. QED  BY <2>2, <2>3, <2>4, <2>5, <1>8 DEF Aligned
  <1>18. AlignInv'
    <2>1. ASSUME NEW t \in Srv, NEW i \in ClientKeys, Known(t, i)'
          PROVE  Aligned(RankKey[i], Toks(t, i))'
      <3>0. PICK rk \in RankKeys : rk = RankKey[i]  BY KeySets
      <3>1. PICK u : u = Toks(t, i)  OBVIOUS
      <3>2. Known(t, i) /\ Toks(t, i)' = u  BY <2>1, <3>1, <1>7, KeySets
      <3>3. Aligned(rk, u)'  BY <3>0, <3>1, <3>2, <1>16 DEF Content, AlignInv
      <3>. QED  BY <3>0, <3>2, <3>3 DEF Aligned
    <2>2. ASSUME NEW m \in 1 .. Len(jobs') PROVE Aligned(jobs[m].key, Basis(jobs[m]))'
      <3>1. PICK x \in Job : x = jobs[m] /\ Sound(x) /\ Aligned(x.key, Basis(x))
        BY <1>1, JobTypes DEF Content, WorkInv, AlignInv, TableInv
      <3>2. PICK u : u = Basis(x)  OBVIOUS
      <3>3. x.key \in RankKeys  BY <3>1 DEF Sound
      <3>4. Aligned(x.key, u)'  BY <3>1, <3>2, <3>3, <1>16
      <3>. QED  BY <3>1, <3>2, <3>4, <1>1 DEF Aligned, Basis
    <2>. QED  BY <2>1, <2>2, <1>17 DEF AlignInv
  <1>. QED  BY <1>12, <1>13, <1>14, <1>15, <1>18 DEF Content

LEMMA ContentInit ==
    ASSUME Init
    PROVE  Content
  <1>1. \A s \in Srv : Len(sess[s]) = 0 /\ req[s].st = "idle"  BY DEF Init, NoReq
  <1>2. \A s \in Srv : \A i : ~Known(s, i)  BY <1>1 DEF Known
  <1>3. Len(jobs) = 0  BY DEF Init
  <1>4. \A w \in Worker : wk[w].job.srv = None /\ ~Busy(w) /\ wk[w].pc = "idle"
    BY DEF Init, Idle, NoJob, Busy
  <1>5. FileInv  BY <1>2, KeySets, Names DEF Init, FileInv
  <1>6. RequestInv /\ LastInv /\ WorkInv /\ OrderInv /\ AlignInv
    BY <1>1, <1>2, <1>3, <1>4 DEF RequestInv, LastInv, WorkInv, OrderInv, AlignInv
  <1>. QED  BY <1>5, <1>6 DEF Content

\* The mode never changes.
LEMMA SameMode == [Next]_vars => mode' = mode
  <1>1. ASSUME NEW s \in Srv, WithKey(s) PROVE mode' = mode  BY <1>1 DEF WithKey, Start
  <1>2. ASSUME NEW s \in Srv, WithoutKey(s) PROVE mode' = mode
    BY <1>2, Zenon DEF WithoutKey, Start
  <1>3. ASSUME NEW s \in Srv, SrvStep(s) \/ Timeout(s) \/ SrvDies(s) PROVE mode' = mode
    <2>1. Done(s) => mode' = mode  BY DEF Done
    <2>2. Resend(s) => mode' = mode  BY DEF Resend
    <2>3. Refuse(s) => mode' = mode  BY DEF Refuse
    <2>4. Timeout(s) => mode' = mode  BY DEF Timeout
    <2>5. SrvDies(s) => mode' = mode  BY DEF SrvDies
    <2>. QED  BY <1>3, <2>1, <2>2, <2>3, <2>4, <2>5 DEF SrvStep
  <1>4. ASSUME NEW w \in Worker, Begin(w) \/ Run(w) \/ Save(w) PROVE mode' = mode
    <2>1. Begin(w) => mode' = mode  BY DEF Begin
    <2>2. Run(w) => mode' = mode  BY DEF Run, RunWith
    <2>3. Save(w) => mode' = mode  BY DEF Save
    <2>. QED  BY <1>4, <2>1, <2>2, <2>3
  <1>5. PlainInfer => mode' = mode  BY DEF PlainInfer
  <1>6. RankDies => mode' = mode  BY DEF RankDies
  <1>7. RankStarts => mode' = mode  BY DEF RankStarts
  <1>8. UNCHANGED vars => mode' = mode  BY DEF vars
  <1>. QED  BY <1>1, <1>2, <1>3, <1>4, <1>5, <1>6, <1>7, <1>8 DEF Next, RankStep

LEMMA ContentStep ==
    ASSUME TableInv, Content, OneServer, OneThread, KeysApart, Steady(mode), ~mode.plain, [Next]_vars
    PROVE  Content'
  <1>1. CASE \E s \in Srv : WithKey(s)
    <2>1. PICK s \in Srv, k \in InUse(mode), full \in Prompts : Start(s, k, full)
      BY <1>1 DEF WithKey, InUse
    <2>. QED  BY <2>1, StartContent
  <1>2. CASE \E s \in Srv : WithoutKey(s)
    <2>1. PICK s \in Srv, k \in InUse(mode), full \in Prompts : Start(s, k, full)
      <3>1. \A s \in Srv, full \in Prompts : BestPrefix(s, full) \subseteq InUse(mode)
        BY DEF BestPrefix, Content, FileInv
      <3>2. mode.autoKey => AutoKey \subseteq InUse(mode)  BY DEF InUse
      <3>. QED  BY <1>2, <3>1, <3>2 DEF WithoutKey
    <2>. QED  BY <2>1, StartContent
  <1>3. CASE \E s \in Srv : SrvStep(s)
    BY <1>3, DoneContent, ResendContent, RefuseContent DEF SrvStep
  <1>4. CASE \E s \in Srv : Timeout(s)  BY <1>4, TimeoutContent
  <1>5. CASE \E s \in Srv : SrvDies(s)  BY <1>5, SrvDiesContent
  <1>6. CASE RankStep  BY <1>6, BeginContent, RunContent, SaveContent DEF RankStep
  <1>7. CASE PlainInfer  BY <1>7 DEF PlainInfer
  <1>8. CASE RankDies  BY <1>8, RankDiesContent
  <1>9. CASE RankStarts \/ UNCHANGED vars
    <2>1. UNCHANGED <<sess, req, sessFile, kvFile, mode, jobs, wk, cache_key, kv>>
      BY <1>9 DEF RankStarts, vars, server, files, engine
    <2>2. FileInv'  BY <2>1 DEF Content, FileInv, InUse, Known, Toks, Pos
    <2>3. RequestInv'  BY <2>1 DEF Content, RequestInv, InUse, Known, Toks, Pos
    <2>4. LastInv'  BY <2>1 DEF Content, LastInv, Of
    <2>5. WorkInv'  BY <2>1 DEF Content, WorkInv, Sound, Basis, Busy
    <2>6. OrderInv'
      BY <2>1, SameSession DEF Content, OrderInv, Covers, Before, Basis, Busy
    <2>7. AlignInv'
      <3>1. ASSUME NEW t \in Srv, NEW i \in ClientKeys, Known(t, i)'
            PROVE  Aligned(RankKey[i], Toks(t, i))'
        BY <2>1, <3>1 DEF Content, AlignInv, Aligned, Known, Toks, Pos
      <3>2. ASSUME NEW m \in 1 .. Len(jobs') PROVE Aligned(jobs[m].key, Basis(jobs[m]))'
        BY <2>1, <3>2 DEF Content, AlignInv, Aligned, Basis
      <3>3. \A t \in Srv : req'[t].st = "done" =>
               /\ jobs' = <<>> /\ \A w \in Worker : ~Busy(w)'
               /\ Aligned(RankKey[req[t].key], req[t].full \o req[t].gen \o <<Eos>>)'
        BY <2>1 DEF Content, AlignInv, Aligned, Busy
      <3>. QED  BY <3>1, <3>2, <3>3 DEF AlignInv
    <2>. QED  BY <2>2, <2>3, <2>4, <2>5, <2>6, <2>7 DEF Content
  <1>. QED  BY <1>1, <1>2, <1>3, <1>4, <1>5, <1>6, <1>7, <1>8, <1>9 DEF Next

LEMMA TogetherStep ==
    ASSUME Together
    PROVE  /\ Init => TableInv /\ (mode.plain \/ Content)
           /\ TableInv /\ (mode.plain \/ Content) /\ [Next]_vars =>
                 TableInv' /\ (mode.plain \/ Content)'
  <1>1. Init => TableInv /\ (mode.plain \/ Content)  BY TableInit, ContentInit
  <1>2. ASSUME TableInv, mode.plain \/ Content, [Next]_vars
        PROVE  TableInv' /\ (mode.plain \/ Content)'
    <2>1. TableInv' /\ mode' = mode  BY <1>2, TableStep, SameMode
    <2>2. CASE mode.plain  BY <2>1, <2>2
    <2>3. CASE ~mode.plain
      <3>1. OneServer /\ OneThread /\ KeysApart /\ Steady(mode) /\ Content
        BY <1>2, <2>3 DEF Together, TableInv, TypeInv
      <3>. QED  BY <1>2, <2>1, <2>3, <3>1, ContentStep
    <2>. QED  BY <2>2, <2>3
  <1>. QED  BY <1>1, <1>2

\* The comparison element by element is the one of the property.
LEMMA AgreesAgree ==
    ASSUME NEW u \in Seq(Token), NEW v \in Seq(Token), Agrees(u, v)
    PROVE  Agree(u, v)
  <1>. DEFINE n == Least(Len(u), Len(v))
              a == Take(u, n)
              b == Take(v, n)
  <1>1. n \in 0 .. Len(u) /\ n \in 0 .. Len(v)  BY DEF Least
  <1>2. a \in Seq(Token) /\ Len(a) = n /\ \A i \in 1 .. n : a[i] = u[i]
    BY <1>1, TakeProperties
  <1>3. b \in Seq(Token) /\ Len(b) = n /\ \A i \in 1 .. n : b[i] = v[i]
    BY <1>1, TakeProperties
  <1>4. \A i \in 1 .. n : u[i] = v[i]  BY <1>1 DEF Agrees
  <1>5. a = b
    <2>. HIDE DEF n, a, b
    <2>. QED  BY <1>2, <1>3, <1>4, SeqEqual
  <1>. QED  BY <1>5 DEF Agree

\* The model answers what the client asked (handle_infer_cache, "KV of the old
\* tokens is in this engine's cache"): with one server and one work thread, in
\* every deployment where clients do not ask again for a prompt that is cached
\* completely and, if there are session files, the server neither dies nor gives
\* up a session, an inference starts from exactly the prompt, whatever was kept,
\* reloaded, cut back or sent again, and whenever the rank died.
THEOREM SessionsAnswerThePrompt == Together /\ Spec => []SessionAnswers
  <1>1. TableInv /\ (mode.plain \/ Content) => SessionAnswers
    BY DEF Content, WorkInv, SessionAnswers, AnswersThePrompt
  <1>2. Together => (Init => TableInv /\ (mode.plain \/ Content))  BY TogetherStep
  <1>3. Together => (TableInv /\ (mode.plain \/ Content) /\ [Next]_vars =>
                        TableInv' /\ (mode.plain \/ Content)')
    BY TogetherStep
  <1>. SUFFICES ASSUME Together PROVE Spec => []SessionAnswers  OBVIOUS
  <1>. QED  BY <1>1, <1>2, <1>3, PTL DEF Spec

\* What the server remembers of a session is what the rank has cached of it, in
\* its memory and in the session's file (forward_infer_sess against
\* handle_infer_cache), under the same conditions.
THEOREM SessionsAligned == Together /\ Spec => []KVAligned
  <1>1. ASSUME TableInv, mode.plain \/ Content PROVE KVAligned
    <2>. SUFFICES ASSUME ~mode.plain, NEW s \in Srv, NEW i \in 1 .. Len(sess[s])
                  PROVE  LET k == sess[s][i][1] IN
                         /\ cache_key = RankKey[k] => Agree(sess[s][i][2], kv)
                         /\ IsFile(kvFile[KvName(k)]) => Agree(sess[s][i][2], kvFile[KvName(k)])
      BY DEF KVAligned
    <2>1. PICK k \in Keys, u \in Seq(Token) :
             k = sess[s][i][1] /\ u = sess[s][i][2] /\ Known(s, k) /\ Toks(s, k) = u
      BY <1>1, EntryKnown, KnownEntry DEF TableInv
    <2>2. k \in ClientKeys  BY <1>1, <2>1, KeySets DEF Content, FileInv
    <2>3. Aligned(RankKey[k], u)  BY <1>1, <2>1, <2>2 DEF Content, AlignInv
    <2>4. /\ KvName(k) = FileName[RankKey[k]] /\ kv \in Seq(Token)
          /\ IsFile(kvFile[KvName(k)]) => kvFile[KvName(k)] \in Seq(Token)
      BY <1>1, Names DEF TableInv, TypeInv, File, IsFile
    <2>5. cache_key = RankKey[k] => Agree(u, kv)  BY <2>3, <2>4, AgreesAgree DEF Aligned
    <2>6. IsFile(kvFile[KvName(k)]) => Agree(u, kvFile[KvName(k)])
      BY <2>3, <2>4, AgreesAgree DEF Aligned
    <2>. QED  BY <2>1, <2>5, <2>6
  <1>2. Together => (Init => TableInv /\ (mode.plain \/ Content))  BY TogetherStep
  <1>3. Together => (TableInv /\ (mode.plain \/ Content) /\ [Next]_vars =>
                        TableInv' /\ (mode.plain \/ Content)')
    BY TogetherStep
  <1>. SUFFICES ASSUME Together PROVE Spec => []KVAligned  OBVIOUS
  <1>. QED  BY <1>1, <1>2, <1>3, PTL DEF Spec
=============================================================================
