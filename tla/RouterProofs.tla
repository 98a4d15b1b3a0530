---------------------------- MODULE RouterProofs ----------------------------
(***************************************************************************)
(* Proofs about Router for any number of servers and request threads, both *)
(* strategies, any table size, queue limit and number of notifications.    *)
(***************************************************************************)
EXTENDS Router, FiniteSetTheorems, TLAPS

N == Cardinality(Req)

\* The threads whose increment of server s has happened and whose decrement has not.
Counted(s) == {q \in Req : req[q].srv = s /\ req[q].pc \in {"run", "uncount"}}

\* What the count of a server is off by, seen from the figure reported last: it
\* moves only when a report arrives.
Drift(s) == entry[s].inflight - entry[s].reported - Cardinality(Counted(s))

\* A load as the supervisor reports it.
Figures == [state : {"ready", "busy", "dead"}, inflight : Int, waiting : Nat]

\* An entry of servers[], as far as the count is concerned.
Entry == [state : {"ready", "busy", "dead"}, inflight : Int, waiting : Nat, reported : Int]

\* The fields the count is made of.
ShapeOK ==
    /\ entry \in [Srv -> Entry]
    /\ DOMAIN req = Req
    /\ \A q \in Req : DOMAIN req[q] = {"pc", "http", "model", "srv", "tries"}
    /\ sv \in [Srv -> Figures \cup {None}]
    /\ \A n \in notes : n.cmd = "UPDATE" => n.inflight \in Int /\ n.waiting \in Nat
    /\ \A f \in snap : f.info \in Figures

DriftInv == \A s \in Srv : Drift(s) \in (-N) .. 0

IInv == ShapeOK /\ DriftInv

\* A step leaves the count of a server alone, or makes it the figure reported.
Same(s) == entry'[s].inflight = entry[s].inflight /\ entry'[s].reported = entry[s].reported
Fresh(s) == entry'[s].inflight \in Int /\ entry'[s].reported = entry'[s].inflight

USE RouterAssumption
USE DEF router, supervisor, Same, Fresh

\* There are finitely many request threads.
LEMMA CountedBound ==
    N \in Nat /\ \A S \in SUBSET Req : Cardinality(S) \in 0 .. N
<1>1. N \in Nat
  BY FS_CardinalityType DEF N
<1>2. ASSUME NEW S \in SUBSET Req PROVE Cardinality(S) \in 0 .. N
  <2>1. IsFiniteSet(S) /\ Cardinality(S) <= N
    BY FS_Subset DEF N
  <2>2. QED
    BY <1>1, <2>1, FS_CardinalityType
<1>3. QED
  BY <1>1, <1>2

\* Nothing is counted at the start.
LEMMA DriftInit == Init => IInv
<1> SUFFICES ASSUME Init PROVE IInv
  OBVIOUS
<1>1. ShapeOK
  <2>1. sv \in [Srv -> Figures \cup {None}]
    BY CountedBound DEF Init, Figures
  <2>2. DOMAIN req = Req /\ \A q \in Req : DOMAIN req[q] = {"pc", "http", "model", "srv", "tries"}
    BY DEF Init, Idle
  <2>3. QED
    BY <2>1, <2>2 DEF Init, ShapeOK, NoEntry, Entry
<1>2. \A s \in Srv : Counted(s) = {} /\ entry[s].inflight = 0 /\ entry[s].reported = 0
  BY DEF Init, Counted, Idle, NoEntry
<1>3. QED
  BY <1>1, <1>2, CountedBound, FS_EmptySet DEF IInv, DriftInv, Drift

\* The counts stay within their bound when the load of some servers is replaced
\* by a reported one and no thread passes Count or Uncount.
LEMMA ReportedDrift ==
    ASSUME IInv,
           \A s \in Srv : Same(s) \/ Fresh(s),
           \A s \in Srv : Counted(s)' = Counted(s)
    PROVE  DriftInv'
<1> SUFFICES ASSUME NEW s \in Srv PROVE Drift(s)' \in (-N) .. 0
  BY DEF DriftInv
<1>1. Cardinality(Counted(s)) \in 0 .. N
  BY CountedBound DEF Counted
<1>2. Drift(s) \in (-N) .. 0 /\ entry[s].inflight \in Int /\ entry[s].reported \in Int
  BY DEF IInv, DriftInv, ShapeOK, Entry
<1>3. QED
  BY <1>1, <1>2, CountedBound DEF Drift

\* A thread goes on without passing Count or Uncount.
LEMMA ThreadMoves ==
    ASSUME IInv, NEW q \in Req, NEW r, DOMAIN r = {"pc", "http", "model", "srv", "tries"},
           req' = [req EXCEPT ![q] = r], UNCHANGED <<entry, notes, snap, sv>>,
           (r.pc \in {"run", "uncount"}) <=> (req[q].pc \in {"run", "uncount"}),
           r.pc \in {"run", "uncount"} => r.srv = req[q].srv
    PROVE  IInv'
<1>1. ShapeOK'
  BY DEF IInv, ShapeOK
<1>2. \A s \in Srv : Counted(s)' = Counted(s)
  BY DEF IInv, ShapeOK, Counted
<1>3. QED
  BY <1>1, <1>2, ReportedDrift DEF IInv

\* The steps of a request thread that are not about the count.
LEMMA RequestKeeps ==
    ASSUME IInv, NEW q \in Req,
           \/ \E m \in Models, h \in BOOLEAN : Start(q, m, h)
           \/ Pick(q) \/ PickNone(q) \/ Known(q) \/ Connect(q) \/ Answered(q)
    PROVE  IInv'
<1> DEFINE Fields == {"pc", "http", "model", "srv", "tries"}
           Free(r) == DOMAIN r = Fields /\ r.pc \notin {"run", "uncount"}
<1>0. /\ DOMAIN req = Req /\ DOMAIN req[q] = Fields
      /\ DOMAIN Idle = Fields /\ Idle.pc = "idle"
  BY DEF IInv, ShapeOK, Idle
<1>1. ASSUME NEW r, Free(r), req[q].pc \notin {"run", "uncount"},
             req' = [req EXCEPT ![q] = r], UNCHANGED <<entry, notes, snap, sv>>
      PROVE  IInv'
  BY <1>1, ThreadMoves
<1>2. ASSUME NEW l \in {"pick", "known", "poll", "connect", "count"}
      PROVE  Free([req[q] EXCEPT !.pc = l])
  BY <1>0
<1>3. CASE \E m \in Models, h \in BOOLEAN : Start(q, m, h)
  <2>1. PICK m \in Models, h \in BOOLEAN : Start(q, m, h)
    BY <1>3
  <2> DEFINE r == [Idle EXCEPT !.pc = "pick", !.http = h, !.model = m]
  <2>2. Free(r)
    BY DEF Idle
  <2>3. req' = [req EXCEPT ![q] = r] /\ req[q].pc = "idle" /\ UNCHANGED <<entry, notes, snap, sv>>
    BY <2>1 DEF Start
  <2>4. QED
    BY <1>1, <2>2, <2>3
<1>4. CASE Pick(q)
  <2>1. PICK x : req' = [req EXCEPT ![q].pc = "connect", ![q].srv = x]
    BY <1>4 DEF Pick
  <2> DEFINE r == [req[q] EXCEPT !.pc = "connect", !.srv = x]
  <2>2. Free(r) /\ req' = [req EXCEPT ![q] = r]
    BY <1>0, <2>1
  <2>3. req[q].pc \in {"pick", "poll"} /\ UNCHANGED <<entry, notes, snap, sv>>
    BY <1>4 DEF Pick
  <2>4. QED
    BY <1>1, <2>2, <2>3
<1>5. CASE PickNone(q)
  <2>1. req[q].pc \in {"pick", "poll"} /\ UNCHANGED <<entry, notes, snap, sv>>
    BY <1>5 DEF PickNone
  <2>2. \/ req' = [req EXCEPT ![q] = Idle]
        \/ req' = [req EXCEPT ![q] = [req[q] EXCEPT !.pc = "known"]]
        \/ req' = [req EXCEPT ![q] = [req[q] EXCEPT !.tries = @ + 1]]
    BY <1>5 DEF PickNone, End, Goto
  <2>3. Free([req[q] EXCEPT !.tries = req[q].tries + 1])
    BY <1>0, <2>1
  <2>4. QED
    BY <1>0, <1>1, <1>2, <2>1, <2>2, <2>3
<1>6. CASE Known(q)
  <2>1. req[q].pc = "known" /\ UNCHANGED <<entry, notes, snap, sv>>
    BY <1>6 DEF Known
  <2>2. \/ req' = [req EXCEPT ![q] = Idle]
        \/ req' = [req EXCEPT ![q] = [req[q] EXCEPT !.pc = "poll", !.tries = 1]]
    BY <1>6 DEF Known, End
  <2>3. Free([req[q] EXCEPT !.pc = "poll", !.tries = 1])
    BY <1>0
  <2>4. QED
    BY <1>0, <1>1, <2>1, <2>2, <2>3
<1>7. CASE Connect(q)
  <2>1. req[q].pc = "connect" /\ UNCHANGED <<entry, notes, snap, sv>>
    BY <1>7 DEF Connect
  <2>2. \/ req' = [req EXCEPT ![q] = Idle]
        \/ req' = [req EXCEPT ![q] = [req[q] EXCEPT !.pc = "count"]]
    BY <1>7 DEF Connect, End, Goto
  <2>3. QED
    BY <1>0, <1>1, <1>2, <2>1, <2>2
<1>8. CASE Answered(q)
  <2> DEFINE r == [req[q] EXCEPT !.pc = "uncount"]
  <2>1. req[q].pc = "run" /\ req' = [req EXCEPT ![q] = r] /\ UNCHANGED <<entry, notes, snap, sv>>
    BY <1>8 DEF Answered, Goto
  <2>2. DOMAIN r = Fields /\ r.pc = "uncount" /\ r.srv = req[q].srv
    BY <1>0
  <2> HIDE DEF r
  <2>3. QED
    BY <2>1, <2>2, ThreadMoves
<1>9. QED
  BY <1>3, <1>4, <1>5, <1>6, <1>7, <1>8

\* The count of the server goes up with the thread that counts itself in.
LEMMA CountKeeps == ASSUME IInv, NEW q \in Req, Count(q) PROVE IInv'
<1>1. /\ req[q].pc = "count" /\ UNCHANGED <<notes, snap, sv>>
      /\ req' = [req EXCEPT ![q] = [req[q] EXCEPT !.pc = "run"]]
      /\ entry' = [entry EXCEPT ![req[q].srv].inflight = @ + 1]
  BY DEF Count, Goto
<1>2. \A s \in Srv : /\ entry'[s].inflight = IF s = req[q].srv THEN entry[s].inflight + 1
                                                              ELSE entry[s].inflight
                     /\ entry'[s].reported = entry[s].reported
  BY <1>1 DEF IInv, ShapeOK
<1>3. ShapeOK'
  <2>1. entry' \in [Srv -> Entry]
    <3>1. CASE req[q].srv \in Srv
      BY <1>1, <3>1 DEF IInv, ShapeOK, Entry
    <3>2. CASE req[q].srv \notin Srv
      <4>1. entry' = entry
        BY <1>1, <3>2 DEF IInv, ShapeOK
      <4>2. QED
        BY <4>1 DEF IInv, ShapeOK
    <3>3. QED
      BY <3>1, <3>2
  <2>2. DOMAIN req' = Req /\ \A p \in Req : DOMAIN req'[p] = {"pc", "http", "model", "srv", "tries"}
    BY <1>1 DEF IInv, ShapeOK
  <2>3. QED
    BY <1>1, <2>1, <2>2 DEF IInv, ShapeOK
<1>4. ASSUME NEW s \in Srv PROVE Drift(s)' \in (-N) .. 0
  <2>1. Drift(s) \in (-N) .. 0 /\ entry[s].inflight \in Int /\ entry[s].reported \in Int
    BY DEF IInv, DriftInv, ShapeOK, Entry
  <2>2. IsFiniteSet(Counted(s)) /\ Cardinality(Counted(s)) \in 0 .. N
    BY FS_Subset, CountedBound DEF Counted
  <2>3. CASE s = req[q].srv
    <3>1. Counted(s)' = Counted(s) \cup {q} /\ q \notin Counted(s)
      BY <1>1, <2>3 DEF IInv, ShapeOK, Counted
    <3>2. Cardinality(Counted(s)') = Cardinality(Counted(s)) + 1
      BY <2>2, <3>1, FS_AddElement
    <3>3. QED
      BY <1>2, <2>1, <2>2, <2>3, <3>2 DEF Drift
  <2>4. CASE s # req[q].srv
    <3>1. Counted(s)' = Counted(s)
      BY <1>1, <2>4 DEF IInv, ShapeOK, Counted
    <3>2. QED
      BY <1>2, <2>1, <2>4, <3>1 DEF Drift
  <2>5. QED
    BY <2>3, <2>4
<1>5. QED
  BY <1>3, <1>4 DEF IInv, DriftInv

\* It goes down with the thread that counts itself out.
LEMMA UncountKeeps == ASSUME IInv, NEW q \in Req, Uncount(q) PROVE IInv'
<1>1. /\ req[q].pc = "uncount" /\ UNCHANGED <<notes, snap, sv>>
      /\ req' = [req EXCEPT ![q] = Idle]
      /\ entry' = [entry EXCEPT ![req[q].srv].inflight = @ - 1]
  BY DEF Uncount, End
<1>2. \A s \in Srv : /\ entry'[s].inflight = IF s = req[q].srv THEN entry[s].inflight - 1
                                                              ELSE entry[s].inflight
                     /\ entry'[s].reported = entry[s].reported
  BY <1>1 DEF IInv, ShapeOK
<1>3. ShapeOK'
  <2>1. entry' \in [Srv -> Entry]
    <3>1. CASE req[q].srv \in Srv
      BY <1>1, <3>1 DEF IInv, ShapeOK, Entry
    <3>2. CASE req[q].srv \notin Srv
      <4>1. entry' = entry
        BY <1>1, <3>2 DEF IInv, ShapeOK
      <4>2. QED
        BY <4>1 DEF IInv, ShapeOK
    <3>3. QED
      BY <3>1, <3>2
  <2>2. DOMAIN req' = Req /\ \A p \in Req : DOMAIN req'[p] = {"pc", "http", "model", "srv", "tries"}
    BY <1>1 DEF IInv, ShapeOK, Idle
  <2>3. QED
    BY <1>1, <2>1, <2>2 DEF IInv, ShapeOK
<1>4. ASSUME NEW s \in Srv PROVE Drift(s)' \in (-N) .. 0
  <2>1. Drift(s) \in (-N) .. 0 /\ entry[s].inflight \in Int /\ entry[s].reported \in Int
    BY DEF IInv, DriftInv, ShapeOK, Entry
  <2>2. IsFiniteSet(Counted(s)) /\ Cardinality(Counted(s)) \in 0 .. N
    BY FS_Subset, CountedBound DEF Counted
  <2>3. CASE s = req[q].srv
    <3>1. Counted(s)' = Counted(s) \ {q} /\ q \in Counted(s)
      BY <1>1, <2>3 DEF IInv, ShapeOK, Counted, Idle
    <3>2. Cardinality(Counted(s)') = Cardinality(Counted(s)) - 1
      BY <2>2, <3>1, FS_RemoveElement
    <3>3. QED
      BY <1>2, <2>1, <2>2, <2>3, <3>2 DEF Drift
  <2>4. CASE s # req[q].srv
    <3>1. Counted(s)' = Counted(s)
      BY <1>1, <2>4 DEF IInv, ShapeOK, Counted, Idle
    <3>2. QED
      BY <1>2, <2>1, <2>4, <3>1 DEF Drift
  <2>5. QED
    BY <2>3, <2>4
<1>5. QED
  BY <1>3, <1>4 DEF IInv, DriftInv

\* A new entry counts from 0, and a known one that is ready again keeps its count.
LEMMA AddKeeps ==
    ASSUME IInv, NEW x, NEW t, Add(x, t), UNCHANGED <<req, sv>>,
           notes' \subseteq notes, snap' \subseteq snap
    PROVE  IInv'
<1>1. /\ entry' \in [Srv -> Entry]
      /\ \A s \in Srv : Same(s) \/ Fresh(s)
  <2> DEFINE fresh == [NoEntry EXCEPT !.state = "ready"]
  <2>1. fresh \in Entry /\ fresh.inflight = 0 /\ fresh.reported = 0
    BY DEF NoEntry, Entry
  <2>2. \/ entry' = [entry EXCEPT ![x].state = "ready"]
        \/ entry' = entry
        \/ entry' = [entry EXCEPT ![x] = fresh]
    BY DEF Add
  <2> HIDE DEF fresh
  <2>3. QED
    BY <2>1, <2>2, CountedBound DEF IInv, ShapeOK, Entry
<1>2. ShapeOK'
  BY <1>1 DEF IInv, ShapeOK
<1>3. \A s \in Srv : Counted(s)' = Counted(s)
  BY DEF Counted
<1>4. QED
  BY <1>1, <1>2, <1>3, ReportedDrift DEF IInv

\* What a report makes of an entry.
LEMMA ReportEntry ==
    ASSUME NEW e \in Entry, NEW i \in Int, NEW w \in Nat
    PROVE  /\ Report(e, i, w) \in Entry
           /\ Report(e, i, w).inflight = i /\ Report(e, i, w).reported = i
<1>1. [e EXCEPT !.inflight = i, !.waiting = w, !.reported = i] \in Entry
  BY DEF Entry
<1>2. /\ [e EXCEPT !.inflight = i, !.waiting = w, !.reported = i].inflight = i
      /\ [e EXCEPT !.inflight = i, !.waiting = w, !.reported = i].reported = i
  BY DEF Entry
<1>3. QED
  BY <1>1, <1>2 DEF Report

\* A report replaces the load of one entry by what the supervisor knows.
LEMMA ReportKeeps ==
    ASSUME IInv, NEW x, NEW e \in Entry, NEW i \in Int, NEW w \in Nat,
           entry' = [entry EXCEPT ![x] = Report(e, i, w)],
           UNCHANGED <<req, sv>>, notes' \subseteq notes, snap' \subseteq snap
    PROVE  IInv'
<1>1. /\ entry' \in [Srv -> Entry]
      /\ \A s \in Srv : Same(s) \/ Fresh(s)
  <2> DEFINE r == Report(e, i, w)
  <2>1. r \in Entry /\ r.inflight = i /\ r.reported = i
    BY ReportEntry
  <2>2. entry' = [entry EXCEPT ![x] = r]
    OBVIOUS
  <2> HIDE DEF r
  <2>3. QED
    BY <2>1, <2>2 DEF IInv, ShapeOK
<1>2. ShapeOK'
  BY <1>1 DEF IInv, ShapeOK
<1>3. \A s \in Srv : Counted(s)' = Counted(s)
  BY DEF Counted
<1>4. QED
  BY <1>1, <1>2, <1>3, ReportedDrift DEF IInv

\* A step that leaves the loads and the threads alone.
LEMMA LoadsKept ==
    ASSUME IInv, UNCHANGED req,
           entry' \in [Srv -> Entry],
           \A s \in Srv : Same(s),
           sv' \in [Srv -> Figures \cup {None}],
           \A n \in notes' : n.cmd = "UPDATE" => n.inflight \in Int /\ n.waiting \in Nat,
           \A f \in snap' : f.info \in Figures
    PROVE  IInv'
<1>1. ShapeOK'
  BY DEF IInv, ShapeOK
<1>2. \A s \in Srv : Counted(s)' = Counted(s)
  BY DEF Counted
<1>3. QED
  BY <1>1, <1>2, ReportedDrift DEF IInv

\* The supervisor's notifications, in any order (router_conn).
LEMMA HandleKeeps == ASSUME IInv, NEW n \in notes, Handle(n) PROVE IInv'
<1>1. CASE HandleAdd(n)
  BY <1>1, AddKeeps DEF HandleAdd
<1>2. CASE HandleDel(n)
  <2>1. /\ UNCHANGED <<req, snap, sv>> /\ notes' = notes \ {n}
        /\ entry' = IF Listed(n.srv) THEN [entry EXCEPT ![n.srv].state = "dead"] ELSE entry
    BY <1>2 DEF HandleDel
  <2>2. /\ entry' \in [Srv -> Entry]
        /\ \A s \in Srv : Same(s)
    <3>1. entry' = entry \/ entry' = [entry EXCEPT ![n.srv] = [entry[n.srv] EXCEPT !.state = "dead"]]
      BY <2>1
    <3>2. \A s \in Srv : /\ [entry[s] EXCEPT !.state = "dead"] \in Entry
                         /\ [entry[s] EXCEPT !.state = "dead"].inflight = entry[s].inflight
                         /\ [entry[s] EXCEPT !.state = "dead"].reported = entry[s].reported
      BY DEF IInv, ShapeOK, Entry
    <3>3. entry \in [Srv -> Entry]
      BY DEF IInv, ShapeOK
    <3>4. CASE n.srv \in Srv
      <4>1. PICK e \in Entry : e = [entry[n.srv] EXCEPT !.state = "dead"]
        BY <3>2, <3>4
      <4>2. entry' = entry \/ entry' = [entry EXCEPT ![n.srv] = e]
        BY <3>1, <4>1
      <4>3. e.inflight = entry[n.srv].inflight /\ e.reported = entry[n.srv].reported
        BY <3>2, <3>4, <4>1
      <4>4. QED
        BY <3>3, <4>1, <4>2, <4>3
    <3>5. CASE n.srv \notin Srv
      <4>1. entry' = entry
        BY <3>1, <3>3, <3>5
      <4>2. QED
        BY <3>3, <4>1
    <3>6. QED
      BY <3>4, <3>5
  <2>3. QED
    BY <2>1, <2>2, LoadsKept DEF IInv, ShapeOK
<1>3. CASE HandleUpdate(n)
  <2>1. /\ UNCHANGED <<req, snap, sv>> /\ notes' = notes \ {n}
        /\ n.inflight \in Int /\ n.waiting \in Nat
    BY <1>3 DEF HandleUpdate, IInv, ShapeOK
  <2>2. CASE Listed(n.srv) /\ n.srv \in Srv
    <3> DEFINE e == entry[n.srv]
    <3>1. e \in Entry
      BY <2>2 DEF IInv, ShapeOK
    <3>2. entry' = [entry EXCEPT ![n.srv] = Report(e, n.inflight, n.waiting)]
      BY <1>3, <2>2 DEF HandleUpdate
    <3> HIDE DEF e
    <3>3. QED
      BY <2>1, <3>1, <3>2, ReportKeeps
  <2>3. CASE ~(Listed(n.srv) /\ n.srv \in Srv)
    <3>1. entry' = entry
      BY <1>3, <2>3 DEF HandleUpdate, IInv, ShapeOK
    <3>2. QED
      BY <2>1, <3>1, LoadsKept DEF IInv, ShapeOK
  <2>4. QED
    BY <2>2, <2>3
<1>4. QED
  BY <1>1, <1>2, <1>3 DEF Handle

\* The snapshot of the supervisor's table (query_servers).
LEMMA SnapshotKeeps ==
    ASSUME IInv, Query \/ QueryCut \/ \E f \in snap : ReadInfo(f) PROVE IInv'
<1>1. CASE Query
  <2>1. \A f \in snap' : f.info \in Figures
    BY <1>1 DEF Query, IInv, ShapeOK
  <2>2. QED
    BY <1>1, <2>1, LoadsKept DEF Query, IInv, ShapeOK
<1>2. CASE QueryCut
  BY <1>2, LoadsKept DEF QueryCut, IInv, ShapeOK
<1>3. ASSUME NEW f \in snap, ReadInfo(f) PROVE IInv'
  <2>1. UNCHANGED <<req, notes, sv>> /\ snap' = snap \ {f} /\ f.info \in Figures
    BY <1>3 DEF ReadInfo, IInv, ShapeOK
  <2>2. f.info.state \in {"ready", "busy", "dead"} /\ f.info.inflight \in Int /\ f.info.waiting \in Nat
    BY <2>1 DEF Figures
  <2>3. CASE ~Listed(f.srv)
    BY <1>3, <2>1, <2>3, AddKeeps DEF ReadInfo
  <2>4. CASE Listed(f.srv) /\ f.srv \in Srv
    <3> DEFINE e == entry[f.srv]
               st == IF f.info.state = "busy" THEN e.state ELSE f.info.state
    <3>1. e \in Entry
      BY <2>4 DEF IInv, ShapeOK
    <3>2. entry' = [entry EXCEPT ![f.srv] = TakeOver(e, f.info)]
      BY <1>3, <2>4 DEF ReadInfo
    <3>3. st \in {"ready", "busy", "dead"}
      BY <2>2, <3>1 DEF Entry
    <3>4. TakeOver(e, f.info) = Report([e EXCEPT !.state = st], f.info.inflight, f.info.waiting)
      BY DEF TakeOver
    <3> HIDE DEF st, e
    <3>5. [e EXCEPT !.state = st] \in Entry
      BY <3>1, <3>3 DEF Entry
    <3>6. QED
      BY <2>1, <2>2, <3>2, <3>4, <3>5, ReportKeeps
  <2>5. CASE Listed(f.srv) /\ f.srv \notin Srv
    <3>1. entry' = entry
      BY <1>3, <2>5 DEF ReadInfo, IInv, ShapeOK
    <3>2. QED
      BY <2>1, <3>1, LoadsKept DEF IInv, ShapeOK
  <2>6. QED
    BY <2>3, <2>4, <2>5
<1>4. QED
  BY <1>1, <1>2, <1>3

\* The supervisor and the servers: a report may give any figure.
LEMMA SupervisorKeeps ==
    ASSUME IInv, NEW s \in Srv, Beat(s) \/ DeclareDead(s) \/ Process(s) PROVE IInv'
<1>1. CASE Beat(s)
  <2>1. PICK l \in Load :
           /\ sv' = [sv EXCEPT ![s] = l]
           /\ \/ Send([cmd |-> "UPDATE", srv |-> s, inflight |-> l.inflight, waiting |-> l.waiting])
              \/ Send([cmd |-> "ADD", srv |-> s])
              \/ notes' = notes
    BY <1>1 DEF Beat
  <2>2. l \in Figures /\ l.inflight \in Int /\ l.waiting \in Nat
    <3>1. Counts \subseteq Int /\ 0 .. MaxWaiting \subseteq Nat
      BY RouterAssumption DEF RouterAssumption
    <3>2. /\ l \in [state : {"ready", "busy"}, inflight : Counts, waiting : 0 .. MaxWaiting]
          /\ l.inflight \in Counts /\ l.waiting \in 0 .. MaxWaiting
      BY DEF Load
    <3>3. QED
      BY <3>1, <3>2 DEF Figures
  <2>3. sv' \in [Srv -> Figures \cup {None}]
    BY <2>1, <2>2 DEF IInv, ShapeOK
  <2>4. \A m \in notes' : m.cmd = "UPDATE" => m.inflight \in Int /\ m.waiting \in Nat
    BY <2>1, <2>2 DEF Send, IInv, ShapeOK
  <2>5. QED
    BY <1>1, <2>3, <2>4, LoadsKept DEF Beat, IInv, ShapeOK
<1>2. CASE DeclareDead(s)
  <2>1. sv' \in [Srv -> Figures \cup {None}]
    BY <1>2 DEF DeclareDead, IInv, ShapeOK, Figures
  <2>2. \A m \in notes' : m.cmd = "UPDATE" => m.inflight \in Int /\ m.waiting \in Nat
    BY <1>2 DEF DeclareDead, Send, IInv, ShapeOK
  <2>3. QED
    BY <1>2, <2>1, <2>2, LoadsKept DEF DeclareDead, IInv, ShapeOK
<1>3. CASE Process(s)
  BY <1>3, LoadsKept DEF Process, IInv, ShapeOK
<1>4. QED
  BY <1>1, <1>2, <1>3

\* Every step keeps every count within its bound.
LEMMA DriftStep == IInv /\ [Next]_vars => IInv'
<1> SUFFICES ASSUME IInv, [Next]_vars PROVE IInv'
  OBVIOUS
<1>1. CASE UNCHANGED vars
  BY <1>1, LoadsKept DEF vars, IInv, ShapeOK
<1>2. ASSUME NEW q \in Req, (\E m \in Models, h \in BOOLEAN : Start(q, m, h)) \/ ThreadStep(q)
      PROVE  IInv'
  BY <1>2, RequestKeeps, CountKeeps, UncountKeeps DEF ThreadStep
<1>3. QED
  BY <1>1, <1>2, HandleKeeps, SnapshotKeeps, SupervisorKeeps DEF Next

\* For any number of servers and requests, and whatever the servers report: the
\* count that least-inflight compares is within the number of request threads of the
\* figure reported last, in whatever order threads and reports of the supervisor
\* write it (router_infer, SERVER_UPDATE, query_servers).
THEOREM InflightDrift == Spec => []DriftBounded
<1>1. IInv => DriftBounded
  <2> SUFFICES ASSUME IInv, NEW s \in Srv
               PROVE  entry[s].inflight - entry[s].reported \in (-N) .. N
    BY DEF DriftBounded, N
  <2>1. Cardinality(Counted(s)) \in 0 .. N
    BY CountedBound DEF Counted
  <2>2. Drift(s) \in (-N) .. 0 /\ entry[s].inflight \in Int /\ entry[s].reported \in Int
    BY DEF IInv, DriftInv, ShapeOK, Entry
  <2>3. QED
    BY <2>1, <2>2, CountedBound DEF Drift
<1>2. QED
  BY <1>1, DriftInit, DriftStep, PTL DEF Spec
=============================================================================
