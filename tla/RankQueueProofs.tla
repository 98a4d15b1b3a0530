-------------------------- MODULE RankQueueProofs --------------------------
(***************************************************************************)
(* Proofs about RankQueue for any number of connections and work threads   *)
(* and any ring capacity.                                                  *)
(***************************************************************************)
EXTENDS RankQueue, FiniteSetTheorems, TLAPS

\* Slot i holds a job, said without the modulo.
InRing(i) == (q_head <= i /\ i < q_head + q_len) \/ i + Cap < q_head + q_len

\* The ring arithmetic of RingConsistent, without the modulo.
RingShape ==
    /\ q_tail = IF q_head + q_len < Cap THEN q_head + q_len
                                        ELSE q_head + q_len - Cap
    /\ \A i \in Slot : (jobs[i] # None) <=> InRing(i)

\* A thread has a connection in its hands exactly at these points.
HolderPc ==
    /\ (cur["io"] # None) <=> (pc["io"] \in {"payload", "enqueue"})
    /\ \A w \in Worker : (cur[w] # None) <=> (pc[w] \in {"beat1", "infer", "running"})
    /\ \A t \in Thread : (dfd[t] # None) <=> (pc[t] \in {"finsave", "finok"})

\* From the claim of a drain on, nothing is queued, running or on its way in.
DrainInv ==
    /\ draining => pc["io"] \notin {"payload", "enqueue"}
    /\ (drain_fd # None) => draining
    /\ (\E t \in Thread : dfd[t] # None) \/ (\E c \in Conn : answer[c] = "ok")
          => draining /\ q_len = 0 /\ in_flight = 0

IInv == TypeOK /\ RingShape /\ HolderPc /\ DrainInv /\ InFlightExact

\* The next slot is the one behind, or slot 0 behind the last (q_head, q_tail).
LEMMA NextSlotValue ==
    \A i \in Slot : NextSlot(i) = IF i + 1 = Cap THEN 0 ELSE i + 1
  BY RankQueueAssumption DEF Slot, NextSlot

USE RankQueueAssumption
USE DEF Goto, CloseWith, ring, flags, wire, net, Thread, All, Slot, Label, IoPc,
        FinishPc, WorkPc

\* All threads are at their start and the ring is empty.
LEMMA InitInv == Init => IInv
<1> SUFFICES ASSUME Init PROVE IInv
  OBVIOUS
<1>1. pc["io"] = "listen" /\ pc["hb"] = "sleep" /\ pc["main"] = "joinio"
  BY DEF Init
<1>2. \A w \in Worker : pc[w] \in {"peers", "loop", "exited"}
  BY DEF Init
<1>3. TypeOK
  <2>1. pc \in [All -> Label]
    BY DEF Init
  <2>2. draining \in BOOLEAN /\ quit \in BOOLEAN /\ io_stop \in BOOLEAN
    BY DEF Init
  <2>3. QED
    BY <1>1, <1>2, <2>1, <2>2 DEF TypeOK, Init
<1>4. RingShape
  BY DEF Init, RingShape, InRing
<1>5. HolderPc /\ DrainInv
  BY <1>1, <1>2 DEF HolderPc, DrainInv, Init
<1>6. InFlightExact
  <2>1. Busy = {}
    BY <1>2 DEF Busy
  <2>2. QED
    BY <2>1, FS_EmptySet DEF InFlightExact, Init
<1>7. QED
  BY <1>3, <1>4, <1>5, <1>6 DEF IInv

\* There are finitely many running jobs, so in_flight can count them.
LEMMA BusyFinite == IsFiniteSet(Busy)
  BY FS_Subset DEF Busy

\* A heartbeat is one of the states the supervisor knows.
LEMMA BeatType ==
    ASSUME TypeOK, Beat PROVE hbNet' \subseteq {"ready", "busy"}
<1>1. NodeState \in {"ready", "busy"}
  BY DEF NodeState
<1>2. QED
  BY <1>1 DEF Beat, TypeOK

\* What a step that touches neither the ring nor in_flight has to keep.
Keeps ==
    /\ TypeOK' /\ HolderPc' /\ DrainInv'
    /\ UNCHANGED ring /\ Busy' = Busy

\* A step that keeps the parts keeps the whole.
LEMMA KeepsInv == IInv /\ Keeps => IInv'
  BY DEF IInv, Keeps, RingShape, InRing, InFlightExact

\* The IO thread outside the ring: accepting, reading, refusing, exiting.
LEMMA IoKeeps ==
    ASSUME IInv,
           \/ IoListen
           \/ IoListenFail
           \/ IoTop
           \/ IoIdle
           \/ IoPayload
           \/ IoPayloadLost
           \/ IoBeat
           \/ IoExit
    PROVE  Keeps
<1>1. CASE IoListen
  BY <1>1 DEF IoListen, IInv, Keeps, TypeOK, HolderPc, DrainInv, Busy
<1>2. CASE IoListenFail
  BY <1>2 DEF IoListenFail, IInv, Keeps, TypeOK, HolderPc, DrainInv, Busy
<1>3. CASE IoTop
  BY <1>3 DEF IoTop, IInv, Keeps, TypeOK, HolderPc, DrainInv, Busy
<1>4. CASE IoIdle
  BY <1>4 DEF IoIdle, IInv, Keeps, TypeOK, HolderPc, DrainInv, Busy
<1>5. CASE IoPayload
  BY <1>5 DEF IoPayload, IInv, Keeps, TypeOK, HolderPc, DrainInv, Busy
<1>6. CASE IoPayloadLost
  BY <1>6 DEF IoPayloadLost, IInv, Keeps, TypeOK, HolderPc, DrainInv, Busy
<1>7. CASE IoBeat
  BY <1>7, BeatType DEF IoBeat, Beat, IInv, Keeps, TypeOK, HolderPc, DrainInv, Busy
<1>8. CASE IoExit
  BY <1>8 DEF IoExit, WakeAll, IInv, Keeps, TypeOK, HolderPc, DrainInv, Busy
<1>9. QED
  BY <1>1, <1>2, <1>3, <1>4, <1>5, <1>6, <1>7, <1>8

\* The IO thread takes a connection and sorts it by its command.
LEMMA AcceptKeeps ==
    ASSUME IInv, NEW c \in Conn,
           \/ IoOther(c)
           \/ IoDrain(c)
           \/ IoInfer(c)
    PROVE  Keeps
<1>1. CASE IoOther(c)
  BY <1>1 DEF IoOther, IoTake, IInv, Keeps, TypeOK, HolderPc, DrainInv, Busy
<1>2. CASE IoDrain(c)
  <2>1. draining' \in BOOLEAN /\ quit' \in BOOLEAN /\ io_stop' \in BOOLEAN
    BY <1>2 DEF IoDrain, IInv, TypeOK
  <2>2. TypeOK'
    <3>1. CASE drain_fd # None
      BY <1>2, <2>1, <3>1 DEF IoDrain, IoTake, IInv, TypeOK
    <3>2. CASE drain_fd = None
      BY <1>2, <2>1, <3>2 DEF IoDrain, IoTake, WakeAll, IInv, TypeOK
    <3>3. QED
      BY <3>1, <3>2
  <2>3. HolderPc' /\ Busy' = Busy /\ UNCHANGED ring
    BY <1>2 DEF IoDrain, IoTake, IInv, TypeOK, HolderPc, Busy
  <2>4. DrainInv'
    BY <1>2 DEF IoDrain, IoTake, IInv, TypeOK, DrainInv
  <2>5. QED
    BY <2>2, <2>3, <2>4 DEF Keeps
<1>3. CASE IoInfer(c)
  BY <1>3 DEF IoInfer, IoTake, RingFull, IInv, Keeps, TypeOK, HolderPc, DrainInv, Busy
<1>4. QED
  BY <1>1, <1>2, <1>3

\* A work thread outside the ring: waiting, inferring, answering, exiting.
LEMMA WorkKeeps ==
    ASSUME IInv, NEW w \in Worker,
           \/ WorkCheck(w)
           \/ WorkWait(w)
           \/ WorkWake(w)
           \/ SpuriousWake(w)
           \/ WorkExit(w)
           \/ WorkInfer(w)
           \/ WorkAnswer(w)
           \/ PipeRound(w)
           \/ PipeQuit(w)
           \/ PipeRoundEnd(w)
           \/ PipeLastSave(w)
    PROVE  Keeps
<1>1. CASE WorkCheck(w)
  BY <1>1 DEF WorkCheck, IInv, Keeps, TypeOK, HolderPc, DrainInv, Busy
<1>2. CASE WorkWait(w)
  BY <1>2 DEF WorkWait, IInv, Keeps, TypeOK, HolderPc, DrainInv, Busy
<1>3. CASE WorkWake(w)
  BY <1>3 DEF WorkWake, IInv, Keeps, TypeOK, HolderPc, DrainInv, Busy
<1>4. CASE SpuriousWake(w)
  BY <1>4 DEF SpuriousWake, IInv, Keeps, TypeOK, HolderPc, DrainInv, Busy
<1>5. CASE WorkExit(w)
  BY <1>5 DEF WorkExit, MayExit, IInv, Keeps, TypeOK, HolderPc, DrainInv, Busy
<1>6. CASE WorkInfer(w)
  BY <1>6 DEF WorkInfer, IInv, Keeps, TypeOK, HolderPc, DrainInv, Busy
<1>7. CASE WorkAnswer(w)
  BY <1>7 DEF WorkAnswer, IInv, Keeps, TypeOK, HolderPc, DrainInv, Busy
<1>8. CASE PipeRound(w)
  BY <1>8 DEF PipeRound, IInv, Keeps, TypeOK, HolderPc, DrainInv, Busy
<1>9. CASE PipeQuit(w)
  BY <1>9 DEF PipeQuit, PipeStops, IInv, Keeps, TypeOK, HolderPc, DrainInv, Busy
<1>10. CASE PipeRoundEnd(w)
  BY <1>10 DEF PipeRoundEnd, IInv, Keeps, TypeOK, HolderPc, DrainInv, Busy
<1>11. CASE PipeLastSave(w)
  BY <1>11 DEF PipeLastSave, IInv, Keeps, TypeOK, HolderPc, DrainInv, Busy
<1>12. QED
  BY <1>1, <1>2, <1>3, <1>4, <1>5, <1>6, <1>7, <1>8, <1>9, <1>10, <1>11

\* Any thread may finish a drain; only one claims it (rank_try_finish_drain).
LEMMA FinishKeeps ==
    ASSUME IInv, NEW t \in Thread,
           \/ FinishClaim(t)
           \/ FinishSave(t)
           \/ FinishReply(t)
           \/ FinishQuit(t)
    PROVE  Keeps
<1>1. CASE FinishClaim(t)
  BY <1>1 DEF FinishClaim, DrainReady, IInv, Keeps, TypeOK, HolderPc, DrainInv, Busy
<1>2. CASE FinishSave(t)
  BY <1>2 DEF FinishSave, IInv, Keeps, TypeOK, HolderPc, DrainInv, Busy
<1>3. CASE FinishReply(t)
  BY <1>3 DEF FinishReply, IInv, Keeps, TypeOK, HolderPc, DrainInv, Busy
<1>4. CASE FinishQuit(t)
  BY <1>4 DEF FinishQuit, IInv, Keeps, TypeOK, HolderPc, DrainInv, Busy
<1>5. QED
  BY <1>1, <1>2, <1>3, <1>4

\* The pipe, heartbeat and main threads touch neither ring nor counters.
LEMMA OtherKeeps ==
    ASSUME IInv,
           \/ HbStep
           \/ HbDeliver
           \/ MainJoinIo
           \/ MainBroadcast
           \/ MainExit
    PROVE  Keeps
<1>1. CASE HbStep
  <2>1. \E l \in {"exited", "sleep"} : pc' = [pc EXCEPT !["hb"] = l]
    BY <1>1 DEF HbStep, HbExit, HbBeat
  <2>2. UNCHANGED <<ring, flags, q_mu, waiting, engine_lock, cur, dfd, wire, svState, ret>>
    BY <1>1 DEF HbStep, HbExit, HbBeat
  <2>3. hbNet' \subseteq {"ready", "busy"}
    BY <1>1, BeatType DEF HbStep, HbExit, HbBeat, IInv, TypeOK
  <2>4. QED
    BY <2>1, <2>2, <2>3 DEF IInv, Keeps, TypeOK, HolderPc, DrainInv, Busy
<1>2. CASE HbDeliver
  BY <1>2 DEF HbDeliver, rankVars, IInv, Keeps, TypeOK, HolderPc, DrainInv, Busy
<1>3. CASE MainJoinIo
  BY <1>3 DEF MainJoinIo, IInv, Keeps, TypeOK, HolderPc, DrainInv, Busy
<1>4. CASE MainBroadcast
  BY <1>4 DEF MainBroadcast, WakeAll, IInv, Keeps, TypeOK, HolderPc, DrainInv, Busy
<1>5. CASE MainExit
  BY <1>5 DEF MainExit, IInv, Keeps, TypeOK, HolderPc, DrainInv, Busy
<1>6. QED
  BY <1>1, <1>2, <1>3, <1>4, <1>5

\* The heartbeats the work and the IO thread send change the pool view only.
LEMMA BeatKeeps ==
    ASSUME IInv, NEW w \in Worker,
           \/ WorkBeat(w, "beat1", "infer")
           \/ WorkBeat(w, "beat2", "finish")
    PROVE  Keeps
  BY BeatType DEF WorkBeat, IInv, Keeps, TypeOK, HolderPc, DrainInv, Busy

\* The IO thread puts a job into the ring (q_tail, q_len).
LEMMA EnqueueInv == IInv /\ IoEnqueue => IInv'
<1> SUFFICES ASSUME IInv, IoEnqueue PROVE IInv'
  OBVIOUS
<1> USE DEF IInv
<1>1. TypeOK'
  <2>1. CASE draining \/ RingFull
    BY <2>1 DEF IoEnqueue, TypeOK, HolderPc
  <2>2. CASE ~(draining \/ RingFull)
    <3>1. q_tail' \in Slot /\ q_len' \in 0 .. Cap
      BY <2>2, NextSlotValue DEF IoEnqueue, RingFull, TypeOK
    <3>2. waiting' \subseteq Worker
      BY <2>2 DEF IoEnqueue, Signal, TypeOK
    <3>3. jobs' \in [Slot -> Conn \cup {None}] /\ cur' \in [Thread -> Conn \cup {None}]
      <4>1. /\ jobs' = [jobs EXCEPT ![q_tail] = cur["io"]]
            /\ cur' = [cur EXCEPT !["io"] = None]
        BY <2>2 DEF IoEnqueue
      <4>2. cur["io"] \in Conn \cup {None}
        BY DEF TypeOK
      <4>3. QED
        BY <4>1, <4>2 DEF TypeOK
    <3>4. /\ pc' \in [All -> Label]
          /\ pc'["io"] \in IoPc \cup FinishPc
          /\ \A w \in Worker : pc'[w] \in WorkPc \cup FinishPc
      BY <2>2, RankQueueAssumption DEF IoEnqueue, Goto, TypeOK, All, Thread, Label, IoPc
    <3>5. UNCHANGED <<in_flight, q_head, flags, q_mu, engine_lock, dfd, wire, net, ret>>
      BY <2>2 DEF IoEnqueue, wire
    <3>6. QED
      BY <3>1, <3>2, <3>3, <3>4, <3>5 DEF TypeOK, flags, wire, net
  <2>3. QED
    BY <2>1, <2>2
<1>2. RingShape'
  <2>1. CASE UNCHANGED ring
    BY <2>1 DEF RingShape, InRing
  <2>2. CASE ~UNCHANGED ring
    <3>1. /\ jobs' = [jobs EXCEPT ![q_tail] = cur["io"]]
          /\ q_tail' = NextSlot(q_tail) /\ q_len' = q_len + 1
          /\ q_head' = q_head /\ q_len < Cap /\ cur["io"] # None
      BY <2>2 DEF IoEnqueue, RingFull, TypeOK, HolderPc
    <3>2. q_tail' = IF q_tail + 1 = Cap THEN 0 ELSE q_tail + 1
      BY <3>1, NextSlotValue DEF TypeOK
    <3>3. \A i \in Slot : InRing(i)' <=> (InRing(i) \/ i = q_tail)
      BY <3>1 DEF InRing, RingShape, TypeOK
    <3>4. QED
      BY <3>1, <3>2, <3>3 DEF RingShape, TypeOK
  <2>3. QED
    BY <2>1, <2>2
<1>3. HolderPc' /\ DrainInv'
  BY DEF IoEnqueue, TypeOK, HolderPc, DrainInv
<1>4. Busy' = Busy /\ in_flight' = in_flight
  BY DEF IoEnqueue, TypeOK, Busy
<1>5. QED
  BY <1>1, <1>2, <1>3, <1>4 DEF InFlightExact

\* A work thread takes the job at q_head and counts it in in_flight.
LEMMA TakeInv == ASSUME IInv, NEW w \in Worker, WorkTake(w) PROVE IInv'
<1> USE DEF IInv
<1>1. jobs[q_head] # None /\ q_head \in Slot
  BY DEF WorkTake, RingShape, InRing, TypeOK
<1>2. q_head' = IF q_head + 1 = Cap THEN 0 ELSE q_head + 1
  BY <1>1, NextSlotValue DEF WorkTake
<1>3. TypeOK' /\ HolderPc' /\ DrainInv'
  BY <1>1, <1>2 DEF WorkTake, ClearSlot, TypeOK, HolderPc, DrainInv
<1>4. RingShape'
  <2>1. \A i \in Slot : InRing(i)' <=> (InRing(i) /\ i # q_head)
    BY <1>2 DEF WorkTake, InRing, TypeOK
  <2>2. \A i \in Slot : jobs'[i] = IF i = q_head THEN None ELSE jobs[i]
    BY DEF WorkTake, ClearSlot, TypeOK
  <2>3. q_tail' = IF q_head' + q_len' < Cap THEN q_head' + q_len'
                                            ELSE q_head' + q_len' - Cap
    BY <1>2 DEF WorkTake, RingShape, TypeOK
  <2>4. QED
    BY <2>1, <2>2, <2>3 DEF RingShape
<1>5. Busy' = Busy \cup {w} /\ w \notin Busy
  BY DEF WorkTake, TypeOK, Busy
<1>6. InFlightExact'
  BY <1>5, BusyFinite, FS_AddElement DEF WorkTake, InFlightExact
<1>7. QED
  BY <1>3, <1>4, <1>6

\* A work thread has answered its job and counts it out again.
LEMMA DoneInv == ASSUME IInv, NEW w \in Worker, WorkDone(w) PROVE IInv'
<1> USE DEF IInv, WorkDone, WakeAll, FinishedCount
<1>1. Busy' = Busy \ {w} /\ w \in Busy
  BY DEF TypeOK, Busy
<1>2. in_flight # 0
  BY <1>1, BusyFinite, FS_EmptySet DEF InFlightExact
<1>3. TypeOK' /\ HolderPc' /\ DrainInv'
  BY <1>2 DEF TypeOK, HolderPc, DrainInv
<1>4. RingShape'
  BY DEF RingShape, InRing
<1>5. InFlightExact'
  BY <1>1, BusyFinite, FS_RemoveElement DEF InFlightExact
<1>6. QED
  BY <1>3, <1>4, <1>5

\* Every step of the process keeps the invariant.
LEMMA NextInv == IInv /\ [Next]_vars => IInv'
<1> SUFFICES ASSUME IInv, [Next]_vars PROVE IInv'
  OBVIOUS
<1>1. CASE IoStep \/ IoAccept \/ IoListenFail \/ IoPayloadLost
  BY <1>1, IoKeeps, AcceptKeeps, FinishKeeps, KeepsInv, EnqueueInv
  DEF IoStep, IoAccept, FinishDrain
<1>2. ASSUME NEW w \in Worker, WorkStep(w) \/ SpuriousWake(w) PROVE IInv'
  BY <1>2, WorkKeeps, BeatKeeps, FinishKeeps, KeepsInv, TakeInv, DoneInv
  DEF WorkStep, FinishDrain
<1>3. CASE HbStep \/ HbDeliver \/ MainStep
  BY <1>3, OtherKeeps, KeepsInv DEF MainStep
<1>4. CASE UNCHANGED vars
  BY <1>4 DEF vars, IInv, TypeOK, RingShape, InRing, HolderPc, DrainInv,
              InFlightExact, Busy
<1>5. QED
  BY <1>1, <1>2, <1>3, <1>4 DEF Next

\* A remainder is a slot number.
LEMMA ModuloRange ==
    \A j \in 0 .. 2 * Cap - 1 : j % Cap = IF j < Cap THEN j ELSE j - Cap
  OBVIOUS

\* The ring without remainders, which the proof uses, is the ring with them.
LEMMA RingShapeModulo == TypeOK /\ RingShape => RingConsistent
<1> SUFFICES ASSUME TypeOK, RingShape PROVE RingConsistent
  OBVIOUS
<1>0. q_head \in Int /\ Cap \in Int /\ q_len \in Int
  BY DEF TypeOK
<1>1. \A k \in 0 .. q_len :
         (q_head + k) % Cap = IF q_head + k < Cap THEN q_head + k
                                                  ELSE q_head + k - Cap
  <2> TAKE k \in 0 .. q_len
  <2>1. q_head + k \in 0 .. 2 * Cap - 1
    BY RankQueueAssumption DEF TypeOK, Slot
  <2>2. PICK j \in 0 .. 2 * Cap - 1 : j = q_head + k
    BY <2>1
  <2>3. j % Cap = IF j < Cap THEN j ELSE j - Cap
    BY ModuloRange
  <2>4. QED
    BY <1>0, <2>2, <2>3
<1>2. \A i \in Slot : InRing(i) <=> i \in Occupied
  <2> SUFFICES ASSUME NEW i \in Slot PROVE InRing(i) <=> i \in Occupied
    OBVIOUS
  <2>1. ASSUME InRing(i) PROVE i \in Occupied
    <3>1. PICK k \in 0 .. q_len - 1 : q_head + k = i \/ q_head + k = i + Cap
      <4>1. CASE q_head <= i /\ i < q_head + q_len
        <5>1. i - q_head \in 0 .. q_len - 1 /\ q_head + (i - q_head) = i
          BY <4>1 DEF TypeOK
        <5>2. QED
          BY <5>1
      <4>2. CASE i + Cap < q_head + q_len
        <5>1. /\ i + Cap - q_head \in 0 .. q_len - 1
              /\ q_head + (i + Cap - q_head) = i + Cap
          BY <4>2 DEF TypeOK
        <5>2. QED
          BY <5>1
      <4>3. QED
        BY <2>1, <4>1, <4>2 DEF InRing
    <3>2. (q_head + k) % Cap = i
      <4>1. q_head + k \in 0 .. 2 * Cap - 1 /\ i < Cap /\ i >= 0
        BY <3>1 DEF TypeOK
      <4>2. QED
        BY <3>1, <4>1, ModuloRange
    <3>3. QED
      BY <3>2 DEF Occupied
  <2>2. ASSUME i \in Occupied PROVE InRing(i)
    BY <1>1, <2>2 DEF Occupied, InRing, TypeOK
  <2>3. QED
    BY <2>1, <2>2
<1>3. q_tail = (q_head + q_len) % Cap
  <2>1. q_len \in 0 .. q_len
    BY DEF TypeOK
  <2>2. (q_head + q_len) % Cap = IF q_head + q_len < Cap THEN q_head + q_len
                                                        ELSE q_head + q_len - Cap
    BY <1>1, <2>1
  <2>3. QED
    BY <2>2 DEF RingShape
<1>4. \A i \in Slot : (jobs[i] # None) <=> (i \in Occupied)
  BY <1>2 DEF RingShape
<1>5. QED
  BY <1>3, <1>4 DEF RingConsistent

\* For any number of clients and work threads and any capacity, the ring never
\* loses or overwrites a job, in_flight counts the running jobs exactly, and a
\* DRAIN is answered OK only when every accepted job has been answered.
THEOREM RankSafety ==
    Spec => [](TypeOK /\ RingConsistent /\ InFlightExact /\ DrainMeansIdle)
<1>1. IInv => TypeOK /\ RingConsistent /\ InFlightExact
  BY RingShapeModulo DEF IInv
<1>2. IInv => DrainMeansIdle
  <2> SUFFICES ASSUME IInv, NEW c \in Conn, answer[c] = "ok" PROVE
                 /\ q_len = 0 /\ Busy = {}
                 /\ \A i \in Slot : jobs[i] = None
                 /\ pc["io"] \notin {"payload", "enqueue"}
    BY DEF DrainMeansIdle
  <2>1. draining /\ q_len = 0 /\ in_flight = 0
    BY DEF IInv, DrainInv
  <2>2. Busy = {}
    BY <2>1, BusyFinite, FS_EmptySet DEF IInv, InFlightExact
  <2>3. QED
    BY <2>1, <2>2 DEF IInv, DrainInv, RingShape, InRing, TypeOK
<1>3. QED
  BY <1>1, <1>2, InitInv, NextInv, PTL DEF Spec

\* The ring of accepted jobs is never overwritten and no empty slot is handed
\* out (jobs[], q_head, q_tail, q_len of rank.c).
THEOREM RankRing == Spec => []RingConsistent
  BY RankSafety, PTL

\* in_flight, which decides the node's load state and the end of a drain, is
\* the number of work threads between taking a job and counting it finished.
THEOREM RankInFlight == Spec => []InFlightExact
  BY RankSafety, PTL

-----------------------------------------------------------------------------
(* Every connection is to be accepted, or closed, or in one place.         *)

\* Connection c is held somewhere in the process.
Held(c) ==
    \/ \E i \in Slot : jobs[i] = c
    \/ \E t \in Thread : cur[t] = c
    \/ \E t \in Thread : dfd[t] = c
    \/ drain_fd = c

\* No two places hold the same connection.
Apart ==
    /\ \A i, j \in Slot : jobs[i] # None /\ jobs[i] = jobs[j] => i = j
    /\ \A t, u \in Thread : cur[t] # None /\ cur[t] = cur[u] => t = u
    /\ \A t, u \in Thread : dfd[t] # None /\ dfd[t] = dfd[u] => t = u
    /\ \A i \in Slot, t \in Thread :
          jobs[i] # None => jobs[i] # cur[t] /\ jobs[i] # dfd[t]
    /\ \A t, u \in Thread : cur[t] # None => cur[t] # dfd[u]
    /\ drain_fd # None => /\ \A i \in Slot : jobs[i] # drain_fd
                          /\ \A t \in Thread : cur[t] # drain_fd /\ dfd[t] # drain_fd

\* A connection is in exactly one of the three stages of its life.
OneStage ==
    \A c \in Conn :
        /\ c \in arriving => c \notin closed /\ ~Held(c)
        /\ c \in closed => ~Held(c)
        /\ c \notin arriving \cup closed => Held(c)

Custody == Apart /\ OneStage

\* Where the six places of custody stay as they are, custody does too.
LEMMA CustodyKept ==
    Custody /\ UNCHANGED <<jobs, cur, dfd, drain_fd, arriving, closed>> => Custody'
  BY DEF Custody, Apart, OneStage, Held

\* Nothing is held at the start.
LEMMA InitCustody == Init => Custody
  BY DEF Init, Custody, Apart, OneStage, Held

\* Custody is OneHolder, said place by place.
LEMMA CustodyOneHolder == TypeOK /\ Custody => OneHolder
<1> SUFFICES ASSUME TypeOK, Custody, NEW c \in Conn
             PROVE /\ c \in arriving \cup closed => Holders(c) = {}
                   /\ c \notin arriving \cup closed =>
                        \E h \in Holders(c) : Holders(c) = {h}
                   /\ c \notin arriving \cap closed
  BY DEF OneHolder
<1>1. c # None
  BY RankQueueAssumption
<1>2. c \in arriving \cup closed => Holders(c) = {}
  BY DEF Custody, OneStage, Held, Holders
<1>3. c \notin arriving \cap closed
  BY DEF Custody, OneStage
<1>4. ASSUME c \notin arriving \cup closed
      PROVE  \E h \in Holders(c) : Holders(c) = {h}
  <2>1. Held(c)
    BY <1>4 DEF Custody, OneStage
  <2>2. CASE \E i \in Slot : jobs[i] = c
    <3>1. PICK i \in Slot : jobs[i] = c
      BY <2>2
    <3>2. Holders(c) = {<<"slot", i>>}
      BY <3>1, <1>1 DEF Custody, Apart, Holders
    <3>3. QED
      BY <3>2
  <2>3. CASE \E t \in Thread : cur[t] = c
    <3>1. PICK t \in Thread : cur[t] = c
      BY <2>3
    <3>2. Holders(c) = {<<"cur", t>>}
      BY <3>1, <1>1 DEF Custody, Apart, Holders
    <3>3. QED
      BY <3>2
  <2>4. CASE \E t \in Thread : dfd[t] = c
    <3>1. PICK t \in Thread : dfd[t] = c
      BY <2>4
    <3>2. Holders(c) = {<<"dfd", t>>}
      BY <3>1, <1>1 DEF Custody, Apart, Holders
    <3>3. QED
      BY <3>2
  <2>5. CASE drain_fd = c
    <3>1. Holders(c) = {<<"drain_fd", 0>>}
      BY <2>5, <1>1 DEF Custody, Apart, Holders
    <3>2. QED
      BY <3>1
  <2>6. QED
    BY <2>1, <2>2, <2>3, <2>4, <2>5 DEF Held
<1>5. QED
  BY <1>2, <1>3, <1>4

\* The IO thread closes what it accepts, keeps it as the drain connection, or
\* takes it into its own hands.
LEMMA AcceptCustody ==
    ASSUME IInv, Custody, NEW c \in Conn,
           IoOther(c) \/ IoDrain(c) \/ IoInfer(c)
    PROVE  Custody'
<1> USE DEF IInv, TypeOK
<1>0. c \in arriving /\ ~Held(c) /\ c \notin closed /\ c # None
  BY RankQueueAssumption DEF IoOther, IoDrain, IoInfer, IoTake, Custody, OneStage
<1>1. arriving' = arriving \ {c} /\ cur["io"] = None
  BY DEF IoOther, IoDrain, IoInfer, IoTake, HolderPc
<1>2. CASE closed' = closed \cup {c} /\ UNCHANGED <<jobs, cur, dfd, drain_fd>>
  BY <1>0, <1>1, <1>2 DEF Custody, Apart, OneStage, Held
<1>3. CASE drain_fd = None /\ drain_fd' = c /\ UNCHANGED <<jobs, cur, dfd, closed>>
  BY <1>0, <1>1, <1>3 DEF Custody, Apart, OneStage, Held
<1>4. CASE cur' = [cur EXCEPT !["io"] = c] /\ UNCHANGED <<jobs, drain_fd, dfd, closed>>
  <2>1. \A t \in Thread : cur'[t] = IF t = "io" THEN c ELSE cur[t]
    BY <1>4
  <2>2. Apart'
    BY <1>0, <1>4, <2>1 DEF Custody, Apart, Held
  <2>3. \A d \in Conn : Held(d)' <=> Held(d) \/ d = c
    BY <1>1, <1>4, <2>1 DEF Held
  <2>4. OneStage'
    BY <1>0, <1>1, <1>4, <2>3 DEF Custody, OneStage
  <2>5. QED
    BY <2>2, <2>4 DEF Custody
<1>5. QED
  BY <1>2, <1>3, <1>4 DEF IoOther, IoDrain, IoInfer, IoTake

\* What leaves a thread's hands is closed in the same step: a payload that is
\* lost, an inference that is answered, the OK of a drain.
LEMMA CloseCustody ==
    ASSUME IInv, Custody, NEW t \in Thread,
           \/ /\ closed' = closed \cup {cur[t]} /\ cur[t] # None
              /\ cur' = [cur EXCEPT ![t] = None] /\ dfd' = dfd
           \/ /\ closed' = closed \cup {dfd[t]} /\ dfd[t] # None
              /\ dfd' = [dfd EXCEPT ![t] = None] /\ cur' = cur,
           UNCHANGED <<jobs, drain_fd, arriving>>
    PROVE  Custody'
<1> USE DEF IInv, TypeOK
<1>1. PICK c \in Conn : /\ Held(c) /\ c # None
                        /\ closed' = closed \cup {c}
                        /\ cur[t] = c \/ dfd[t] = c
                        /\ cur' = IF cur[t] = c THEN [cur EXCEPT ![t] = None] ELSE cur
                        /\ dfd' = IF cur[t] # c THEN [dfd EXCEPT ![t] = None] ELSE dfd
  BY DEF Held, Custody, Apart
<1>2. Apart'
  BY <1>1 DEF Custody, Apart
<1>3. ~Held(c)' /\ \A d \in Conn \ {c} : Held(d)' <=> Held(d)
  BY <1>1 DEF Held, Custody, Apart
<1>4. c \notin arriving \cup closed
  BY <1>1 DEF Custody, OneStage
<1>5. OneStage'
  BY <1>1, <1>3, <1>4 DEF Custody, OneStage
<1>6. QED
  BY <1>2, <1>5 DEF Custody

\* An accepted job passes from the IO thread into the ring, or is refused.
LEMMA EnqueueCustody == IInv /\ Custody /\ IoEnqueue => Custody'
<1> SUFFICES ASSUME IInv, Custody, IoEnqueue PROVE Custody'
  OBVIOUS
<1> USE DEF IInv, TypeOK
<1>0. cur["io"] # None
  BY DEF IoEnqueue, HolderPc
<1>1. CASE draining \/ RingFull
  BY <1>0, <1>1, CloseCustody DEF IoEnqueue
<1>2. CASE ~(draining \/ RingFull)
  <2>1. /\ jobs' = [jobs EXCEPT ![q_tail] = cur["io"]]
        /\ cur' = [cur EXCEPT !["io"] = None]
        /\ UNCHANGED <<dfd, drain_fd, arriving, closed>>
    BY <1>2 DEF IoEnqueue
  <2>2. jobs[q_tail] = None
    BY <1>2 DEF RingFull, RingShape, InRing
  <2>3. Apart'
    BY <1>0, <2>1, <2>2 DEF Custody, Apart
  <2>4. \A d \in Conn : Held(d)' <=> Held(d)
    BY <1>0, <2>1, <2>2 DEF Held
  <2>5. QED
    BY <2>1, <2>3, <2>4 DEF Custody, OneStage
<1>3. QED
  BY <1>1, <1>2

\* A job passes from the ring into the hands of the work thread that takes it.
LEMMA TakeCustody ==
    ASSUME IInv, Custody, NEW w \in Worker, WorkTake(w) PROVE Custody'
<1> USE DEF IInv, TypeOK
<1>1. /\ jobs' = [jobs EXCEPT ![q_head] = None]
      /\ cur' = [cur EXCEPT ![w] = jobs[q_head]]
      /\ UNCHANGED <<dfd, drain_fd, arriving, closed>>
  BY DEF WorkTake, ClearSlot
<1>2. jobs[q_head] # None /\ cur[w] = None
  BY DEF WorkTake, RingShape, InRing, HolderPc
<1>3. Apart'
  <2>1. \A i \in Slot : jobs'[i] = IF i = q_head THEN None ELSE jobs[i]
    BY <1>1
  <2>2. \A t \in Thread : cur'[t] = IF t = w THEN jobs[q_head] ELSE cur[t]
    BY <1>1
  <2>3. q_head \in Slot
    OBVIOUS
  <2>4. /\ \A t, u \in Thread : cur'[t] # None /\ cur'[t] = cur'[u] => t = u
        /\ \A i \in Slot, t \in Thread : jobs'[i] # None => jobs'[i] # cur'[t]
    BY <2>1, <2>2, <2>3 DEF Custody, Apart
  <2>5. \A i, j \in Slot : jobs'[i] # None /\ jobs'[i] = jobs'[j] => i = j
    BY <2>1 DEF Custody, Apart
  <2>6. /\ \A i \in Slot, t \in Thread : jobs'[i] # None => jobs'[i] # dfd[t]
        /\ \A t, u \in Thread : cur'[t] # None => cur'[t] # dfd[u]
    BY <1>2, <2>1, <2>2, <2>3 DEF Custody, Apart
  <2>7. drain_fd # None => /\ \A i \in Slot : jobs'[i] # drain_fd
                           /\ \A t \in Thread : cur'[t] # drain_fd /\ dfd[t] # drain_fd
    BY <1>2, <2>1, <2>2, <2>3 DEF Custody, Apart
  <2>8. \A t, u \in Thread : dfd[t] # None /\ dfd[t] = dfd[u] => t = u
    BY DEF Custody, Apart
  <2>9. QED
    BY <1>1, <2>4, <2>5, <2>6, <2>7, <2>8 DEF Apart
<1>4. \A d \in Conn : Held(d)' <=> Held(d)
  BY <1>1, <1>2 DEF Held
<1>5. QED
  BY <1>1, <1>3, <1>4 DEF Custody, OneStage

\* The drain connection passes to the one thread that claims it.
LEMMA ClaimCustody ==
    ASSUME IInv, Custody, NEW t \in Thread, FinishClaim(t) PROVE Custody'
<1> USE DEF IInv, TypeOK
<1>1. CASE ~DrainReady
  BY <1>1, CustodyKept DEF FinishClaim
<1>2. CASE DrainReady
  <2>1. /\ dfd' = [dfd EXCEPT ![t] = drain_fd] /\ drain_fd' = None
        /\ UNCHANGED <<jobs, cur, arriving, closed>>
    BY <1>2 DEF FinishClaim, ring
  <2>2. dfd[t] = None /\ drain_fd # None
    BY <1>2 DEF FinishClaim, DrainReady, HolderPc
  <2>3. Apart'
    BY <2>1, <2>2 DEF Custody, Apart
  <2>4. \A d \in Conn : Held(d)' <=> Held(d)
    BY <2>1, <2>2 DEF Held
  <2>5. QED
    BY <2>1, <2>3, <2>4 DEF Custody, OneStage
<1>3. QED
  BY <1>1, <1>2

\* A thread that finishes a drain answers the connection it has claimed.
LEMMA FinishCustody ==
    ASSUME IInv, Custody, NEW t \in Thread, FinishDrain(t) PROVE Custody'
<1>1. CASE FinishReply(t)
  <2>1. dfd[t] # None
    BY <1>1 DEF FinishReply, IInv, HolderPc
  <2>2. QED
    BY <1>1, <2>1, CloseCustody DEF FinishReply
<1>2. QED
  BY <1>1, ClaimCustody, CustodyKept DEF FinishDrain, FinishSave, FinishQuit

\* Every step of the process keeps custody of every connection.
LEMMA NextCustody == IInv /\ Custody /\ [Next]_vars => Custody'
<1> SUFFICES ASSUME IInv, Custody, [Next]_vars PROVE Custody'
  OBVIOUS
<1>1. CASE IoStep
  <2>1. "io" \in Thread
    OBVIOUS
  <2>2. QED
    BY <1>1, <2>1, EnqueueCustody, FinishCustody, CustodyKept
    DEF IoStep, IoListen, IoTop, IoIdle, IoPayload, IoBeat, IoExit
<1>2. CASE IoAccept
  BY <1>2, AcceptCustody DEF IoAccept
<1>3. CASE IoListenFail
  BY <1>3, CustodyKept DEF IoListenFail
<1>4. CASE IoPayloadLost
  <2>1. cur["io"] # None
    BY <1>4 DEF IoPayloadLost, IInv, HolderPc
  <2>2. QED
    BY <1>4, <2>1, CloseCustody DEF IoPayloadLost
<1>5. ASSUME NEW w \in Worker, WorkStep(w) \/ SpuriousWake(w) PROVE Custody'
  <2>1. CASE WorkAnswer(w)
    <3>1. cur[w] # None
      BY <2>1 DEF WorkAnswer, IInv, HolderPc
    <3>2. QED
      BY <2>1, <3>1, CloseCustody DEF WorkAnswer
  <2>2. CASE WorkTake(w) \/ FinishDrain(w)
    BY <2>2, TakeCustody, FinishCustody
  <2>3. CASE UNCHANGED <<jobs, cur, dfd, drain_fd, arriving, closed>>
    BY <2>3, CustodyKept
  <2>4. QED
    BY <1>5, <2>1, <2>2, <2>3
    DEF WorkStep, SpuriousWake, WorkCheck, WorkWait, WorkWake, WorkExit, WorkBeat,
        WorkInfer, WorkDone, PipeRound, PipeQuit, PipeRoundEnd, PipeLastSave
<1>6. CASE HbStep \/ HbDeliver \/ MainStep
  BY <1>6, CustodyKept
  DEF HbStep, HbExit, HbBeat, HbDeliver, rankVars, MainStep, MainJoinIo,
      MainBroadcast, MainExit
<1>7. CASE UNCHANGED vars
  BY <1>7, CustodyKept DEF vars
<1>8. QED
  BY <1>1, <1>2, <1>3, <1>4, <1>5, <1>6, <1>7 DEF Next

\* No socket is leaked, closed twice or answered by two threads, whatever the
\* interleaving of IO and work threads (job->fd, drain_fd of rank.c).
THEOREM RankCustody == Spec => []OneHolder
<1>1. IInv /\ Custody => OneHolder
  BY CustodyOneHolder DEF IInv
<1>2. QED
  BY <1>1, InitInv, NextInv, InitCustody, NextCustody, PTL DEF Spec
============================================================================
