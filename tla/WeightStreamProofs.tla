-------------------------- MODULE WeightStreamProofs --------------------------
(***************************************************************************)
(* Proofs about WeightStream, for any number of layers, any window, any    *)
(* weights and budget and any number of calls.  What a set of layers       *)
(* weighs (Bytes) is left open: the results do not depend on it.           *)
(***************************************************************************)
EXTENDS WeightStream, TLAPS, FiniteSetTheorems, WellFoundedInduction

\* Layers somebody has asked for or fetched; none of them is asked for again.
Reached == {l \in Layer : pstate[l] # "out"}

\* Every job in the ring, and the one that is about to be put there, has taken a
\* layer from those nobody had asked for.
JobsAreFew == tail + (IF pc = "enqueue" THEN 1 ELSE 0) <= Cardinality(Reached)

\* The thread fetches a layer of its job.
InJob == worker.pc = "fetch" => worker.i < worker.end

\* Budgeted blocks with pages are marked: with NotForgotten, this is Accounted.
Marked == Budget > 0 => \A l \in Blocks \cap mapped : pstate[l] \in {"in", "queued"}

IInv == TypeOK /\ head <= tail /\ JobsAreFew /\ InJob /\ NotForgotten /\ Marked /\ InUse /\ ClosedAlone

-----------------------------------------------------------------------------
(* Sets of layers.                                                         *)

\* A set of layers that is not empty has a lowest one, and Lowest is it.
LEMMA LowestIs ==
    ASSUME NEW n \in Nat, NEW A \in SUBSET (0 .. n), A # {}
    PROVE  Lowest(A) \in A /\ \A k \in A : Lowest(A) <= k
  <1>. DEFINE R == OpToRel(<, Nat)
  <1>1. IsWellFoundedOn(R, Nat)  BY NatLessThanWellFounded
  <1>2. \A x, y \in Nat : y < x => <<y, x>> \in R  BY DEF OpToRel
  <1>3. A \subseteq Nat  OBVIOUS
  <1>. HIDE DEF R
  <1>4. PICK x \in A : \A y \in A : ~(<<y, x>> \in R)  BY <1>1, <1>3, WFMin
  <1>5. \A k \in A : x <= k
    <2>. SUFFICES ASSUME NEW k \in A PROVE x <= k  OBVIOUS
    <2>1. ~(k < x)  BY <1>2, <1>3, <1>4
    <2>. QED  BY <2>1, <1>3
  <1>. QED  BY <1>5 DEF Lowest

\* At most NL layers are reached.
LEMMA ReachedIsFinite ==
    ASSUME StreamAssumption
    PROVE  IsFiniteSet(Reached) /\ Cardinality(Reached) \in Nat /\ Cardinality(Reached) <= NL
  <1>1. IsFiniteSet(Layer) /\ Cardinality(Layer) = NL
    <2>1. 0 \in Int /\ NL - 1 \in Int /\ ~(0 > NL - 1) /\ (NL - 1) - 0 + 1 = NL
      BY DEF StreamAssumption
    <2>. QED  BY <2>1, FS_Interval DEF Layer
  <1>2. Reached \in SUBSET Layer  BY DEF Reached
  <1>. QED  BY <1>1, <1>2, FS_Subset, FS_CardinalityType

\* Reached only grows; if a layer is new in it, by at least one.
LEMMA ReachedGrows ==
    ASSUME StreamAssumption, Reached \subseteq Reached'
    PROVE  /\ Cardinality(Reached) <= Cardinality(Reached')
           /\ \A l \in Reached' \ Reached : Cardinality(Reached) + 1 <= Cardinality(Reached')
  <1>1. IsFiniteSet(Layer)
    BY FS_Interval DEF StreamAssumption, Layer
  <1>2. Reached' \in SUBSET Layer  BY DEF Reached
  <1>3. IsFiniteSet(Reached')  BY <1>1, <1>2, FS_Subset
  <1>4. IsFiniteSet(Reached)  BY <1>3, FS_Subset
  <1>5. Cardinality(Reached) <= Cardinality(Reached')  BY <1>3, FS_Subset
  <1>6. ASSUME NEW l \in Reached' \ Reached
        PROVE  Cardinality(Reached) + 1 <= Cardinality(Reached')
    <2>1. Cardinality(Reached \cup {l}) = Cardinality(Reached) + 1
      BY <1>4, FS_AddElement
    <2>2. Reached \cup {l} \in SUBSET Reached'  BY <1>6
    <2>. QED  BY <1>3, <2>1, <2>2, FS_Subset
  <1>. QED  BY <1>5, <1>6

\* So the ring has room, and a job is at the place of its number.
LEMMA RingHasRoom ==
    ASSUME StreamAssumption, TypeOK, JobsAreFew
    PROVE  /\ tail <= NL /\ NL <= RingSize
           /\ pc = "enqueue" => tail < NL
           /\ \A k \in 0 .. (RingSize - 1) : k % RingSize = k
  <1>1. Cardinality(Reached) \in Nat /\ Cardinality(Reached) <= NL
    BY ReachedIsFinite
  <1>2. tail <= NL /\ (pc = "enqueue" => tail < NL)
    BY <1>1 DEF JobsAreFew, TypeOK, StreamAssumption
  <1>3. \A k \in 0 .. (RingSize - 1) : k % RingSize = k
    BY DEF StreamAssumption
  <1>. QED  BY <1>2, <1>3 DEF StreamAssumption
-----------------------------------------------------------------------------
(* Types.                                                                  *)

\* A window of the layers ahead is within the model; Budget and Bytes depend on the
\* set-up alone, which does not change.
LEMMA BudgetFixed == ASSUME setup' = setup PROVE Budget' = Budget
  BY DEF Budget, Bytes

LEMMA BudgetType == ASSUME StreamAssumption, TypeOK PROVE Budget \in Nat
  BY DEF Budget, TypeOK, StreamAssumption

\* What Ask is about: its first layer and the end of the span.
First == Lowest(Wanted(Window))
Over == IF Budget > 0 THEN TooMuch(First) ELSE {}
End == IF Over = {} THEN AtMost(cur + 2 * Depth, NL) ELSE Lowest(Over)
Asked == IF Budget > 0 THEN First..(End - 1) ELSE {First}

LEMMA AskSpan ==
    ASSUME StreamAssumption, TypeOK, Wanted(Window) # {}
    PROVE  /\ First \in Layer /\ pstate[First] = "out" /\ cur + Depth <= First
           /\ End \in 0 .. NL /\ First <= End
           /\ Over # {} => End \in Layer /\ cur < End
           /\ Over = {} => First < End
           /\ Budget = 0 => First < End
           /\ Asked \subseteq Layer /\ cur \notin Asked
  <1>1. Wanted(Window) \in SUBSET (0 .. (NL - 1))  BY DEF Wanted, Window, Layer
  <1>2. NL - 1 \in Nat /\ NL \in Nat /\ Depth \in Nat /\ Depth > 0 /\ cur \in Nat /\ cur < NL
    BY DEF StreamAssumption, TypeOK, Layer
  <1>3. First \in Wanted(Window)  BY <1>1, <1>2, LowestIs DEF First
  <1>4. /\ First \in Layer /\ pstate[First] = "out" /\ cur + Depth <= First
        /\ First < cur + 2 * Depth /\ First < NL /\ First \in Nat
    BY <1>2, <1>3 DEF Wanted, Window, Layer
  <1>5. Over \in SUBSET (0 .. (NL - 1)) /\ \A l \in Over : First <= l
    BY DEF Over, TooMuch, Window, Layer
  <1>6. CASE Over = {}
    <2>1. End = AtMost(cur + 2 * Depth, NL)  BY <1>6 DEF End
    <2>2. End \in 0 .. NL /\ First < End  BY <1>2, <1>4, <2>1 DEF AtMost
    <2>. QED  BY <1>2, <1>4, <1>6, <2>2 DEF Asked, Layer
  <1>7. CASE Over # {}
    <2>1. End = Lowest(Over)  BY <1>7 DEF End
    <2>2. End \in Over  BY <1>2, <1>5, <1>7, <2>1, LowestIs
    <2>3. End \in 0 .. (NL - 1) /\ First <= End  BY <1>5, <2>2
    <2>4. Budget # 0  BY <1>7, BudgetType DEF Over
    <2>. QED  BY <1>2, <1>4, <1>7, <2>3, <2>4 DEF Asked, Layer
  <1>. QED  BY <1>6, <1>7

\* One step of Ask in these terms.
LEMMA AskStep ==
    ASSUME Ask, Wanted(Window) # {}
    PROVE  /\ pstate' = [l \in Layer |-> IF l \in Asked THEN "queued"
                                       ELSE IF l = End /\ Over # {} THEN "in" ELSE pstate[l]]
           /\ span' = <<First, End>>
           /\ pc' = IF First < End THEN "enqueue" ELSE "release"
  BY DEF Ask, First, Over, End, Asked

\* The thread's record, field by field.
LEMMA WorkerType ==
    ASSUME StreamAssumption, TypeOK
    PROVE  /\ worker.i \in 0 .. NL /\ worker.end \in 0 .. NL
           /\ \A i \in 0 .. NL : \A e \in 0 .. NL :
                 [pc |-> "scan", i |-> i, end |-> e]
                     \in [pc : {"poll", "look", "scan", "fetch", "gone"}, i : 0 .. NL, end : 0 .. NL]
           /\ Idle \in [pc : {"poll", "look", "scan", "fetch", "gone"}, i : 0 .. NL, end : 0 .. NL]
  BY DEF StreamAssumption, TypeOK, Idle

LEMMA TypeStep == ASSUME StreamAssumption, IInv, Next PROVE TypeOK'
  <1>0. /\ NL \in Nat /\ NL >= 4 /\ Depth \in Nat /\ RingSize \in Nat /\ RingSize > 0
        /\ TypeOK /\ InJob /\ 0 \in Layer /\ 1 \in Layer /\ NL - 1 \in Layer /\ NL - 2 \in Layer
        /\ worker.i \in 0 .. NL /\ worker.end \in 0 .. NL
    BY WorkerType DEF IInv, StreamAssumption, Layer
  <1>1. CASE Poll  BY <1>0, <1>1 DEF Poll, TypeOK
  <1>2. CASE TakeJob
    <2>1. CASE head = tail  BY <1>0, <1>2, <2>1, WorkerType DEF TakeJob, TypeOK
    <2>2. CASE head # tail
      <3>1. head % RingSize \in 0 .. (RingSize - 1)  BY <1>0 DEF TypeOK
      <3>2. ring[head % RingSize] \in Layer \X (0 .. NL)  BY <1>0, <3>1 DEF TypeOK
      <3>3. /\ worker' = [pc |-> "scan", i |-> ring[head % RingSize][1], end |-> ring[head % RingSize][2]]
            /\ head' = head + 1
        BY <1>2, <2>2 DEF TakeJob
      <3>4. ring[head % RingSize][1] \in 0 .. NL /\ ring[head % RingSize][2] \in 0 .. NL
        BY <1>0, <3>2 DEF Layer
      <3>. QED  BY <1>0, <1>2, <3>3, <3>4, WorkerType DEF TakeJob, TypeOK
    <2>. QED  BY <2>1, <2>2
  <1>3. CASE Scan
    <2>1. CASE worker.i >= worker.end  BY <1>0, <1>3, <2>1, WorkerType DEF Scan, TypeOK
    <2>2. CASE ~(worker.i >= worker.end)
      <3>1. worker.i + 1 \in 0 .. NL  BY <1>0, <2>2
      <3>2. \/ worker' = [worker EXCEPT !.pc = "fetch"]
            \/ worker' = [worker EXCEPT !.i = worker.i + 1]
        BY <1>3, <2>2 DEF Scan
      <3>. QED  BY <1>0, <1>3, <3>1, <3>2 DEF Scan, TypeOK
    <2>. QED  BY <2>1, <2>2
  <1>4. CASE Fetched
    <2>1. worker.i + 1 \in 0 .. NL  BY <1>0, <1>4 DEF Fetched, InJob
    <2>2. worker' = [worker EXCEPT !.pc = "scan", !.i = worker.i + 1]  BY <1>4 DEF Fetched
    <2>. QED  BY <1>0, <1>4, <2>1, <2>2 DEF Fetched, TypeOK
  <1>5. CASE StartToken  BY <1>0, <1>5 DEF StartToken, schedVars, TypeOK
  <1>6. CASE StartBatch  BY <1>0, <1>6 DEF StartBatch, schedVars, TypeOK
  <1>7. CASE Ensure  BY <1>0, <1>7 DEF Ensure, Ensured, schedVars, TypeOK
  <1>8. CASE Compute  BY <1>0, <1>8 DEF Compute, schedVars, TypeOK
  <1>9. CASE Ask
    <2>1. CASE Wanted(Window) = {}  BY <1>0, <1>9, <2>1 DEF Ask, schedVars, TypeOK
    <2>2. CASE Wanted(Window) # {}
      <3>1. First \in Layer /\ End \in 0 .. NL  BY <1>0, <2>2, AskSpan
      <3>2. span' \in Layer \X (0 .. NL) /\ pc' \in {"enqueue", "release"}
        BY <1>9, <2>2, <3>1, AskStep
      <3>3. pstate' \in [Layer -> {"out", "queued", "in", "dropped"}]
        <4>1. pstate' = [l \in Layer |-> IF l \in Asked THEN "queued"
                                         ELSE IF l = End /\ Over # {} THEN "in" ELSE pstate[l]]
          BY <1>9, <2>2, AskStep
        <4>. QED  BY <1>0, <4>1 DEF TypeOK
      <3>. QED  BY <1>0, <1>9, <3>2, <3>3 DEF Ask, schedVars, TypeOK
    <2>. QED  BY <2>1, <2>2
  <1>10. CASE Enqueue
    <2>1. tail % RingSize \in 0 .. (RingSize - 1)  BY <1>0 DEF TypeOK
    <2>. QED  BY <1>0, <1>10, <2>1 DEF Enqueue, TypeOK
  <1>11. CASE Release
    <2>1. CASE GoOn
      <3>1. cur' \in Layer  BY <1>0, <2>1 DEF GoOn, Last, TypeOK, Layer
      <3>2. pc' \in {"idle", "ensure", "compute"} /\ mapped' \in SUBSET Layer /\ pstate' = pstate
        BY <1>0, <2>1 DEF GoOn, TypeOK
      <3>. QED  BY <1>0, <1>11, <3>1, <3>2 DEF Release, schedVars, TypeOK
    <2>2. CASE Drop(Lowest(Behind))  BY <1>0, <1>11, <2>2 DEF Release, Drop, schedVars, TypeOK
    <2>. QED  BY <1>11, <2>1, <2>2 DEF Release
  <1>12. CASE Free  BY <1>0, <1>12 DEF Free, schedVars, TypeOK
  <1>13. CASE Unmap  BY <1>0, <1>13 DEF Unmap, schedVars, TypeOK
  <1>. QED
    BY <1>1, <1>2, <1>3, <1>4, <1>5, <1>6, <1>7, <1>8, <1>9, <1>10, <1>11, <1>12, <1>13 DEF Next
-----------------------------------------------------------------------------
(* The ring.                                                               *)

\* A step that does not go back to "out" anywhere.
LEMMA Onward ==
    ASSUME StreamAssumption, IInv, Next
    PROVE  Reached \subseteq Reached'
  <1>0. TypeOK  BY DEF IInv
  <1>. SUFFICES ASSUME NEW l \in Layer, pstate[l] # "out" PROVE pstate'[l] # "out"
    BY DEF Reached
  <1>1. CASE Fetched  BY <1>0, <1>1 DEF Fetched, TypeOK
  <1>2. CASE Ensure  BY <1>0, <1>2 DEF Ensure, Ensured, TypeOK
  <1>3. CASE Ask
    <2>1. CASE Wanted(Window) = {}  BY <1>3, <2>1 DEF Ask
    <2>2. CASE Wanted(Window) # {}  BY <1>3, <2>2, AskStep
    <2>. QED  BY <2>1, <2>2
  <1>4. CASE Release
    <2>1. CASE GoOn  BY <2>1 DEF GoOn
    <2>2. CASE Drop(Lowest(Behind))  BY <1>0, <2>2 DEF Drop, TypeOK
    <2>. QED  BY <1>4, <2>1, <2>2 DEF Release
  <1>5. CASE Poll \/ TakeJob \/ Scan  BY <1>5 DEF Poll, TakeJob, Scan
  <1>6. CASE StartToken \/ StartBatch \/ Compute \/ Enqueue \/ Free \/ Unmap
    BY <1>6 DEF StartToken, StartBatch, Compute, Enqueue, Free, Unmap
  <1>. QED  BY <1>1, <1>2, <1>3, <1>4, <1>5, <1>6 DEF Next

\* Only a window takes a place in the ring, and the layer it begins with is new.
LEMMA JobsStep == ASSUME StreamAssumption, IInv, Next PROVE JobsAreFew'
  <1>0. /\ TypeOK /\ JobsAreFew /\ tail \in Nat
        /\ Cardinality(Reached) \in Nat
        /\ Cardinality(Reached) <= Cardinality(Reached')
        /\ \A l \in Reached' \ Reached : Cardinality(Reached) + 1 <= Cardinality(Reached')
    BY Onward, ReachedIsFinite, ReachedGrows DEF IInv, TypeOK
  <1>c. Cardinality(Reached') \in Nat
    <2>1. Reached' \in SUBSET Layer  BY DEF Reached
    <2>2. IsFiniteSet(Layer)  BY FS_Interval DEF StreamAssumption, Layer
    <2>. QED  BY <2>1, <2>2, FS_Subset, FS_CardinalityType
  <1>1. CASE Ask
    <2>1. tail' = tail /\ pc = "window"  BY <1>1 DEF Ask, schedVars
    <2>2. CASE Wanted(Window) = {}
      <3>1. pc' = "release"  BY <1>1, <2>2 DEF Ask
      <3>. QED  BY <1>0, <1>c, <2>1, <3>1 DEF JobsAreFew
    <2>3. CASE Wanted(Window) # {}
      <3>1. CASE First < End
        <4>1. First \in Asked /\ First \in Layer /\ pstate[First] = "out"
          <5>1. First \in Layer /\ pstate[First] = "out" /\ End \in 0 .. NL
            BY <1>0, <2>3, AskSpan
          <5>. QED  BY <3>1, <5>1 DEF Asked, Layer, StreamAssumption
        <4>2. pstate'[First] = "queued"  BY <1>1, <2>3, <4>1, AskStep
        <4>3. First \in Reached' \ Reached  BY <4>1, <4>2 DEF Reached
        <4>4. Cardinality(Reached) + 1 <= Cardinality(Reached')  BY <1>0, <4>3
        <4>. QED  BY <1>0, <1>c, <2>1, <4>4 DEF JobsAreFew
      <3>2. CASE ~(First < End)
        <4>1. pc' = "release"  BY <1>1, <2>3, <3>2, AskStep
        <4>. QED  BY <1>0, <1>c, <2>1, <4>1 DEF JobsAreFew
      <3>. QED  BY <3>1, <3>2
    <2>. QED  BY <2>2, <2>3
  <1>2. CASE Enqueue
    <2>1. pc = "enqueue" /\ tail' = tail + 1 /\ pc' = "release"  BY <1>2 DEF Enqueue
    <2>. QED  BY <1>0, <1>c, <2>1 DEF JobsAreFew
  <1>3. CASE Poll \/ TakeJob \/ Scan \/ Fetched
    <2>1. tail' = tail /\ pc' = pc  BY <1>3 DEF Poll, TakeJob, Scan, Fetched
    <2>. QED  BY <1>0, <1>c, <2>1 DEF JobsAreFew
  <1>4. CASE StartToken \/ StartBatch \/ Ensure \/ Compute \/ Release \/ Free \/ Unmap
    <2>1. tail' = tail /\ pc' # "enqueue"
      <3>1. CASE Release  BY <3>1 DEF Release, GoOn, Drop, schedVars
      <3>2. CASE StartToken \/ StartBatch \/ Ensure
        BY <3>2 DEF StartToken, StartBatch, Ensure, schedVars
      <3>3. CASE Compute \/ Free \/ Unmap
        BY <3>3 DEF Compute, Free, Unmap, schedVars
      <3>. QED  BY <1>4, <3>1, <3>2, <3>3
    <2>. QED  BY <1>0, <1>c, <2>1 DEF JobsAreFew
  <1>. QED  BY <1>1, <1>2, <1>3, <1>4 DEF Next

\* The thread takes only jobs that are there and fetches only layers of its job.
LEMMA ThreadStep ==
    ASSUME StreamAssumption, IInv, Next
    PROVE  (head <= tail)' /\ InJob' /\ ClosedAlone'
  <1>0. TypeOK /\ head <= tail /\ InJob /\ ClosedAlone /\ head \in Nat /\ tail \in Nat
    BY DEF IInv, TypeOK
  <1>1. CASE Poll  BY <1>0, <1>1 DEF Poll, InJob, ClosedAlone, TypeOK
  <1>2. CASE TakeJob
    <2>1. worker.pc = "look" /\ tail' = tail /\ pc' = pc /\ pc # "closed"
      BY <1>0, <1>2 DEF TakeJob, ClosedAlone
    <2>2. CASE head = tail  BY <1>0, <1>2, <2>1, <2>2 DEF TakeJob, Idle, InJob, ClosedAlone
    <2>3. CASE head # tail
      <3>1. head' = head + 1 /\ worker'.pc = "scan"  BY <1>2, <2>3 DEF TakeJob
      <3>. QED  BY <1>0, <2>1, <2>3, <3>1 DEF InJob, ClosedAlone
    <2>. QED  BY <2>2, <2>3
  <1>3. CASE Scan
    <2>1. worker.pc = "scan" /\ tail' = tail /\ head' = head /\ pc' = pc /\ pc # "closed"
      BY <1>0, <1>3 DEF Scan, ClosedAlone
    <2>2. worker.i \in 0 .. NL /\ worker.end \in 0 .. NL  BY <1>0, WorkerType
    <2>3. worker'.pc = "fetch" => worker'.i < worker'.end
      <3>1. CASE worker.i >= worker.end  BY <1>3, <3>1 DEF Scan, Idle
      <3>2. CASE ~(worker.i >= worker.end) /\ pstate[worker.i] = "queued"
        <4>1. worker' = [worker EXCEPT !.pc = "fetch"]  BY <1>3, <3>2 DEF Scan
        <4>2. worker'.i = worker.i /\ worker'.end = worker.end  BY <1>0, <4>1 DEF TypeOK
        <4>. QED  BY <2>2, <3>2, <4>2 DEF StreamAssumption
      <3>3. CASE ~(worker.i >= worker.end) /\ pstate[worker.i] # "queued"
        <4>1. worker' = [worker EXCEPT !.i = worker.i + 1]  BY <1>3, <3>3 DEF Scan
        <4>2. worker'.pc = "scan"  BY <1>0, <2>1, <4>1 DEF TypeOK
        <4>. QED  BY <4>2
      <3>. QED  BY <3>1, <3>2, <3>3
    <2>. QED  BY <1>0, <2>1, <2>3 DEF InJob, ClosedAlone
  <1>4. CASE Fetched
    <2>1. /\ worker.pc = "fetch" /\ tail' = tail /\ head' = head /\ pc' = pc /\ pc # "closed"
          /\ worker'.pc = "scan"
      BY <1>0, <1>4 DEF Fetched, ClosedAlone, TypeOK
    <2>. QED  BY <1>0, <2>1 DEF InJob, ClosedAlone
  <1>5. CASE Enqueue  BY <1>0, <1>5 DEF Enqueue, InJob, ClosedAlone
  <1>6. CASE StartToken \/ StartBatch \/ Ensure \/ Compute \/ Ask \/ Release
    <2>1. head' = head /\ tail' = tail /\ worker' = worker
      BY <1>6 DEF StartToken, StartBatch, Ensure, Compute, Ask, Release, schedVars
    <2>2. pc' # "closed"
      BY <1>6 DEF StartToken, StartBatch, Ensure, Compute, Ask, Release, GoOn, Drop
    <2>. QED  BY <1>0, <2>1, <2>2 DEF InJob, ClosedAlone
  <1>7. CASE Free \/ Unmap
    BY <1>0, <1>7 DEF Free, Unmap, schedVars, InJob, ClosedAlone
  <1>. QED  BY <1>1, <1>2, <1>3, <1>4, <1>5, <1>6, <1>7 DEF Next
-----------------------------------------------------------------------------
(* Layers that are queued.                                                 *)

\* A step that leaves the ring, the thread and the span alone leaves everybody waiting
\* for what he was waiting for, unless the engine was about to enqueue.
LEMMA AwaitedKept ==
    ASSUME NEW l, Awaited(l), head' = head, tail' = tail, ring' = ring, worker' = worker,
           pc # "enqueue"
    PROVE  Awaited(l)'
  BY DEF Awaited, Covers

\* Steps of the engine that make no layer queued.
LEMMA EngineKeepsQueued ==
    ASSUME IInv, StartToken \/ StartBatch \/ Ensure \/ Compute \/ Release \/ Free \/ Unmap
    PROVE  /\ pc # "enqueue" /\ head' = head /\ tail' = tail /\ ring' = ring /\ worker' = worker
           /\ \A l \in Layer : pstate'[l] = "queued" => pstate[l] = "queued"
  <1>0. TypeOK  BY DEF IInv
  <1>1. CASE StartToken \/ StartBatch  BY <1>1 DEF StartToken, StartBatch, schedVars
  <1>2. CASE Ensure  BY <1>0, <1>2 DEF Ensure, Ensured, schedVars, TypeOK
  <1>3. CASE Compute \/ Free \/ Unmap  BY <1>3 DEF Compute, Free, Unmap, schedVars
  <1>4. CASE Release
    <2>1. CASE GoOn  BY <1>4, <2>1 DEF Release, GoOn, schedVars
    <2>2. CASE Drop(Lowest(Behind))  BY <1>0, <1>4, <2>2 DEF Release, Drop, schedVars, TypeOK
    <2>. QED  BY <1>4, <2>1, <2>2 DEF Release
  <1>. QED  BY <1>1, <1>2, <1>3, <1>4

LEMMA AwaitedStep == ASSUME StreamAssumption, IInv, Next PROVE NotForgotten'
  <1>0. TypeOK /\ NotForgotten /\ head <= tail /\ head \in Nat /\ tail \in Nat
        /\ worker.i \in 0 .. NL /\ worker.end \in 0 .. NL
    BY WorkerType DEF IInv, TypeOK
  <1>r. /\ tail <= NL /\ NL <= RingSize /\ (pc = "enqueue" => tail < NL) /\ NL \in Nat /\ RingSize \in Nat
        /\ \A k \in 0 .. (RingSize - 1) : k % RingSize = k
    BY RingHasRoom DEF IInv, StreamAssumption
  <1>. SUFFICES ASSUME NEW l \in Layer, pstate'[l] = "queued" PROVE Awaited(l)'
    BY DEF NotForgotten
  <1>l. l \in Nat  BY <1>r DEF Layer
  <1>1. CASE Poll
    <2>1. Awaited(l) /\ worker.pc = "poll"  BY <1>0, <1>1 DEF Poll, NotForgotten
    <2>. QED  BY <1>1, <2>1 DEF Poll, Awaited, Covers
  <1>2. CASE TakeJob
    <2>1. Awaited(l) /\ worker.pc = "look"  BY <1>0, <1>2 DEF TakeJob, NotForgotten
    <2>2. tail' = tail /\ ring' = ring /\ pc' = pc /\ span' = span  BY <1>2 DEF TakeJob
    <2>3. CASE pc = "enqueue" /\ Covers(span, l)  BY <2>2, <2>3 DEF Awaited, Covers
    <2>4. CASE \E k \in head..(tail - 1) : Covers(ring[k % RingSize], l)
      <3>1. PICK k \in head..(tail - 1) : Covers(ring[k % RingSize], l)  BY <2>4
      <3>2. head # tail  BY <1>0, <3>1
      <3>3. worker' = [pc |-> "scan", i |-> ring[head % RingSize][1], end |-> ring[head % RingSize][2]]
            /\ head' = head + 1
        BY <1>2, <3>2 DEF TakeJob
      <3>4. CASE k = head  BY <3>1, <3>3, <3>4 DEF Awaited, Covers
      <3>5. CASE k # head
        <4>1. k \in head' .. (tail' - 1)  BY <1>0, <2>2, <3>1, <3>3, <3>5
        <4>. QED  BY <2>2, <3>1, <4>1 DEF Awaited, Covers
      <3>. QED  BY <3>4, <3>5
    <2>. QED  BY <2>1, <2>3, <2>4 DEF Awaited
  <1>3. CASE Scan
    <2>1. /\ Awaited(l) /\ worker.pc = "scan" /\ head' = head /\ tail' = tail /\ ring' = ring
          /\ pc' = pc /\ span' = span /\ pstate' = pstate
      BY <1>0, <1>3 DEF Scan, NotForgotten
    <2>2. CASE worker.i <= l /\ l < worker.end
      <3>0. ~(worker.i >= worker.end)  BY <1>0, <1>l, <2>2
      <3>1. CASE pstate[worker.i] = "queued"
        <4>1. worker' = [worker EXCEPT !.pc = "fetch"]  BY <1>3, <3>0, <3>1 DEF Scan
        <4>2. worker'.pc = "fetch" /\ worker'.i = worker.i /\ worker'.end = worker.end
          BY <1>0, <4>1 DEF TypeOK
        <4>. QED  BY <2>2, <4>2 DEF Awaited
      <3>2. CASE pstate[worker.i] # "queued"
        <4>1. worker' = [worker EXCEPT !.i = worker.i + 1]  BY <1>3, <3>0, <3>2 DEF Scan
        <4>2. worker'.pc = "scan" /\ worker'.i = worker.i + 1 /\ worker'.end = worker.end
          BY <1>0, <2>1, <4>1 DEF TypeOK
        <4>3. l # worker.i  BY <2>1, <3>2
        <4>4. worker'.i <= l  BY <1>0, <1>l, <2>2, <4>2, <4>3
        <4>. QED  BY <2>2, <4>2, <4>4 DEF Awaited
      <3>. QED  BY <3>1, <3>2
    <2>3. CASE ~(worker.i <= l /\ l < worker.end)  BY <2>1, <2>3 DEF Awaited, Covers
    <2>. QED  BY <2>2, <2>3
  <1>4. CASE Fetched
    <2>1. /\ worker.pc = "fetch" /\ head' = head /\ tail' = tail /\ ring' = ring
          /\ pc' = pc /\ span' = span
      BY <1>4 DEF Fetched
    <2>2. pstate' = [pstate EXCEPT ![worker.i] = "in"]  BY <1>4 DEF Fetched
    <2>3. l # worker.i /\ pstate[l] = "queued"  BY <1>0, <2>2 DEF TypeOK
    <2>4. worker'.pc = "scan" /\ worker'.i = worker.i + 1 /\ worker'.end = worker.end
      BY <1>0, <1>4 DEF Fetched, TypeOK
    <2>5. Awaited(l)  BY <1>0, <2>3 DEF NotForgotten
    <2>6. CASE worker.i <= l /\ l < worker.end
      <3>1. worker'.i <= l  BY <1>0, <1>l, <2>3, <2>4, <2>6
      <3>. QED  BY <2>4, <2>6, <3>1 DEF Awaited
    <2>7. CASE ~(worker.i <= l /\ l < worker.end)  BY <2>1, <2>5, <2>7 DEF Awaited, Covers
    <2>. QED  BY <2>6, <2>7
  <1>5. CASE StartToken \/ StartBatch \/ Ensure \/ Compute \/ Release \/ Free \/ Unmap
    <2>1. Awaited(l)  BY <1>0, <1>5, EngineKeepsQueued DEF NotForgotten
    <2>. QED  BY <1>5, <2>1, EngineKeepsQueued, AwaitedKept
  <1>6. CASE Ask
    <2>0. pc = "window" /\ head' = head /\ tail' = tail /\ ring' = ring /\ worker' = worker
      BY <1>6 DEF Ask, schedVars
    <2>1. CASE pstate[l] = "queued"
      <3>1. Awaited(l)  BY <1>0, <2>1 DEF NotForgotten
      <3>. QED  BY <2>0, <3>1, AwaitedKept
    <2>2. CASE pstate[l] # "queued"
      <3>1. Wanted(Window) # {}  BY <1>6, <2>2 DEF Ask
      <3>2. l \in Asked  BY <1>6, <2>2, <3>1, AskStep
      <3>3. First \in Nat /\ End \in Nat /\ (Budget = 0 => First < End) /\ Budget \in Nat
        BY <1>0, <1>r, <3>1, AskSpan, BudgetType DEF Layer
      <3>4. First <= l /\ l < End
        <4>1. CASE Budget > 0  BY <3>2, <3>3, <4>1 DEF Asked
        <4>2. CASE ~(Budget > 0)  BY <3>2, <3>3, <4>2 DEF Asked
        <4>. QED  BY <4>1, <4>2
      <3>5. First < End  BY <1>l, <3>3, <3>4
      <3>6. pc' = "enqueue" /\ span' = <<First, End>>  BY <1>6, <3>1, <3>5, AskStep
      <3>7. span'[1] <= l /\ l < span'[2]  BY <3>4, <3>6
      <3>. QED  BY <3>6, <3>7 DEF Awaited, Covers
    <2>. QED  BY <2>1, <2>2
  <1>7. CASE Enqueue
    <2>1. /\ pc = "enqueue" /\ head' = head /\ worker' = worker /\ tail' = tail + 1
          /\ ring' = [ring EXCEPT ![tail % RingSize] = span] /\ pstate' = pstate
      BY <1>7 DEF Enqueue
    <2>2. tail \in 0 .. (RingSize - 1) /\ tail % RingSize = tail  BY <1>0, <1>r, <2>1
    <2>3. ring'[tail] = span  BY <1>0, <2>1, <2>2 DEF TypeOK
    <2>4. Awaited(l)  BY <1>0, <2>1 DEF NotForgotten
    <2>5. CASE Covers(span, l)
      <3>1. tail \in head' .. (tail' - 1)  BY <1>0, <2>1
      <3>2. Covers(ring'[tail % RingSize], l)  BY <2>2, <2>3, <2>5
      <3>. QED  BY <3>1, <3>2 DEF Awaited, Covers
    <2>6. CASE \E k \in head..(tail - 1) : Covers(ring[k % RingSize], l)
      <3>1. PICK k \in head..(tail - 1) : Covers(ring[k % RingSize], l)  BY <2>6
      <3>2. k \in head' .. (tail' - 1) /\ k \in 0 .. (RingSize - 1) /\ k # tail
        BY <1>0, <1>r, <2>1, <3>1
      <3>3. k % RingSize = k  BY <1>r, <3>2
      <3>4. ring'[k] = ring[k]  BY <1>0, <2>1, <2>2, <3>2 DEF TypeOK
      <3>. QED  BY <3>1, <3>2, <3>3, <3>4 DEF Awaited, Covers
    <2>7. CASE worker.pc \in {"scan", "fetch"} /\ worker.i <= l /\ l < worker.end
      BY <2>1, <2>7 DEF Awaited
    <2>. QED  BY <2>4, <2>5, <2>6, <2>7 DEF Awaited
  <1>. QED  BY <1>1, <1>2, <1>3, <1>4, <1>5, <1>6, <1>7 DEF Next
-----------------------------------------------------------------------------
(* Layers with pages, and the layer that is computed.                      *)

\* A block that is marked stays so, unless its pages go.
LEMMA MarkedStep == ASSUME StreamAssumption, IInv, Next PROVE Marked'
  <1>0. TypeOK /\ Marked /\ InUse /\ Budget \in Nat /\ NL \in Nat /\ NL >= 4 /\ cur \in Layer
        /\ Budget' = Budget
    <2>1. setup' = setup
      BY DEF Next, Poll, TakeJob, Scan, Fetched, StartToken, StartBatch, Ensure, Compute, Ask,
             Enqueue, Release, Free, Unmap
    <2>. QED  BY <2>1, BudgetFixed, BudgetType DEF IInv, StreamAssumption, TypeOK
  <1>b. \A l \in Blocks : l \in Layer /\ l # 0 /\ l # NL - 2 /\ l # NL - 1
    BY <1>0 DEF Blocks, Layer
  <1>. SUFFICES ASSUME Budget > 0, NEW l \in Blocks, l \in mapped'
                PROVE  pstate'[l] \in {"in", "queued"}
    BY <1>0 DEF Marked
  <1>m. l \in mapped => pstate[l] \in {"in", "queued"}  BY <1>0 DEF Marked
  <1>1. CASE Poll \/ TakeJob \/ Scan \/ Enqueue
    BY <1>m, <1>1 DEF Poll, TakeJob, Scan, Enqueue
  <1>2. CASE Fetched  BY <1>0, <1>b, <1>m, <1>2 DEF Fetched, TypeOK
  <1>3. CASE StartToken \/ StartBatch
    <2>1. mapped' \subseteq mapped \cup {0} /\ pstate' = pstate  BY <1>3 DEF StartToken, StartBatch
    <2>. QED  BY <1>b, <1>m, <2>1
  <1>4. CASE Ensure
    <2>1. mapped' = mapped /\ pstate' = [pstate EXCEPT ![cur] = Ensured(pstate[cur])]
      BY <1>4 DEF Ensure
    <2>. QED  BY <1>0, <1>b, <1>m, <2>1 DEF Ensured, TypeOK
  <1>5. CASE Compute
    <2>1. pstate' = pstate /\ mapped' \subseteq mapped \cup {cur} /\ pc = "compute"
      BY <1>5 DEF Compute
    <2>2. CASE l = cur  BY <1>0, <2>1, <2>2 DEF InUse
    <2>3. CASE l # cur  BY <1>m, <2>1, <2>3
    <2>. QED  BY <2>2, <2>3
  <1>6. CASE Ask
    <2>1. mapped' = mapped  BY <1>6 DEF Ask
    <2>2. CASE Wanted(Window) = {}  BY <1>m, <1>6, <2>1, <2>2 DEF Ask
    <2>3. CASE Wanted(Window) # {}  BY <1>b, <1>m, <1>6, <2>1, <2>3, AskStep
    <2>. QED  BY <2>2, <2>3
  <1>7. CASE Release
    <2>1. CASE GoOn
      <3>1. pstate' = pstate /\ mapped' \subseteq mapped \cup {NL - 2, NL - 1}  BY <2>1 DEF GoOn
      <3>. QED  BY <1>b, <1>m, <3>1
    <2>2. CASE Drop(Lowest(Behind))
      <3>1. l \in mapped /\ l # Lowest(Behind)  BY <2>2 DEF Drop
      <3>2. pstate'[l] = pstate[l]  BY <1>0, <1>b, <2>2, <3>1 DEF Drop, TypeOK
      <3>. QED  BY <1>m, <3>1, <3>2
    <2>. QED  BY <1>7, <2>1, <2>2 DEF Release
  <1>8. CASE Free \/ Unmap  BY <1>m, <1>8 DEF Free, Unmap
  <1>. QED  BY <1>1, <1>2, <1>3, <1>4, <1>5, <1>6, <1>7, <1>8 DEF Next

\* From sched_ensure until its release a layer is not dropped.
LEMMA UseStep == ASSUME StreamAssumption, IInv, Next PROVE InUse'
  <1>0. TypeOK /\ InUse /\ Budget \in Nat /\ cur \in Layer /\ Budget' = Budget
    <2>1. setup' = setup
      BY DEF Next, Poll, TakeJob, Scan, Fetched, StartToken, StartBatch, Ensure, Compute, Ask,
             Enqueue, Release, Free, Unmap
    <2>. QED  BY <2>1, BudgetFixed, BudgetType DEF IInv, TypeOK
  <1>. SUFFICES ASSUME pc' \in {"compute", "window", "enqueue"}, kind' = "token" \/ Budget > 0
                PROVE  pstate'[cur'] \in {"queued", "in"}
    BY <1>0 DEF InUse
  <1>1. CASE Poll \/ TakeJob \/ Scan
    BY <1>0, <1>1 DEF Poll, TakeJob, Scan, InUse
  <1>2. CASE Fetched  BY <1>0, <1>2 DEF Fetched, InUse, TypeOK
  <1>3. CASE StartToken \/ StartBatch
    BY <1>3 DEF StartToken, StartBatch
  <1>4. CASE Ensure
    <2>1. cur' = cur /\ pstate' = [pstate EXCEPT ![cur] = Ensured(pstate[cur])]  BY <1>4 DEF Ensure
    <2>2. pstate[cur] \in {"out", "queued", "in", "dropped"}  BY <1>0 DEF TypeOK
    <2>3. pstate'[cur] = Ensured(pstate[cur])  BY <1>0, <2>1 DEF TypeOK
    <2>. QED  BY <2>1, <2>2, <2>3 DEF Ensured
  <1>5. CASE Compute  BY <1>0, <1>5 DEF Compute, InUse
  <1>6. CASE Ask
    <2>1. cur' = cur /\ kind' = kind /\ pc = "window" /\ pstate[cur] \in {"queued", "in"}
      BY <1>0, <1>6 DEF Ask, InUse
    <2>2. CASE Wanted(Window) = {}  BY <1>6, <2>1, <2>2 DEF Ask
    <2>3. CASE Wanted(Window) # {}  BY <1>0, <1>6, <2>1, <2>3, AskStep
    <2>. QED  BY <2>2, <2>3
  <1>7. CASE Enqueue \/ Free \/ Unmap  BY <1>7 DEF Enqueue, Free, Unmap
  <1>8. CASE Release
    <2>1. CASE GoOn
      BY <1>0, <1>8, <2>1 DEF Release, GoOn, TypeOK
    <2>2. CASE Drop(Lowest(Behind))  BY <1>8, <2>2 DEF Release, Drop
    <2>. QED  BY <1>8, <2>1, <2>2 DEF Release
  <1>. QED  BY <1>1, <1>2, <1>3, <1>4, <1>5, <1>6, <1>7, <1>8 DEF Next

-----------------------------------------------------------------------------
(* The theorem.                                                            *)

\* At the start nobody has asked for a layer, and none has pages.
LEMMA StreamInit == ASSUME StreamAssumption, Init PROVE IInv
  <1>1. TypeOK
    <2>1. 0 \in Layer /\ 0 \in 0 .. NL  BY DEF StreamAssumption, Layer
    <2>. QED  BY <2>1 DEF Init, Idle, TypeOK
  <1>2. head <= tail /\ JobsAreFew
    <2>1. tail = 0 /\ head = 0 /\ pc = "idle"  BY DEF Init
    <2>. QED  BY <2>1, ReachedIsFinite DEF JobsAreFew
  <1>3. InJob /\ NotForgotten /\ Marked /\ InUse /\ ClosedAlone
    BY DEF Init, Idle, InJob, NotForgotten, Marked, InUse, ClosedAlone
  <1>. QED  BY <1>1, <1>2, <1>3 DEF IInv

LEMMA StreamStep == ASSUME StreamAssumption, IInv, [Next]_vars PROVE IInv'
  <1>1. CASE Next
    <2>. QED  BY <1>1, TypeStep, ThreadStep, JobsStep, AwaitedStep, MarkedStep, UseStep DEF IInv
  <1>2. CASE UNCHANGED vars
    <2>1. Budget' = Budget  BY <1>2, BudgetFixed DEF vars
    <2>2. TypeOK' /\ (head <= tail)' /\ InJob' /\ NotForgotten'
      BY <1>2 DEF vars, IInv, TypeOK, InJob, NotForgotten, Awaited, Covers
    <2>3. JobsAreFew' /\ Marked' /\ InUse' /\ ClosedAlone'
      BY <1>2, <2>1 DEF vars, IInv, JobsAreFew, Reached, Marked, InUse, ClosedAlone
    <2>. QED  BY <2>2, <2>3 DEF IInv
  <1>. QED  BY <1>1, <1>2

LEMMA StreamSafe == ASSUME StreamAssumption, IInv PROVE WeightsAccounted
  <1>1. NeverOverrun
    <2>1. head \in Nat /\ tail \in Nat /\ head <= tail /\ tail <= NL /\ NL <= RingSize
          /\ NL \in Nat /\ RingSize \in Nat
      BY RingHasRoom DEF IInv, TypeOK, StreamAssumption
    <2>. QED  BY <2>1 DEF NeverOverrun
  <1>2. Accounted
    <2>1. \A l \in Blocks : l \in Layer  BY DEF Blocks, Layer, StreamAssumption
    <2>. QED  BY <2>1 DEF IInv, Marked, NotForgotten, Accounted
  <1>. QED  BY <1>1, <1>2 DEF IInv, WeightsAccounted

\* The weight scheduler of the engine (sched_enqueue, sched_ensure,
\* sched_release_budget, engine_free): whatever the two threads do, no job is lost
\* to a full ring, no layer stays queued with nobody to come to it, every block
\* with pages is one the budget can still drop, the layer computed has not been
\* dropped, and the thread is gone before the file is unmapped.
THEOREM StreamAccountsForWeights ==
    ASSUME StreamAssumption
    PROVE  Spec => []WeightsAccounted
  <1>1. Init => IInv  BY StreamInit
  <1>2. IInv /\ [Next]_vars => IInv'  BY StreamStep
  <1>3. IInv => WeightsAccounted  BY StreamSafe
  <1>. QED  BY <1>1, <1>2, <1>3, PTL DEF Spec

-----------------------------------------------------------------------------
\* Nothing is asked for twice: a layer once asked for or fetched is never again one
\* that a window begins with.
AskedOnce == [][Reached \subseteq Reached']_vars

\* Over the whole life of an engine its prefetch thread gets at most one job for a
\* layer, so it has nothing more to do once the layers have been through.
THEOREM LayersAskedOnce ==
    ASSUME StreamAssumption
    PROVE  Spec => AskedOnce
  <1>1. Init => IInv  BY StreamInit
  <1>2. IInv /\ [Next]_vars => IInv'  BY StreamStep
  <1>3. IInv /\ [Next]_vars => [Reached \subseteq Reached']_vars
    <2>1. ASSUME IInv, Next PROVE Reached \subseteq Reached'  BY <2>1, Onward
    <2>. QED  BY <2>1
  <1>. QED  BY <1>1, <1>2, <1>3, PTL DEF Spec, AskedOnce
=============================================================================
