----------------------------- MODULE RankQueue -----------------------------
(***************************************************************************)
(* The threads of one rank process (serve/rank.c): the IO thread that owns *)
(* the listening socket, the bounded ring of INFER jobs, the work threads  *)
(* (or, on a worker segment of a pipeline, the pipe thread), the heartbeat *)
(* thread, and the main thread that joins them.                            *)
(*                                                                         *)
(* A critical section of q_mu is one step.  The one place where q_mu stays *)
(* held between two steps is pthread_cond_wait: a work thread that found   *)
(* the ring empty holds q_mu ("check") until the wait has released it,     *)
(* because quit is also written without q_mu.                              *)
(*                                                                         *)
(* Connections carry one frame each.  PING, STAT, an unknown command and a *)
(* frame that cannot be read are answered on the spot and change nothing,  *)
(* so they are one kind, "other".  What an inference computes is the       *)
(* subject of SessionKV; here it takes engine_lock and ends.               *)
(***************************************************************************)
EXTENDS Integers, FiniteSets

CONSTANTS
    Conn,      \* client connections, each carrying one frame
    Worker,    \* work threads (serial: one, parallel: several)
    Modes,     \* kinds of rank: TRUE is a worker segment, whose only work
               \* thread runs the pipeline
    Cap,       \* RANK_JOB_CAP
    None       \* no connection / no thread (-1, NULL)

ASSUME RankQueueAssumption ==
    /\ Cap \in Nat \ {0}
    /\ Modes \subseteq BOOLEAN
    /\ None \notin Conn \cup Worker
    /\ {"io", "hb", "main"} \cap (Worker \cup {None}) = {}
    /\ IsFiniteSet(Worker) /\ Worker # {}

VARIABLES
    jobs, q_head, q_tail, q_len,   \* the ring of accepted INFER jobs
    in_flight,                     \* jobs taken from the ring, not finished
    draining, drain_fd,            \* DRAIN seen; connection waiting for OK
    quit, io_stop,                 \* volatile flags, written without q_mu too
    q_mu, waiting,                 \* holder of q_mu; threads in cond_wait
    engine_lock,                   \* holder of engine_lock
    pc,                            \* what each thread does next
    ret,                           \* where the thread goes on after a finish
    cur, dfd,                      \* connection in the thread's hands; drain
                                   \* connection claimed by the thread
    arriving, closed, answer,      \* clients: not accepted yet, closed, reply
    hbNet, svState                 \* heartbeats on the wire; the pool's view

rankVars == <<jobs, q_head, q_tail, q_len, in_flight, draining, drain_fd,
              quit, io_stop, q_mu, waiting, engine_lock, pc, ret, cur, dfd>>
vars == <<jobs, q_head, q_tail, q_len, in_flight, draining, drain_fd,
          quit, io_stop, q_mu, waiting, engine_lock, pc, ret, cur, dfd,
          arriving, closed, answer, hbNet, svState>>

ring  == <<jobs, q_head, q_tail, q_len, in_flight>>
flags == <<draining, drain_fd, quit, io_stop>>
net   == <<hbNet, svState>>
wire  == <<arriving, closed, answer>>

Slot   == 0 .. Cap - 1
Thread == Worker \cup {"io"}
All    == Thread \cup {"hb", "main"}

IoPc     == {"listen", "top", "accept", "payload", "enqueue", "beat",
             "bcast", "exited"}
FinishPc == {"finish", "finsave", "finok", "finquit"}
WorkPc   == {"loop", "check", "wait", "beat1", "infer", "running", "done",
             "beat2", "peers", "gen", "lastsave", "exited"}
Label    == IoPc \cup FinishPc \cup WorkPc
             \cup {"sleep", "exited"}          \* heartbeat thread
             \cup {"joinio", "bcast", "join"}  \* main thread

-----------------------------------------------------------------------------
\* The ring index after i.
NextSlotUnwrapped(i) == i + 1         \* mutant: no modulo
NextSlot(i) == (i + 1) % Cap

\* No room for another job.
RingFull == q_len >= Cap

\* pthread_cond_broadcast: every waiting thread is woken.
WakeNone == UNCHANGED waiting         \* mutant: the broadcast is forgotten
WakeAll == waiting' = {}

\* node.state as rank_refresh_load_locked computes it from the two counters.
NodeState == IF in_flight + q_len > 0 THEN "busy" ELSE "ready"

\* node_heartbeat: the state is read without q_mu, when the frame is built;
\* each heartbeat is a connection of its own, so they may overtake one another.
Beat == hbNet' = hbNet \cup {NodeState}

\* The connection is answered and closed by the thread that holds it.  Refusals,
\* answers on the spot and connections that broke off are one kind of reply.
CloseWith(c, reply) ==
    /\ closed' = closed \cup {c}
    /\ answer' = [answer EXCEPT ![c] = reply]

Goto(t, l) == pc' = [pc EXCEPT ![t] = l]

\* Threads a worker segment does not have count as ended.
Init ==
    /\ jobs = [i \in Slot |-> None]
    /\ q_head = 0 /\ q_tail = 0 /\ q_len = 0 /\ in_flight = 0
    /\ draining = FALSE /\ drain_fd = None
    /\ quit = FALSE /\ io_stop = FALSE
    /\ q_mu = None /\ waiting = {} /\ engine_lock = None
    /\ \E pipe \in Modes, p \in Worker :
          /\ pc = [t \in All |-> CASE t = "io"   -> "listen"
                                   [] t = "hb"   -> "sleep"
                                   [] t = "main" -> "joinio"
                                   [] OTHER      -> IF ~pipe THEN "loop"
                                                    ELSE IF t = p THEN "peers" ELSE "exited"]
          /\ ret = [t \in Thread |-> IF t = "io" THEN "accept"
                                     ELSE IF pipe THEN "exited" ELSE "loop"]
    /\ cur = [t \in Thread |-> None]
    /\ dfd = [t \in Thread |-> None]
    /\ arriving = Conn /\ closed = {}
    /\ answer = [c \in Conn |-> "none"]
    /\ hbNet = {} /\ svState = "ready"

-----------------------------------------------------------------------------
(* rank_try_finish_drain, run by the IO thread and by every work thread.   *)

\* A drain waits for its answer and every accepted job is finished.
DrainReadyIgnoresRunning ==           \* mutant: in_flight is not looked at
    draining /\ q_len = 0 /\ drain_fd # None
DrainReady == draining /\ q_len = 0 /\ in_flight = 0 /\ drain_fd # None

\* The drain connection is claimed under q_mu once nothing is queued or
\* running; any other thread then finds drain_fd empty.
FinishClaim(t) ==
    /\ pc[t] = "finish" /\ q_mu = None
    /\ IF DrainReady
       THEN /\ dfd' = [dfd EXCEPT ![t] = drain_fd]
            /\ drain_fd' = None
            /\ Goto(t, "finsave")
       ELSE Goto(t, ret[t]) /\ UNCHANGED <<drain_fd, dfd>>
    /\ UNCHANGED <<ring, draining, quit, io_stop, q_mu, waiting, engine_lock,
                   ret, cur, wire, net>>

\* rank_save_sess_kv under engine_lock.
FinishSave(t) ==
    /\ pc[t] = "finsave" /\ engine_lock = None
    /\ Goto(t, "finok")
    /\ UNCHANGED <<ring, flags, q_mu, waiting, engine_lock, cur, dfd, wire, net, ret>>

FinishReply(t) ==
    /\ pc[t] = "finok"
    /\ CloseWith(dfd[t], "ok")
    /\ dfd' = [dfd EXCEPT ![t] = None]
    /\ Goto(t, "finquit")
    /\ UNCHANGED <<ring, flags, q_mu, waiting, engine_lock, cur, arriving, net, ret>>

\* quit and io_stop are set without q_mu.
FinishQuit(t) ==
    /\ pc[t] = "finquit"
    /\ quit' = TRUE /\ io_stop' = TRUE
    /\ Goto(t, ret[t])
    /\ UNCHANGED <<ring, draining, drain_fd, q_mu, waiting, engine_lock, ret,
                   cur, dfd, wire, net>>

FinishDrain(t) ==
    FinishClaim(t) \/ FinishSave(t) \/ FinishReply(t) \/ FinishQuit(t)

-----------------------------------------------------------------------------
(* The IO thread.                                                          *)

IoListen ==
    /\ pc["io"] = "listen"
    /\ Goto("io", "top")
    /\ UNCHANGED <<ring, flags, q_mu, waiting, engine_lock, cur, dfd, wire, net, ret>>

\* sock_listen failed: the flags are set and the workers woken, without q_mu.
IoListenFail ==
    /\ pc["io"] = "listen"
    /\ quit' = TRUE /\ io_stop' = TRUE
    /\ Goto("io", "bcast")
    /\ UNCHANGED <<ring, draining, drain_fd, q_mu, waiting, engine_lock, cur,
                   dfd, wire, net, ret>>

\* The head of the loop: leave on io_stop, else try to finish a drain.
IoTop ==
    /\ pc["io"] = "top"
    /\ Goto("io", IF io_stop THEN "bcast" ELSE "finish")
    /\ ret' = [ret EXCEPT !["io"] = "accept"]
    /\ UNCHANGED <<ring, flags, q_mu, waiting, engine_lock, cur, dfd, wire, net>>

\* After the drain attempt: io_stop again, or an accept that timed out.
IoIdle ==
    /\ pc["io"] = "accept"
    /\ Goto("io", IF io_stop THEN "bcast" ELSE "top")
    /\ UNCHANGED <<ring, flags, q_mu, waiting, engine_lock, cur, dfd, wire, net, ret>>

IoTake(c) ==
    /\ pc["io"] = "accept" /\ ~io_stop
    /\ c \in arriving
    /\ arriving' = arriving \ {c}

\* PING, STAT, unknown command, bad INFER arguments, unreadable frame.
IoOther(c) ==
    /\ IoTake(c)
    /\ CloseWith(c, "other")
    /\ Goto("io", "top")
    /\ UNCHANGED <<ring, flags, q_mu, waiting, engine_lock, cur, dfd, net, ret>>

\* DRAIN or QUIT: refused while another one waits for its OK.
IoDrain(c) ==
    /\ IoTake(c) /\ q_mu = None
    /\ IF drain_fd # None
       THEN /\ CloseWith(c, "other")
            /\ Goto("io", "top")
            /\ UNCHANGED <<draining, drain_fd, quit, waiting, ret>>
       ELSE /\ draining' = TRUE /\ quit' = TRUE /\ drain_fd' = c
            /\ WakeAll
            /\ Goto("io", "finish") /\ ret' = [ret EXCEPT !["io"] = "top"]
            /\ UNCHANGED <<closed, answer>>
    /\ UNCHANGED <<ring, io_stop, q_mu, engine_lock, cur, dfd, net>>

\* rank_is_worker_seg: the work thread is the pipe thread, which never loops back.
Pipe == \E w \in Worker : ret[w] = "exited"

\* INFER: refused on a worker segment, while draining, or on a full ring;
\* otherwise the payload is read without q_mu.
IoInfer(c) ==
    /\ IoTake(c) /\ q_mu = None
    /\ IF Pipe \/ draining \/ RingFull
       THEN CloseWith(c, "other") /\ Goto("io", "top") /\ UNCHANGED cur
       ELSE /\ cur' = [cur EXCEPT !["io"] = c]
            /\ Goto("io", "payload")
            /\ UNCHANGED <<closed, answer>>
    /\ UNCHANGED <<ring, flags, q_mu, waiting, engine_lock, dfd, net, ret>>

\* The client is gone before its payload is complete.
IoPayloadLostLeaks ==                 \* mutant: the socket is not closed
    /\ pc["io"] = "payload"
    /\ cur' = [cur EXCEPT !["io"] = None]
    /\ Goto("io", "top")
    /\ UNCHANGED <<ring, flags, q_mu, waiting, engine_lock, dfd, wire, net, ret>>
IoPayloadLost ==
    /\ pc["io"] = "payload"
    /\ CloseWith(cur["io"], "other")
    /\ cur' = [cur EXCEPT !["io"] = None]
    /\ Goto("io", "top")
    /\ UNCHANGED <<ring, flags, q_mu, waiting, engine_lock, dfd, arriving, net, ret>>

IoPayload ==
    /\ pc["io"] = "payload"
    /\ Goto("io", "enqueue")
    /\ UNCHANGED <<ring, flags, q_mu, waiting, engine_lock, cur, dfd, wire, net, ret>>

\* pthread_cond_signal: one waiting thread, if there is any, is woken.
Signal == IF waiting = {} THEN UNCHANGED waiting
          ELSE \E w \in waiting : waiting' = waiting \ {w}

\* The second look under q_mu, then the job is written at the tail.
IoEnqueue ==
    /\ pc["io"] = "enqueue" /\ q_mu = None
    /\ cur' = [cur EXCEPT !["io"] = None]
    /\ IF draining \/ RingFull
       THEN /\ CloseWith(cur["io"], "other")
            /\ Goto("io", "top")
            /\ UNCHANGED <<ring, waiting>>
       ELSE /\ jobs' = [jobs EXCEPT ![q_tail] = cur["io"]]
            /\ q_tail' = NextSlot(q_tail)
            /\ q_len' = q_len + 1
            /\ Signal
            /\ Goto("io", "beat")
            /\ UNCHANGED <<q_head, in_flight, closed, answer>>
    /\ UNCHANGED <<flags, q_mu, engine_lock, dfd, arriving, net, ret>>

IoBeat ==
    /\ pc["io"] = "beat"
    /\ Beat
    /\ Goto("io", "top")
    /\ UNCHANGED <<ring, flags, q_mu, waiting, engine_lock, cur, dfd, wire, svState, ret>>

\* The listening socket is closed and the waiting threads woken.
IoExit ==
    /\ pc["io"] = "bcast"
    /\ WakeAll
    /\ Goto("io", "exited")
    /\ UNCHANGED <<ring, flags, q_mu, engine_lock, cur, dfd, wire, net, ret>>

IoStep ==
    \/ IoListen \/ IoTop \/ IoIdle \/ IoPayload \/ IoEnqueue \/ IoBeat \/ IoExit
    \/ FinishDrain("io")

\* Connections differ by nothing but what is read from them after the accept, so
\* they may as well be accepted in one fixed order.
Oldest == CHOOSE c \in arriving : TRUE
IoAccept == arriving # {} /\ \E c \in Conn : c = Oldest /\ (IoOther(c) \/ IoDrain(c) \/ IoInfer(c))

-----------------------------------------------------------------------------
(* rank_infer_work_thread.                                                 *)

\* An empty ring and no quit: q_mu is kept until cond_wait gives it back.
WorkCheck(w) ==
    /\ pc[w] = "loop" /\ q_mu = None
    /\ q_len = 0 /\ ~quit
    /\ q_mu' = w
    /\ Goto(w, "check")
    /\ UNCHANGED <<ring, flags, waiting, engine_lock, cur, dfd, wire, net, ret>>

WorkWait(w) ==
    /\ pc[w] = "check"
    /\ q_mu' = None
    /\ waiting' = waiting \cup {w}
    /\ Goto(w, "wait")
    /\ UNCHANGED <<ring, flags, engine_lock, cur, dfd, wire, net, ret>>

WorkWake(w) ==
    /\ pc[w] = "wait" /\ w \notin waiting /\ q_mu = None
    /\ Goto(w, "loop")
    /\ UNCHANGED <<ring, flags, q_mu, waiting, engine_lock, cur, dfd, wire, net, ret>>

\* cond_wait may return without a signal.
SpuriousWake(w) ==
    /\ w \in waiting
    /\ waiting' = waiting \ {w}
    /\ UNCHANGED <<ring, flags, q_mu, engine_lock, pc, cur, dfd, wire, net, ret>>

\* A work thread leaves on quit, but only once the ring is empty.
MayExitOnQuit == quit                 \* mutant: queued jobs are abandoned
MayExit == q_len = 0 /\ quit

WorkExit(w) ==
    /\ pc[w] = "loop" /\ q_mu = None
    /\ MayExit
    /\ Goto(w, "exited")
    /\ UNCHANGED <<ring, flags, q_mu, waiting, engine_lock, cur, dfd, wire, net, ret>>

\* The slot of a job that is taken is zeroed.
ClearSlot(i) == [jobs EXCEPT ![i] = None]

WorkTake(w) ==
    /\ pc[w] = "loop" /\ q_mu = None
    /\ q_len > 0
    /\ cur' = [cur EXCEPT ![w] = jobs[q_head]]
    /\ jobs' = ClearSlot(q_head)
    /\ q_head' = NextSlot(q_head)
    /\ q_len' = q_len - 1
    /\ in_flight' = in_flight + 1
    /\ Goto(w, "beat1")
    /\ UNCHANGED <<q_tail, flags, q_mu, waiting, engine_lock, dfd, wire, net, ret>>

WorkBeat(w, from, to) ==
    /\ pc[w] = from
    /\ Beat
    /\ Goto(w, to)
    /\ UNCHANGED <<ring, flags, q_mu, waiting, engine_lock, cur, dfd, wire, svState, ret>>

\* handle_infer runs with engine_lock held and answers the client itself.
WorkInfer(w) ==
    /\ pc[w] = "infer" /\ engine_lock = None
    /\ engine_lock' = w
    /\ Goto(w, "running")
    /\ UNCHANGED <<ring, flags, q_mu, waiting, cur, dfd, wire, net, ret>>

WorkAnswer(w) ==
    /\ pc[w] = "running"
    /\ engine_lock' = None
    /\ CloseWith(cur[w], "done")
    /\ cur' = [cur EXCEPT ![w] = None]
    /\ Goto(w, "done")
    /\ UNCHANGED <<ring, flags, q_mu, waiting, dfd, arriving, net, ret>>

\* in_flight after a job has been answered.
FinishedCountKept == in_flight        \* mutant: the decrement is missing
FinishedCount == in_flight - 1

WorkDone(w) ==
    /\ pc[w] = "done" /\ q_mu = None
    /\ in_flight' = FinishedCount
    /\ WakeAll
    /\ Goto(w, "beat2")
    /\ UNCHANGED <<jobs, q_head, q_tail, q_len, flags, q_mu, engine_lock, cur,
                   dfd, wire, net, ret>>

(* rank_pipe_work_thread: rounds of dist_gen under engine_lock until quit. *)

\* The loop and rank_ensure_peers give up only on quit (there is a supervisor).
PipeRound(w) ==
    /\ pc[w] = "peers" /\ ~quit /\ engine_lock = None
    /\ engine_lock' = w
    /\ Goto(w, "gen")
    /\ UNCHANGED <<ring, flags, q_mu, waiting, cur, dfd, wire, net, ret>>

\* The loop condition of the pipe thread.
PipeStops == quit

PipeQuit(w) ==
    /\ pc[w] = "peers" /\ PipeStops
    /\ Goto(w, "lastsave")
    /\ UNCHANGED <<ring, flags, q_mu, waiting, engine_lock, cur, dfd, wire, net, ret>>

PipeRoundEnd(w) ==
    /\ pc[w] = "gen"
    /\ engine_lock' = None
    /\ Goto(w, IF quit THEN "lastsave" ELSE "peers")
    /\ UNCHANGED <<ring, flags, q_mu, waiting, cur, dfd, wire, net, ret>>

PipeLastSave(w) ==
    /\ pc[w] = "lastsave" /\ engine_lock = None
    /\ Goto(w, "finish")
    /\ UNCHANGED <<ring, flags, q_mu, waiting, engine_lock, cur, dfd, wire, net, ret>>

WorkStep(w) ==
    \/ WorkCheck(w) \/ WorkWait(w) \/ WorkWake(w) \/ WorkExit(w) \/ WorkTake(w)
    \/ WorkBeat(w, "beat1", "infer") \/ WorkInfer(w) \/ WorkAnswer(w)
    \/ WorkDone(w) \/ WorkBeat(w, "beat2", "finish")
    \/ PipeRound(w) \/ PipeQuit(w) \/ PipeRoundEnd(w) \/ PipeLastSave(w)
    \/ FinishDrain(w)

-----------------------------------------------------------------------------
(* Heartbeat thread, main thread, and the supervisor's side of the wire.   *)

\* The loop reads quit between a heartbeat and the 2 s sleep, so the thread
\* either leaves at once or sends one more heartbeat after quit is set.
HbExit ==
    /\ pc["hb"] = "sleep" /\ quit
    /\ Goto("hb", "exited")
    /\ UNCHANGED <<ring, flags, q_mu, waiting, engine_lock, cur, dfd, wire, net, ret>>

HbBeatSilent ==                       \* mutant: no periodic heartbeat
    /\ pc["hb"] = "sleep"
    /\ Goto("hb", IF quit THEN "exited" ELSE "sleep")
    /\ UNCHANGED <<ring, flags, q_mu, waiting, engine_lock, cur, dfd, wire, net, ret>>
HbBeat ==
    /\ pc["hb"] = "sleep"
    /\ Beat
    /\ Goto("hb", IF quit THEN "exited" ELSE "sleep")
    /\ UNCHANGED <<ring, flags, q_mu, waiting, engine_lock, cur, dfd, wire, svState, ret>>

HbStep == HbExit \/ HbBeat

\* A heartbeat is applied by the supervisor (handle_heartbeat).
HbDeliver ==
    /\ \E s \in hbNet : hbNet' = hbNet \ {s} /\ svState' = s
    /\ UNCHANGED <<rankVars, wire>>

\* run_rank: quit and a broadcast after the IO thread has ended, no q_mu.
MainJoinIo ==
    /\ pc["main"] = "joinio" /\ pc["io"] = "exited"
    /\ quit' = TRUE
    /\ Goto("main", "bcast")
    /\ UNCHANGED <<ring, draining, drain_fd, io_stop, q_mu, waiting,
                   engine_lock, cur, dfd, wire, net, ret>>

MainBroadcast ==
    /\ pc["main"] = "bcast"
    /\ WakeAll
    /\ Goto("main", "join")
    /\ UNCHANGED <<ring, flags, q_mu, engine_lock, cur, dfd, wire, net, ret>>

MainExit ==
    /\ pc["main"] = "join"
    /\ \A t \in Worker \cup {"hb"} : pc[t] = "exited"
    /\ Goto("main", "exited")
    /\ UNCHANGED <<ring, flags, q_mu, waiting, engine_lock, cur, dfd, wire, net, ret>>

MainStep == MainJoinIo \/ MainBroadcast \/ MainExit

Next ==
    \/ IoStep \/ IoAccept \/ IoListenFail \/ IoPayloadLost
    \/ \E w \in Worker : WorkStep(w) \/ SpuriousWake(w)
    \/ HbStep \/ HbDeliver \/ MainStep

Spec == Init /\ [][Next]_vars

(***************************************************************************)
(* Every thread keeps running, an inference and a pipeline round end, and  *)
(* the supervisor keeps accepting.  A thread that waits for q_mu or for    *)
(* engine_lock gets it in the end (SF): both are held for bounded times.   *)
(* Clients owe nothing, so nothing is assumed of IoAccept.                 *)
(***************************************************************************)
Fairness ==
    /\ WF_vars(IoStep) /\ SF_vars(FinishDrain("io")) /\ SF_vars(IoEnqueue)
    /\ \A w \in Worker : SF_vars(WorkStep(w))
    /\ WF_vars(HbStep) /\ WF_vars(HbDeliver) /\ WF_vars(MainStep)

FairSpec == Spec /\ Fairness

-----------------------------------------------------------------------------
(* Properties.                                                             *)

\* Type invariant of the rank's queue and threads (struct Rank).
TypeOK ==
    /\ jobs \in [Slot -> Conn \cup {None}]
    /\ q_head \in Slot /\ q_tail \in Slot /\ q_len \in 0 .. Cap
    /\ in_flight \in Int
    /\ draining \in BOOLEAN /\ quit \in BOOLEAN /\ io_stop \in BOOLEAN
    /\ drain_fd \in Conn \cup {None}
    /\ q_mu \in Worker \cup {None} /\ engine_lock \in Worker \cup {None}
    /\ waiting \subseteq Worker
    /\ pc \in [All -> Label]
    /\ pc["io"] \in IoPc \cup FinishPc
    /\ \A w \in Worker : pc[w] \in WorkPc \cup FinishPc
    /\ ret \in [Thread -> {"accept", "top", "loop", "exited"}]
    /\ ret["io"] \in {"accept", "top"}
    /\ \A w \in Worker : ret[w] \in {"loop", "exited"}
    /\ cur \in [Thread -> Conn \cup {None}]
    /\ dfd \in [Thread -> Conn \cup {None}]
    /\ arriving \subseteq Conn /\ closed \subseteq Conn
    /\ answer \in [Conn -> {"none", "ok", "done", "other"}]
    /\ hbNet \subseteq {"ready", "busy"} /\ svState \in {"ready", "busy"}

\* Occupied slots of the ring, from the head on.
Occupied == {(q_head + k) % Cap : k \in 0 .. q_len - 1}

\* The ring never overwrites a job nor hands out an empty slot: the occupied
\* slots are exactly the q_len ones that start at q_head (jobs[], rank.c).
RingConsistent ==
    /\ q_tail = (q_head + q_len) % Cap
    /\ \A i \in Slot : (jobs[i] # None) <=> (i \in Occupied)

\* Every place in the process that holds connection c.
Holders(c) ==
    { <<"slot", i>> : i \in {i \in Slot : jobs[i] = c} }
    \cup { <<"cur", t>> : t \in {t \in Thread : cur[t] = c} }
    \cup { <<"dfd", t>> : t \in {t \in Thread : dfd[t] = c} }
    \cup (IF drain_fd = c THEN { <<"drain_fd", 0>> } ELSE {})

\* A socket is never leaked, closed twice or answered by two threads: each
\* connection is still to be accepted, or closed, or held in exactly one place
\* (job->fd ownership passes from the IO thread to the work thread).
OneHolder ==
    \A c \in Conn :
        /\ c \in arriving \cup closed => Holders(c) = {}
        /\ c \notin arriving \cup closed => \E h \in Holders(c) : Holders(c) = {h}
        /\ c \notin arriving \cap closed

\* Threads between taking a job and counting it finished.
Busy == {w \in Worker : pc[w] \in {"beat1", "infer", "running", "done"}}

\* DRAIN is answered OK only when no accepted job is queued or running, and
\* none is accepted afterwards (rank_try_finish_drain).
DrainMeansIdle ==
    (\E c \in Conn : answer[c] = "ok") =>
        /\ q_len = 0 /\ Busy = {}
        /\ \A i \in Slot : jobs[i] = None
        /\ pc["io"] \notin {"payload", "enqueue"}

\* in_flight, from which node.state and the drain decision are computed, is
\* exactly the number of work threads busy with a job.
InFlightExact == in_flight = Cardinality(Busy)

\* Every job taken into the ring is answered, drain or no drain.
JobAnswered ==
    \A c \in Conn : (\E i \in Slot : jobs[i] = c) ~> (answer[c] = "done")

\* An accepted DRAIN/QUIT is answered OK, and then the whole process ends.
DrainCompletes ==
    /\ \A c \in Conn : (drain_fd = c) ~> (answer[c] = "ok")
    /\ draining ~> (pc["main"] = "exited")

\* Heartbeats overtake one another, yet a rank that stays idle ends up ready
\* in the pool, and one that stays loaded ends up busy (2 s heartbeat thread).
PoolViewConverges ==
    /\ <>[](NodeState = "ready" /\ ~quit) => <>[](svState = "ready")
    /\ <>[](NodeState = "busy" /\ ~quit) => <>[](svState = "busy")

\* What the comment at the DRAIN handler says of the quit flag: once it is set,
\* the infer work threads exit as soon as the queue is empty.
QuitEndsWork ==
    (quit /\ q_len = 0) ~> (\A w \in Worker : pc[w] = "exited")
============================================================================
