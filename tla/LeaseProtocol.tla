--------------------------- MODULE LeaseProtocol ---------------------------
(***************************************************************************)
(* The request strategy of the rank pool: the servers of serve/server.c    *)
(* lease a group of ranks around every inference, against the supervisor   *)
(* of module Supervisor.                                                   *)
(*                                                                         *)
(* Every request is a connection thread of its server (srv_conn).  A LEASE *)
(* or RELEASE is a connection to the supervisor, which takes connections   *)
(* in order (backlog).  A caller waits 5 s for the answer: if the          *)
(* supervisor is held up for longer (Stall), the caller goes on and the    *)
(* frame it sent is handled later all the same.  A stall also makes live   *)
(* nodes late.                                                             *)
(*                                                                         *)
(* Heartbeats a thread sends while it polls and when it leaves carry the   *)
(* state of that moment and have no other effect: they are NodeBeats.      *)
(***************************************************************************)
EXTENDS Supervisor

CONSTANTS
    Req,         \* request threads
    SrvOf,       \* the server process a thread belongs to
    Stall,       \* the supervisor may be held up beyond its callers' timeouts
    MaxBacklog   \* bound: connections waiting at the supervisor

ASSUME LeaseAssumption ==
    /\ SrvOf \in [Req -> Server] /\ None \notin Req
    /\ Stall \in BOOLEAN /\ MaxBacklog \in Nat

VARIABLES
    nstate,    \* node.state of a server, as its heartbeats report it
    pc,        \* where the request thread is
    granted,   \* ranks the thread's inference runs on
    backlog    \* frames at the supervisor, with the thread that waits for
               \* the answer (None: nobody any more)

svVars == vars
reqVars == <<nstate, pc, granted, backlog>>
lvars == <<vars, nstate, pc, granted, backlog>>

Frame == [cmd : {"HEARTBEAT", "LEASE", "RELEASE"}, srv : Server, req : Req \cup {None}]

LInit ==
    /\ Init
    /\ nstate = [s \in Server |-> "ready"]
    /\ pc = [q \in Req |-> "idle"]
    /\ granted = [q \in Req |-> {}]
    /\ backlog = <<>>

Goto(q, l) == pc' = [pc EXCEPT ![q] = l]

\* The thread ends, and with it the BUSY state, whatever the others do.
Leave(q) ==
    /\ Goto(q, "idle")
    /\ nstate' = [nstate EXCEPT ![SrvOf[q]] = "ready"]

-----------------------------------------------------------------------------
(* handle_frame of the server, INFER and INFER_SESS.                       *)

\* The server reports itself busy before it leases anything.
ArriveSilent(q) ==                    \* mutant: no heartbeat before the LEASE
    /\ pc[q] = "idle" /\ live[SrvOf[q]] > 0
    /\ Goto(q, "first")
    /\ nstate' = [nstate EXCEPT ![SrvOf[q]] = "busy"]
    /\ UNCHANGED <<svVars, granted, backlog>>
Arrive(q) ==
    /\ pc[q] = "idle" /\ live[SrvOf[q]] > 0 /\ Len(backlog) < MaxBacklog
    /\ Goto(q, "first")
    /\ nstate' = [nstate EXCEPT ![SrvOf[q]] = "busy"]
    /\ backlog' = Append(backlog, [cmd |-> "HEARTBEAT", srv |-> SrvOf[q], req |-> None])
    /\ UNCHANGED <<svVars, granted>>

\* server_lease: the frame is sent, the answer awaited.
SendLease(q) ==
    /\ pc[q] \in {"first", "poll"} /\ Len(backlog) < MaxBacklog
    /\ backlog' = Append(backlog, [cmd |-> "LEASE", srv |-> SrvOf[q], req |-> q])
    /\ Goto(q, "await")
    /\ UNCHANGED <<svVars, nstate, granted>>

\* SERVER_LEASE_WAIT_MS is over: the client gets ERR, and nothing is released.
GiveUp(q) ==
    /\ pc[q] = "poll"
    /\ Leave(q)
    /\ UNCHANGED <<svVars, granted, backlog>>

\* forward_infer or forward_infer_sess has returned.
InferEnds(q) ==
    /\ pc[q] = "use"
    /\ Goto(q, "release")
    /\ granted' = [granted EXCEPT ![q] = {}]
    /\ UNCHANGED <<svVars, nstate, backlog>>

SendReleaseEarly(q) ==                \* mutant: RELEASE before the inference ends
    /\ pc[q] \in {"use", "release"} /\ Len(backlog) < MaxBacklog
    /\ backlog' = Append(backlog, [cmd |-> "RELEASE", srv |-> SrvOf[q],
                                   req |-> IF pc[q] = "use" THEN None ELSE q])
    /\ pc' = [pc EXCEPT ![q] = IF @ = "use" THEN @ ELSE "await"]
    /\ UNCHANGED <<svVars, nstate, granted>>
SendRelease(q) ==
    /\ pc[q] = "release" /\ Len(backlog) < MaxBacklog
    /\ backlog' = Append(backlog, [cmd |-> "RELEASE", srv |-> SrvOf[q], req |-> q])
    /\ Goto(q, "await")
    /\ UNCHANGED <<svVars, nstate, granted>>

\* The threads of Q stop waiting for an answer; their frames stay.
Abandon(Q) ==
    backlog' = [i \in 1 .. Len(backlog) |->
                  IF backlog[i].req \in Q THEN [backlog[i] EXCEPT !.req = None]
                                          ELSE backlog[i]]

\* No answer within 5 s.
CallTimeoutKeeps(q) ==                \* mutant: the old connection is still read
    /\ Stall /\ pc[q] = "await"
    /\ Goto(q, "poll")
    /\ UNCHANGED <<svVars, nstate, granted, backlog>>
CallTimeout(q) ==
    /\ Stall /\ pc[q] = "await"
    /\ \E i \in 1 .. Len(backlog) :
          /\ backlog[i].req = q
          /\ IF backlog[i].cmd = "LEASE" THEN Goto(q, "poll") /\ UNCHANGED nstate
                                         ELSE Leave(q)
    /\ Abandon({q})
    /\ UNCHANGED <<svVars, granted>>

-----------------------------------------------------------------------------
(* The supervisor takes the next connection.                               *)

\* An inference can only run on a group whose ranks all have a process.
Running(G) == IF \A r \in G : live[r] > 0 THEN G ELSE {}

\* What the waiting thread, if any, does with the answer to its LEASE.
LeaseAnswer(q, l, G) ==
    /\ UNCHANGED nstate
    /\ IF q = None THEN UNCHANGED <<pc, granted>>
       ELSE Goto(q, l) /\ granted' = [granted EXCEPT ![q] = G]

HandleLease ==
    LET f == Head(backlog) IN
    /\ backlog # <<>> /\ f.cmd = "LEASE"
    /\ backlog' = Tail(backlog)
    /\ IF Grants(f.srv, "request")
       THEN /\ LeaseGranted(f.srv, "request")
            /\ LeaseAnswer(f.req, "use", Running(Group(f.srv, "request")))
       ELSE UNCHANGED svVars /\ LeaseAnswer(f.req, "poll", {})

HandleRelease ==
    LET f == Head(backlog) IN
    /\ backlog # <<>> /\ f.cmd = "RELEASE"
    /\ backlog' = Tail(backlog)
    /\ Release(f.srv)
    /\ IF f.req = None THEN UNCHANGED <<nstate, pc>> ELSE Leave(f.req)
    /\ UNCHANGED granted

HandleBusyBeat ==
    LET f == Head(backlog) IN
    /\ backlog # <<>> /\ f.cmd = "HEARTBEAT"
    /\ backlog' = Tail(backlog)
    /\ IF HasRoom(f.srv) THEN HandleHeartbeat(f.srv, "busy") ELSE UNCHANGED svVars
    /\ UNCHANGED <<nstate, pc, granted>>

-----------------------------------------------------------------------------
(* Processes: the end of one takes its threads and connections along.      *)

Threads(n) == {q \in Req : SrvOf[q] = n}
Users(n) == {q \in Req : n \in granted[q]}

\* What one process of n has of S: all of it, unless there is another of the id.
PartOf(S, n) == IF live[n] > 1 THEN SUBSET S ELSE {S}

\* Node n lost a process: the end of one rank breaks the whole pipeline.
Broken(n) ==
    \E Q \in PartOf(Threads(n), n), B \in PartOf(Users(n), n) :
       /\ nstate' = [s \in Server |-> IF s = n /\ Q = Threads(n) THEN "ready" ELSE nstate[s]]
       /\ pc' = [q \in Req |-> IF q \in Q THEN "idle" ELSE pc[q]]
       /\ granted' = [q \in Req |-> IF q \in Q \cup B THEN {} ELSE granted[q]]
       /\ Abandon(Q)

NodeEnds(n) == ProcessEnds(n) /\ Broken(n)

\* A respawn kills what was left of the process, if the supervisor recorded it.
NodeHealed(n) ==
    /\ IF n \in Server THEN HealServer(n) ELSE HealRank(n)
    /\ IF AutoHeal /\ recorded[n] THEN Broken(n) ELSE UNCHANGED reqVars

\* Without a stall only a node without a process is late, and not before the
\* frames it had sent are handled.
NodeLate(n) ==
    /\ Stall \/ (live[n] = 0 /\ \A i \in 1 .. Len(backlog) : backlog[i].srv # n)
    /\ GoesLate(n)
    /\ UNCHANGED reqVars

NodeBeats(n) ==
    /\ \E st \in {"ready", "busy"} :
          (n \in Server => st = nstate[n]) /\ Heartbeat(n, st)
    /\ UNCHANGED reqVars

NodeStarts(n) == ExternalStart(n) /\ UNCHANGED reqVars

ReqStep(q) == SendLease(q) \/ InferEnds(q) \/ SendRelease(q)
SvStep == HandleLease \/ HandleRelease \/ HandleBusyBeat

LNext ==
    \/ \E q \in Req : Arrive(q) \/ ReqStep(q) \/ GiveUp(q) \/ CallTimeout(q)
    \/ SvStep
    \/ \E n \in Node : \/ NodeEnds(n) \/ NodeHealed(n) \/ NodeLate(n)
                       \/ NodeBeats(n) \/ NodeStarts(n)

LSpec == LInit /\ [][LNext]_lvars

(***************************************************************************)
(* Request threads and the supervisor keep running, a thread finds room in *)
(* the backlog (SF), an inference ends, and a node without a process is    *)
(* late in the end and is then declared dead.                              *)
(***************************************************************************)
LFairSpec ==
    /\ LSpec
    /\ \A q \in Req : SF_lvars(ReqStep(q))
    /\ WF_lvars(SvStep)
    /\ \A n \in Node : WF_lvars(NodeLate(n) /\ live[n] = 0) /\ WF_lvars(NodeHealed(n))

-----------------------------------------------------------------------------
(* Properties.                                                             *)

\* Type invariant of the request threads and of the supervisor's backlog; only a
\* thread in an inference has ranks.
LTypeOK ==
    /\ nstate \in [Server -> {"ready", "busy"}]
    /\ pc \in [Req -> {"idle", "first", "poll", "await", "use", "release"}]
    /\ granted \in [Req -> SUBSET Rank]
    /\ \A q \in Req : granted[q] # {} => pc[q] = "use"
    /\ backlog \in Seq(Frame) /\ Len(backlog) <= MaxBacklog

\* A thread that waits has exactly one frame with the supervisor, and only then:
\* no thread is answered twice or by the answer to a call it gave up, however
\* timeouts, crashes and restarts fall (server_lease, server_release).
OneAnswer ==
    \A q \in Req :
        /\ pc[q] = "await" <=> \E i \in 1 .. Len(backlog) : backlog[i].req = q
        /\ \A i, j \in 1 .. Len(backlog) :
              backlog[i].req = q /\ backlog[j].req = q => i = j /\ backlog[i].srv = SrvOf[q]

\* While an inference runs, every rank it runs on is leased to its server
\* (LEASE before, RELEASE after the inference, server.c handle_frame).
UseIsLeased ==
    \A q \in Req : pc[q] = "use" => \A r \in granted[q] : leased_by[r] = SrvOf[q]

\* What a lease is for (protocol.h, LEASE): no rank works for two servers at
\* the same time.
ExclusiveUse ==
    \A p, q \in Req : SrvOf[p] # SrvOf[q] => granted[p] \cap granted[q] = {}

\* A leased rank returns to the pool, whether its holder finishes or dies
\* (docs/serving-architecture.md, lease strategies).
LeaseReturns == \A r \in Rank : (leased_by[r] # None) ~> (leased_by[r] = None)
============================================================================
