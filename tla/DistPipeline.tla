---------------------------- MODULE DistPipeline ----------------------------
(***************************************************************************)
(* The layer pipeline between the ranks of one group: core/dist.c with its *)
(* callers in rank.c (the pipeline branch of handle_infer_cache on rank 0, *)
(* rank_pipe_work_thread on the others).                                   *)
(*                                                                         *)
(* Every rank owns some layers and the KV rows of these layers.  For one   *)
(* request the ranks connect to a ring: rank r sends activations to r + 1, *)
(* the last one sends logits to rank 0.  Rank 0 tells the others the       *)
(* session and the position it continues from; every rank trusts the rows  *)
(* it has up to there.  As in SessionKV a row is the token it was computed *)
(* from, so the cache of a rank is a sequence of tokens and my_pos (on     *)
(* rank 0: cache_pos) its length: rows behind it are always written before *)
(* they are read.                                                          *)
(*                                                                         *)
(* A frame counts as sent once it is in the socket, which holds a few      *)
(* frames; a send on a connection the peer has closed fails or is lost.    *)
(* Requests without a session are in SessionKV (PlainInfer) and left out.  *)
(***************************************************************************)
EXTENDS Integers, Sequences

CONSTANTS
    Key,        \* session keys
    Token,      \* tokens of prompts and answers
    Eos,        \* end-of-sequence token
    Deltas,     \* what a request adds to the prefix it continues from
    Batch,      \* PP_XB
    MaxGen,     \* max_tokens of a request
    MaxSeq,     \* engine.max_seq
    Conn,       \* bound: connections that exist at a time
    MaxCrash,   \* bound: crashes in a behaviour
    Setups,     \* the deployments and failures considered, see Setup
    None, Bad   \* nothing; a file whose writer died half-way

\* segs: dist_ranks; cacheDir: cache_dir is configured; crash: the ranks that may
\* crash; quits: clients may go away; idle: more than 100 s may pass between two
\* requests, which is how long sock_connect tries; window: the frames a socket holds,
\* which depends on the model and the length of prompts.
Setup == [segs : Nat \ {0, 1}, cacheDir : BOOLEAN, crash : SUBSET Nat,
          quits : BOOLEAN, idle : BOOLEAN, window : Nat \ {0}]

ASSUME PipelineAssumption ==
    /\ Batch \in Nat \ {0} /\ MaxGen \in Nat /\ MaxSeq \in Nat
    /\ MaxCrash \in Nat
    /\ Setups \subseteq Setup /\ None \notin Key \cup Conn /\ Conn \subseteq Nat

VARIABLES
    setup,      \* which deployment this is
    crashes,    \* how many there were
    pc,         \* where each rank is in its round
    listening,  \* ranks whose pipe port is open
    backlog,    \* connections at such a port that are not accepted yet
    conn,       \* the connections
    out, in,    \* the one a rank sends on, the one it receives from
    kv,         \* cached tokens of each rank
    key,        \* cache_key
    file,       \* <key>.rN.kv
    known,      \* what the server knows of a session
    round,      \* the request on rank 0
    job         \* the handshake or frame a worker is busy with

net  == <<listening, backlog, conn, out, in>>
vars == <<setup, crashes, pc, net, kv, key, file, known, round, job>>

Rank == 0 .. setup.segs - 1
Last == setup.segs - 1
Succ(r) == (r + 1) % setup.segs
Least(m, n) == IF m < n THEN m ELSE n
Take(q, n) == SubSeq(q, 1, Least(n, Len(q)))
Drop(q, n) == SubSeq(q, n + 1, Len(q))
IsFile(f) == f \notin {None, Bad}

NoConn  == [to |-> None, src |-> FALSE, dst |-> "closed", q |-> <<>>]
NoRound == [todo |-> <<>>, gen |-> 0, cur |-> None, pend |-> FALSE, ok |-> TRUE]
NoJob   == [frame |-> None, ok |-> TRUE]

Init ==
    /\ setup \in Setups /\ crashes = 0
    /\ pc = [r \in Rank |-> IF r = 0 THEN "idle" ELSE "init"]
    /\ listening = {} /\ backlog = [r \in Rank |-> <<>>]
    /\ conn = [c \in Conn |-> NoConn]
    /\ out = [r \in Rank |-> None] /\ in = [r \in Rank |-> None]
    /\ kv = [r \in Rank |-> <<>>] /\ key = [r \in Rank |-> None]
    /\ file = [r \in Rank |-> [k \in Key |-> None]]
    /\ known = [k \in Key |-> <<>>]
    /\ round = NoRound
    /\ job = [r \in Rank |-> NoJob]

-----------------------------------------------------------------------------
(* Connections.                                                            *)

\* Closing one end; a connection with both ends closed is free again.
SrcClosed(cs, c) ==
    IF c = None THEN cs
    ELSE IF cs[c].dst \in {"closed", "leaked"} THEN [cs EXCEPT ![c] = NoConn]
    ELSE [cs EXCEPT ![c].src = FALSE]
DstClosed(cs, c) ==
    IF c = None THEN cs
    ELSE IF ~cs[c].src THEN [cs EXCEPT ![c] = NoConn]
    ELSE [cs EXCEPT ![c].dst = "closed", ![c].q = <<>>]

\* A closed port resets what waits at it.
PortClosed(cs, r) ==
    [c \in Conn |-> IF cs[c].to = r /\ cs[c].dst = "queued" THEN DstClosed(cs, c)[c] ELSE cs[c]]

\* dist_close of rank r.
Closed(cs, r) == DstClosed(SrcClosed(cs, out[r]), in[r])

\* sock_listen and sock_connect: a connection is made as soon as the peer
\* listens, whether or not it ever accepts.
Listen(r) ==
    /\ listening' = listening \cup {r}
    /\ UNCHANGED <<backlog, conn, out, in>>
Connect(r) ==
    /\ Succ(r) \in listening
    /\ LET free == {c \in Conn : conn[c] = NoConn}
           c == CHOOSE x \in free : \A y \in free : x <= y
       IN  /\ free # {}
           /\ conn' = [conn EXCEPT ![c] = [to |-> Succ(r), src |-> TRUE,
                                           dst |-> "queued", q |-> <<>>]]
           /\ out' = [out EXCEPT ![r] = c]
           /\ backlog' = [backlog EXCEPT ![Succ(r)] = Append(@, c)]
    /\ UNCHANGED <<listening, in>>

\* dist_accept_wait; the port stays open only if shut is FALSE.
Accept(r, shut) ==
    /\ backlog[r] # <<>>
    /\ LET c == Head(backlog[r])
           open == [conn EXCEPT ![c].dst = "open"]
       IN  /\ in' = [in EXCEPT ![r] = c]
           /\ conn' = IF shut THEN PortClosed(open, r) ELSE open
    /\ backlog' = [backlog EXCEPT ![r] = IF shut THEN <<>> ELSE Tail(@)]
    /\ listening' = IF shut THEN listening \ {r} ELSE listening
    /\ UNCHANGED out

\* dist_send_*: the frame is in the socket, or lost behind a closed end.
Sent(r, f) ==
    LET c == out[r] IN
    /\ conn[c].dst = "closed" \/ Len(conn[c].q) < setup.window
    /\ conn' = IF conn[c].dst = "closed" THEN conn ELSE [conn EXCEPT ![c].q = Append(@, f)]
    /\ UNCHANGED <<listening, backlog, out, in>>
NotSent(r) == conn[out[r]].dst = "closed" /\ UNCHANGED net

\* xrecv: the next frame, or the end of the connection.
Frame(r) == Head(conn[in[r]].q)
Received(r) ==
    /\ conn[in[r]].q # <<>>
    /\ conn' = [conn EXCEPT ![in[r]].q = Tail(@)]
    /\ UNCHANGED <<listening, backlog, out, in>>
NotReceived(r) == conn[in[r]].q = <<>> /\ ~conn[in[r]].src /\ UNCHANGED net

Goto(r, l) == pc' = [pc EXCEPT ![r] = l]
At(r, l) == pc[r] = l

-----------------------------------------------------------------------------
(* Rank 0.                                                                 *)

\* The cache a request starts from (handle_infer_cache).
Loaded(k, resume) ==
    IF k = key[0] THEN kv[0]
    ELSE IF setup.cacheDir /\ resume > 0 /\ IsFile(file[0][k]) /\ Len(file[0][k]) >= resume
         THEN Take(file[0][k], resume) ELSE <<>>

\* A request continues what the server knows of a session at any earlier point.
\* A position rank 0 does not have is refused without a round.
Request(k, resume, delta) ==
    LET have == Loaded(k, resume)
        old  == IF setup.cacheDir /\ key[0] \notin {None, k}
                THEN [file EXCEPT ![0][key[0]] = kv[0]] ELSE file
    IN  /\ At(0, "idle")
        /\ known' = [known EXCEPT ![k] = Take(@, resume)]
        /\ key' = [key EXCEPT ![0] = k]
        /\ IF resume > Len(have)
           THEN /\ kv' = [kv EXCEPT ![0] = <<>>]
                /\ file' = IF setup.cacheDir THEN [old EXCEPT ![0][k] = None] ELSE old
                /\ UNCHANGED <<pc, round, net>>
           ELSE /\ kv' = [kv EXCEPT ![0] = Take(have, resume)]
                /\ file' = old
                /\ IF resume + Len(delta) > MaxSeq
                   THEN UNCHANGED <<pc, round, net>>
                   ELSE /\ round' = [NoRound EXCEPT !.todo = delta]
                        /\ Goto(0, "connect") /\ Listen(0)
        /\ UNCHANGED <<setup, crashes, job>>
Requests ==
    \E k \in Key, delta \in Deltas : \E n \in 0 .. Len(known[k]) : Request(k, n, delta)

\* dist_init of rank 0: connect to rank 1, wait for the last rank.
Abort(r) ==
    /\ listening' = listening \ {r} /\ backlog' = [backlog EXCEPT ![r] = <<>>]
    /\ conn' = PortClosed(Closed(conn, r), r)
    /\ out' = [out EXCEPT ![r] = None] /\ in' = [in EXCEPT ![r] = None]
Setting0 ==
    \/ At(0, "connect") /\ Connect(0) /\ Goto(0, "accept") /\ UNCHANGED round
    \/ At(0, "connect") /\ 1 \notin listening /\ Abort(0) /\ Goto(0, "idle") /\ round' = NoRound
    \/ At(0, "accept") /\ Accept(0, TRUE) /\ Goto(0, "sess") /\ UNCHANGED round
Setting ==
    Setting0 /\ UNCHANGED <<setup, crashes, kv, key, file, known, job>>

\* Something failed: no more frames but DONE.
Fail0 == Goto(0, "done") /\ round' = [round EXCEPT !.ok = FALSE] /\ UNCHANGED kv
X(ctx, pos) == [type |-> "X", ctx |-> ctx, pos |-> pos, ok |-> TRUE]

SendSess ==
    /\ At(0, "sess")
    /\ \/ /\ Sent(0, [type |-> "SESS", key |-> key[0], pos |-> Len(kv[0])])
          /\ Goto(0, "fill") /\ UNCHANGED <<round, kv>>
       \/ NotSent(0) /\ Fail0

\* One batch of the prompt; its progress report may find the client gone.
\* Logits are collected after every batch but the last.
Fill ==
    LET n   == Least(Batch, Len(round.todo))
        ctx == kv[0] \o Take(round.todo, n)
        rest == Drop(round.todo, n)
    IN  /\ At(0, "fill")
        /\ \/ /\ Sent(0, X(ctx, Len(kv[0])))
              /\ kv' = [kv EXCEPT ![0] = ctx]
              /\ \/ round' = [round EXCEPT !.todo = rest]
                    /\ Goto(0, IF rest = <<>> THEN "decode" ELSE "more")
                 \/ setup.quits /\ round' = [round EXCEPT !.ok = FALSE] /\ Goto(0, "done")
           \/ NotSent(0) /\ Fail0
More ==
    /\ At(0, "more")
    /\ \/ /\ Received(0) /\ Goto(0, "fill") /\ UNCHANGED <<round, kv>>
       \/ NotReceived(0) /\ Fail0

\* The end of the loop: the limit or a full cache.  Logits on their way are read.
Stop == round.gen >= MaxGen \/ Len(kv[0]) >= MaxSeq
Leave ==
    /\ At(0, "decode") /\ Stop
    /\ Goto(0, IF round.pend THEN "flush" ELSE "eos")
    /\ UNCHANGED <<round, kv, net>>

\* Logits, sampling and the own layers of the next token.
SampledTo(t) ==
    /\ round' = [round EXCEPT !.pend = FALSE, !.cur = t]
    /\ Goto(0, IF t = Eos THEN "eos" ELSE "send")
Decode ==
    /\ At(0, "decode") /\ ~Stop
    /\ \/ Received(0) /\ (\E t \in Token \cup {Eos} : SampledTo(t)) /\ UNCHANGED kv
       \/ NotReceived(0) /\ Fail0

\* The next frame, then the token to the client, who may be gone.
SendNext ==
    LET ctx == Append(kv[0], round.cur) IN
    /\ At(0, "send")
    /\ \/ /\ Sent(0, X(ctx, Len(kv[0])))
          /\ \/ /\ kv' = [kv EXCEPT ![0] = ctx]
                /\ round' = [round EXCEPT !.gen = @ + 1, !.pend = TRUE, !.cur = None]
                /\ Goto(0, "decode")
             \/ setup.quits /\ Fail0
       \/ NotSent(0) /\ Fail0

Flush(at, then) ==
    /\ At(0, at) /\ (Received(0) \/ NotReceived(0))
    /\ Goto(0, then) /\ UNCHANGED <<round, kv>>

EosNotCounted ==                      \* mutant: pos stays behind the eos
    /\ At(0, "eos") /\ UNCHANGED <<round, kv>>
    /\ IF Len(kv[0]) >= MaxSeq THEN Goto(0, "done") /\ UNCHANGED net
       ELSE \/ Sent(0, X(Append(kv[0], Eos), Len(kv[0]))) /\ Goto(0, "eosflush")
            \/ NotSent(0) /\ Goto(0, "done")

\* The eos of the session, if there is room for it.
SendEos ==
    LET ctx == Append(kv[0], Eos) IN
    /\ At(0, "eos") /\ UNCHANGED round
    /\ IF Len(kv[0]) >= MaxSeq THEN Goto(0, "done") /\ UNCHANGED <<kv, net>>
       ELSE \/ Sent(0, X(ctx, Len(kv[0]))) /\ kv' = [kv EXCEPT ![0] = ctx] /\ Goto(0, "eosflush")
            \/ NotSent(0) /\ Goto(0, "done") /\ UNCHANGED kv

MasterRound == SendSess \/ Fill \/ More \/ Leave \/ Decode \/ SendNext
               \/ Flush("flush", "eos") \/ SendEos \/ Flush("eosflush", "done")
Master == MasterRound /\ UNCHANGED <<setup, crashes, key, file, known, job>>

\* DONE and dist_close; then the cache is saved and the server told.
FinishWith(cs) ==
    /\ conn' = Closed(cs, 0)
    /\ out' = [out EXCEPT ![0] = None] /\ in' = [in EXCEPT ![0] = None]
    /\ UNCHANGED <<listening, backlog>>
Finish ==
    LET c == out[0] IN
    /\ At(0, "done")
    /\ IF conn[c].dst = "closed" THEN FinishWith(conn)
       ELSE /\ Len(conn[c].q) < setup.window
            /\ FinishWith([conn EXCEPT ![c].q = Append(@, [type |-> "DONE"])])
    /\ Goto(0, IF round.ok THEN "save" ELSE "idle")
    /\ round' = NoRound
    /\ UNCHANGED <<setup, crashes, kv, key, file, known, job>>
Answer ==
    /\ At(0, "save") /\ Goto(0, "idle")
    /\ file' = IF setup.cacheDir /\ kv[0] # <<>> THEN [file EXCEPT ![0][key[0]] = kv[0]] ELSE file
    /\ known' = [known EXCEPT ![key[0]] = kv[0]]
    /\ UNCHANGED <<setup, crashes, net, kv, key, round, job>>

-----------------------------------------------------------------------------
(* The other ranks.                                                        *)

\* dist_init: listen; connect down, except for the last rank; accept; the last
\* rank then connects back to rank 0, which listens only during a round.
Open(r) == At(r, "init") /\ Listen(r) /\ Goto(r, IF r < Last THEN "connect" ELSE "accept")
ConnectDown(r) == At(r, "connect") /\ Connect(r) /\ Goto(r, "accept")
AcceptUp(r) == At(r, "accept") /\ Accept(r, r < Last) /\ Goto(r, IF r < Last THEN "sess" ELSE "back")
ConnectBack(r) ==
    /\ At(r, "back") /\ Connect(r) /\ Goto(r, "close")
ShutPort(r) ==
    /\ At(r, "close") /\ Goto(r, "sess")
    /\ listening' = listening \ {r} /\ backlog' = [backlog EXCEPT ![r] = <<>>]
    /\ conn' = PortClosed(conn, r) /\ UNCHANGED <<out, in>>
\* 100 s without rank 0: the port is closed, the accepted connection is not.
GiveUp(r) ==
    /\ At(r, "back") /\ 0 \notin listening
    /\ setup.idle \/ ~conn[in[r]].src
    /\ Goto(r, "init")
    /\ listening' = listening \ {r} /\ backlog' = [backlog EXCEPT ![r] = <<>>]
    /\ conn' = LET cs == PortClosed(conn, r)
               IN  IF cs[in[r]].src THEN [cs EXCEPT ![in[r]].dst = "leaked"]
                   ELSE [cs EXCEPT ![in[r]] = NoConn]
    /\ in' = [in EXCEPT ![r] = None] /\ UNCHANGED out

WorkerInit(r) ==
    /\ Open(r) \/ ConnectDown(r) \/ AcceptUp(r) \/ ConnectBack(r) \/ ShutPort(r) \/ GiveUp(r)
    /\ UNCHANGED <<setup, crashes, kv, key, file, known, round, job>>

\* After the handshake: the rows are reloaded for the session, then cut back to
\* the position of rank 0; a rank that has fewer rows gives them up and fails.
HasKv(r, k) == IF ~setup.cacheDir THEN kv[r] ELSE IF IsFile(file[r][k]) THEN file[r][k] ELSE <<>>
HandshakeTrusts(r, k, pos) ==         \* mutant: rows are kept without comparing
    /\ kv' = [kv EXCEPT ![r] = Take(HasKv(r, k), Least(pos, Len(HasKv(r, k))))]
    /\ job' = [job EXCEPT ![r] = NoJob] /\ UNCHANGED file
Handshake(r, k, pos) ==
    LET have == HasKv(r, k)
        fits == pos <= Len(have)
    IN  /\ kv' = [kv EXCEPT ![r] = IF fits THEN Take(have, pos) ELSE <<>>]
        /\ job' = [job EXCEPT ![r] = [NoJob EXCEPT !.ok = job[r].ok /\ fits]]
        /\ file' = IF ~fits /\ setup.cacheDir THEN [file EXCEPT ![r][k] = None] ELSE file

\* dist_recv_sess; a middle rank passes the handshake on before its own part.
RecvSess(r) ==
    /\ At(r, "sess") /\ UNCHANGED file
    /\ \/ /\ Received(r) /\ job' = [job EXCEPT ![r].frame = Frame(r)]
          /\ key' = [key EXCEPT ![r] = Frame(r).key]
          /\ Goto(r, IF r < Last THEN "pass" ELSE "shake")
       \/ /\ NotReceived(r) /\ job' = [job EXCEPT ![r].ok = FALSE] /\ UNCHANGED key
          /\ Goto(r, "recv")
    /\ UNCHANGED kv
PassSess(r) ==
    /\ At(r, "pass") /\ Goto(r, "shake") /\ UNCHANGED <<kv, key, file>>
    /\ \/ Sent(r, job[r].frame) /\ UNCHANGED job
       \/ NotSent(r) /\ job' = [job EXCEPT ![r].ok = FALSE]
Shake(r) ==
    /\ At(r, "shake") /\ Goto(r, "recv")
    /\ Handshake(r, job[r].frame.key, job[r].frame.pos)
    /\ UNCHANGED <<key, net>>

RecvFrameSilent(r) ==                 \* mutant: a failed rank drops frames and waits on
    /\ At(r, "recv") /\ UNCHANGED <<kv, key, file>>
    /\ \/ /\ Received(r)
          /\ IF Frame(r).type = "DONE" THEN Goto(r, "done") /\ UNCHANGED job
             ELSE IF ~job[r].ok THEN UNCHANGED <<pc, job>>
             ELSE Goto(r, "forward") /\ job' = [job EXCEPT ![r].frame = Frame(r)]
       \/ NotReceived(r) /\ Goto(r, "end") /\ UNCHANGED job

\* dist_recv_xb: a frame, DONE, or the end.  A failed rank leaves with the
\* first frame it gets.
RecvFrame(r) ==
    /\ At(r, "recv") /\ UNCHANGED <<kv, key, file>>
    /\ \/ /\ Received(r)
          /\ IF Frame(r).type = "DONE" THEN Goto(r, "done") /\ UNCHANGED job
             ELSE IF ~job[r].ok THEN Goto(r, "end") /\ UNCHANGED job
             ELSE Goto(r, "forward") /\ job' = [job EXCEPT ![r].frame = Frame(r)]
       \/ NotReceived(r) /\ Goto(r, "end") /\ UNCHANGED job

\* The own layers, then the activations to the next rank or the logits to rank 0.
\* my_pos moves only once they are sent.
Context(r) == Take(kv[r], job[r].frame.pos) \o Drop(job[r].frame.ctx, job[r].frame.pos)
Result(r) ==
    LET f == job[r].frame IN
    [f EXCEPT !.ok = @ /\ Context(r) = f.ctx, !.type = IF r = Last THEN "L" ELSE "X"]
Advance(r) == kv' = [kv EXCEPT ![r] = Context(r)]
Forward(r) ==
    /\ At(r, "forward") /\ UNCHANGED <<key, file>>
    /\ \/ Sent(r, Result(r)) /\ Advance(r) /\ Goto(r, "recv") /\ UNCHANGED job
       \/ NotSent(r) /\ Goto(r, "end") /\ UNCHANGED <<kv, job>>
PassDone(r) ==
    /\ At(r, "done") /\ Goto(r, "end") /\ UNCHANGED <<kv, key, file, job>>
    /\ IF r < Last THEN Sent(r, [type |-> "DONE"]) \/ NotSent(r) ELSE UNCHANGED net

\* dist_close and rank_save_sess_kv, then the next round.
EndRound(r) ==
    /\ At(r, "end") /\ Goto(r, "init")
    /\ conn' = Closed(conn, r)
    /\ out' = [out EXCEPT ![r] = None] /\ in' = [in EXCEPT ![r] = None]
    /\ file' = IF setup.cacheDir /\ key[r] # None /\ kv[r] # <<>>
               THEN [file EXCEPT ![r][key[r]] = kv[r]] ELSE file
    /\ job' = [job EXCEPT ![r] = NoJob]
    /\ UNCHANGED <<listening, backlog, kv, key>>

WorkerRound(r) ==
    /\ \/ RecvSess(r) \/ PassSess(r) \/ Shake(r) \/ RecvFrame(r) \/ Forward(r)
       \/ PassDone(r) \/ EndRound(r)
    /\ UNCHANGED <<setup, crashes, known, round>>
Worker(r) == r # 0 /\ (WorkerInit(r) \/ WorkerRound(r))

-----------------------------------------------------------------------------
(* Crashes.                                                                *)

\* All sockets of a process close with it; a file it was writing is torn.
Crash(r) ==
    /\ r \in setup.crash /\ ~At(r, "dead")
    /\ crashes < MaxCrash /\ crashes' = crashes + 1
    /\ Goto(r, "dead")
    /\ listening' = listening \ {r} /\ backlog' = [backlog EXCEPT ![r] = <<>>]
    /\ conn' = [c \in Conn |->
                  LET cs == PortClosed(Closed(conn, r), r)
                  IN  IF cs[c].to = r /\ cs[c].dst = "leaked" THEN DstClosed(cs, c)[c] ELSE cs[c]]
    /\ out' = [out EXCEPT ![r] = None] /\ in' = [in EXCEPT ![r] = None]
    /\ kv' = [kv EXCEPT ![r] = <<>>] /\ key' = [key EXCEPT ![r] = None]
    /\ \/ UNCHANGED file
       \/ /\ setup.cacheDir /\ pc[r] \in {"save", "end"} /\ key[r] # None /\ kv[r] # <<>>
          /\ file' = [file EXCEPT ![r][key[r]] = Bad]
    /\ round' = IF r = 0 THEN NoRound ELSE round
    /\ job' = [job EXCEPT ![r] = NoJob]
    /\ UNCHANGED <<setup, known>>
Restart(r) ==
    /\ At(r, "dead") /\ Goto(r, IF r = 0 THEN "idle" ELSE "init")
    /\ UNCHANGED <<setup, crashes, net, kv, key, file, known, round, job>>

Next == Requests \/ Setting \/ Master \/ Finish \/ Answer
        \/ \E r \in Rank : Worker(r) \/ Crash(r) \/ Restart(r)
Spec == Init /\ [][Next]_vars

\* Every thread goes on, and a rank that died is started again.
FairSpec ==
    /\ Spec /\ WF_vars(Setting \/ Master \/ Finish \/ Answer)
    /\ \A r \in 0 .. 2 : WF_vars(r \in Rank /\ Worker(r)) /\ WF_vars(r \in Rank /\ Restart(r))

-----------------------------------------------------------------------------
(* Properties.                                                             *)

\* Rank 0 samples from logits that every segment computed from exactly the tokens
\* of the session (dist_gen, engine_sample): after cuts, reloads, crashes and failed rounds,
\* no segment contributes rows of another text, and no logits of an earlier
\* token are taken for those of the last one.
SampledFromSession ==
    (At(0, "decode") /\ ~Stop /\ conn[in[0]].q # <<>>) =>
        Frame(0).type = "L" /\ Frame(0).ok /\ Frame(0).ctx = kv[0]

\* When a round went well and nobody crashed in it, every worker has the rows of
\* rank 0 for the next turn (dist_gen, the eos of the session).  Behind a cache that is full nothing is
\* said of the last batch: nobody read its logits.
Quiet == \A r \in Rank : pc[r] \in {"idle", "init", "accept", "connect", "save"}
Agree(s, t, n) == \A i \in 1 .. n : i \in DOMAIN s => s[i] = t[i]
SegmentsCommit ==
    (At(0, "save") /\ Quiet /\ \A r \in Rank : key[r] = key[0]) =>
        \A r \in Rank : IF Len(kv[0]) < MaxSeq THEN kv[r] = kv[0]
                        ELSE Agree(kv[r], kv[0], MaxSeq - Batch)

\* A round ends.
RoundEnds == ~At(0, "idle") ~> At(0, "idle")

\* A round ends, or the two ends of the ring miss each other, which nothing limits:
\* the last rank died between its accept and its connect (dist_accept_wait), or rank 0
\* accepted a connection of an earlier round and closed its port (dist_init).
Orphaned ==
    \/ At(0, "accept") /\ conn[out[0]].dst = "closed"
    \/ At(Last, "back") /\ 0 \notin listening /\ in[0] # None
RoundEndsOrOrphaned == ~At(0, "idle") ~> (At(0, "idle") \/ Orphaned)
=============================================================================
