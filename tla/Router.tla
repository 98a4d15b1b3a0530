------------------------------- MODULE Router -------------------------------
(***************************************************************************)
(* The router of serve/router.c: its table of servers, the threads that    *)
(* forward requests, the threads that handle the supervisor's              *)
(* notifications, and the main thread, which pulls a snapshot of the       *)
(* supervisor's table every few seconds.                                   *)
(*                                                                         *)
(* Every notification is a connection and a thread of its own (router_conn)*)
(* that nobody waits for: notifications may be handled in any order, and   *)
(* one whose connection fails is lost.  servers[] is protected by r->lock; *)
(* a critical section is one step that needs the lock to be free, and the  *)
(* lock stays taken where the code returns without unlocking.              *)
(***************************************************************************)
EXTENDS Integers, Sequences, FiniteSetsExt

CONSTANTS
    Srv,         \* server ids
    ModelOf,     \* the model a server serves
    Req,         \* request threads (router_conn, http_conn)
    Strategy,    \* "least" or "round-robin"
    Polls,       \* the router knows the supervisor's address (query_servers)
    MaxServers,  \* RT_MAX_SERVERS
    QueueCap,    \* --queue-cap, 0 = off
    MaxTries,    \* bound: how often router_infer looks for a ready server (60)
    MaxNotes,    \* bound: notifications in flight
    MaxWaiting,  \* bound: requests a server reports as waiting
    Counts,      \* bound: what a server may report as its requests in flight
    Main, Note,  \* the main thread; a notification thread that kept the lock
    None

ASSUME RouterAssumption ==
    /\ Strategy \in {"least", "round-robin"} /\ Polls \in BOOLEAN
    /\ {MaxServers, QueueCap, MaxTries, MaxNotes, MaxWaiting} \subseteq Nat
    /\ Counts \subseteq Int
    /\ None \notin Srv \cup Req \cup {Main, Note}
    /\ {Main, Note} \cap Req = {}
    /\ IsFiniteSet(Req)

VARIABLES
    table,       \* ids in servers[], in order
    entry,       \* state, inflight and waiting of the entries, and (history) the
                 \* figure that was last reported for inflight
    lock,        \* who holds r->lock between two steps
    rr_counter,
    req,         \* the request threads
    notes,       \* notifications that have not been handled
    snap,        \* SERVER_INFO frames the main thread has yet to read
    sv,          \* the supervisor's table: state, inflight and waiting
    notified,    \* its router_notified
    up           \* server processes that run

router == <<table, entry, lock, rr_counter>>
supervisor == <<sv, notified>>
vars == <<table, entry, lock, rr_counter, req, notes, snap, sv, notified, up>>

Models == {ModelOf[s] : s \in Srv}
Info == [state : {"ready", "busy", "dead"}, inflight : Counts \cup {0}, waiting : 0..MaxWaiting]
Idle == [pc |-> "idle", http |-> FALSE, model |-> None, srv |-> None, tries |-> 0]
NoEntry == [state |-> "dead", inflight |-> 0, waiting |-> 0, reported |-> 0]

\* The router starts while the supervisor already runs: the servers it has
\* been notified about, and their states, are arbitrary.
Init ==
    /\ table = <<>> /\ entry = [s \in Srv |-> NoEntry]
    /\ lock = None /\ rr_counter = 0
    /\ req = [q \in Req |-> Idle]
    /\ notes = {} /\ snap = {}
    /\ sv \in [Srv -> {None} \cup {[state |-> st, inflight |-> 0, waiting |-> 0] : st \in {"ready", "dead"}}]
    /\ notified = [s \in Srv |-> sv[s] # None /\ sv[s].state = "ready"]
    /\ up = {s \in Srv : notified[s]}

-----------------------------------------------------------------------------
(* The table.                                                              *)

Listed(s) == \E i \in DOMAIN table : table[i] = s
Ready(m) == SelectSeq(table, LAMBDA s : entry[s].state = "ready" /\ ModelOf[s] = m)

\* queue_snapshot: the queues of all entries, whatever their state.
Waiting == MapThenSumSet(LAMBDA i : entry[table[i]].waiting, DOMAIN table)

\* The first of the servers with the fewest requests in flight.
LeastLoaded(c) ==
    c[CHOOSE i \in DOMAIN c :
        /\ \A j \in DOMAIN c : entry[c[i]].inflight <= entry[c[j]].inflight
        /\ \A j \in 1..(i - 1) : entry[c[j]].inflight > entry[c[i]].inflight]

\* What an UPDATE or a SERVER_INFO reports about the load replaces the count.
Report(e, n, w) == [e EXCEPT !.inflight = n, !.waiting = w, !.reported = n]

\* handle_server_add, called by thread t; a full table returns with the lock.
Add(s, t) ==
    IF Listed(s)
    THEN entry' = [entry EXCEPT ![s].state = "ready"] /\ UNCHANGED <<table, lock>>
    ELSE IF Len(table) >= MaxServers
         THEN lock' = t /\ UNCHANGED <<table, entry>>
         ELSE /\ table' = Append(table, s)
              /\ entry' = [entry EXCEPT ![s] = [NoEntry EXCEPT !.state = "ready"]]
              /\ UNCHANGED lock

-----------------------------------------------------------------------------
(* Request threads: handle_client_infer, and router_infer or               *)
(* router_infer_sess for HTTP.                                             *)

Goto(q, l) == req' = [req EXCEPT ![q].pc = l]
End(q) == req' = [req EXCEPT ![q] = Idle]

\* handle_conn: over the queue limit the request is answered 429 at once.
Admitted(http) == (http /\ QueueCap > 0) => Waiting < QueueCap

Start(q, m, http) ==
    /\ req[q].pc = "idle"
    /\ http => lock = None
    /\ Admitted(http)
    /\ req' = [req EXCEPT ![q] = [Idle EXCEPT !.pc = "pick", !.http = http, !.model = m]]
    /\ UNCHANGED <<router, notes, snap, supervisor, up>>

\* pick_server finds a server: round-robin returns without unlocking.
Pick(q) ==
    LET c == Ready(req[q].model)
        k == (rr_counter + 1) % Len(c)
    IN  /\ req[q].pc \in {"pick", "poll"} /\ lock = None /\ c # <<>>
        /\ IF Strategy = "round-robin"
           THEN /\ rr_counter' = k /\ lock' = q
                /\ req' = [req EXCEPT ![q].pc = "connect", ![q].srv = c[k + 1]]
           ELSE /\ req' = [req EXCEPT ![q].pc = "connect", ![q].srv = LeastLoaded(c)]
                /\ UNCHANGED <<rr_counter, lock>>
        /\ UNCHANGED <<table, entry, notes, snap, supervisor, up>>

\* pick_server finds none: a frame is answered ERR; HTTP asks whether the
\* model is known and then tries again for half a minute.
PickNone(q) ==
    /\ req[q].pc \in {"pick", "poll"} /\ lock = None /\ Ready(req[q].model) = <<>>
    /\ CASE ~req[q].http -> End(q)
         [] req[q].http /\ req[q].pc = "pick" -> Goto(q, "known")
         [] req[q].pc = "poll" /\ req[q].tries < MaxTries -> req' = [req EXCEPT ![q].tries = @ + 1]
         [] OTHER -> End(q)
    /\ UNCHANGED <<router, notes, snap, supervisor, up>>

\* router_model_known: an unknown model is answered 404 at once.
ModelKnown(m) == \E s \in Srv : Listed(s) /\ ModelOf[s] = m

KnownForever(q) ==                    \* mutant: the tries are not counted from here on
    /\ req[q].pc = "known" /\ lock = None
    /\ IF ModelKnown(req[q].model) THEN Goto(q, "pick") ELSE End(q)
    /\ UNCHANGED <<router, notes, snap, supervisor, up>>
Known(q) ==
    /\ req[q].pc = "known" /\ lock = None
    /\ IF ModelKnown(req[q].model)
       THEN req' = [req EXCEPT ![q].pc = "poll", ![q].tries = 1] ELSE End(q)
    /\ UNCHANGED <<router, notes, snap, supervisor, up>>

\* sock_connect, and for a frame the rest of the client's prompt, which may not
\* come; then the request is sent.
Connect(q) ==
    /\ req[q].pc = "connect"
    /\ \/ req[q].srv \in up /\ Goto(q, "count")
       \/ (req[q].srv \notin up \/ ~req[q].http) /\ End(q)
    /\ UNCHANGED <<router, notes, snap, supervisor, up>>

\* The request is at the server; inflight is counted under the lock.
Count(q) ==
    /\ req[q].pc = "count" /\ lock = None
    /\ entry' = [entry EXCEPT ![req[q].srv].inflight = @ + 1]
    /\ Goto(q, "run")
    /\ UNCHANGED <<table, lock, rr_counter, notes, snap, supervisor, up>>

\* DONE, ERR or a closed connection.
Answered(q) ==
    /\ req[q].pc = "run"
    /\ Goto(q, "uncount")
    /\ UNCHANGED <<router, notes, snap, supervisor, up>>

UncountLost(q) ==                     \* mutant: the request ends without the decrement
    /\ req[q].pc = "uncount" /\ lock = None
    /\ End(q)
    /\ UNCHANGED <<router, notes, snap, supervisor, up>>
Uncount(q) ==
    /\ req[q].pc = "uncount" /\ lock = None
    /\ entry' = [entry EXCEPT ![req[q].srv].inflight = @ - 1]
    /\ End(q)
    /\ UNCHANGED <<table, lock, rr_counter, notes, snap, supervisor, up>>

-----------------------------------------------------------------------------
(* Notification threads and the main thread.                               *)

HandleAdd(n) ==
    /\ n \in notes /\ n.cmd = "ADD" /\ lock = None
    /\ Add(n.srv, Note)
    /\ notes' = notes \ {n}
    /\ UNCHANGED <<rr_counter, req, snap, supervisor, up>>

HandleDel(n) ==
    /\ n \in notes /\ n.cmd = "DEL" /\ lock = None
    /\ entry' = IF Listed(n.srv) THEN [entry EXCEPT ![n.srv].state = "dead"] ELSE entry
    /\ notes' = notes \ {n}
    /\ UNCHANGED <<table, lock, rr_counter, req, snap, supervisor, up>>

HandleUpdate(n) ==
    /\ n \in notes /\ n.cmd = "UPDATE" /\ lock = None
    /\ entry' = IF Listed(n.srv)
                THEN [entry EXCEPT ![n.srv] = Report(@, n.inflight, n.waiting)] ELSE entry
    /\ notes' = notes \ {n}
    /\ UNCHANGED <<table, lock, rr_counter, req, snap, supervisor, up>>

\* query_servers sends QUERY_SERVERS and gets the table of that moment.
Query ==
    /\ Polls /\ snap = {} /\ \E s \in Srv : sv[s] # None
    /\ snap' = {[srv |-> s, info |-> sv[s]] : s \in {x \in Srv : sv[x] # None}}
    /\ UNCHANGED <<router, req, notes, supervisor, up>>

\* A known server takes over "ready" and "dead", and the load.
TakeOver(e, info) ==
    Report([e EXCEPT !.state = IF info.state = "busy" THEN e.state ELSE info.state],
           info.inflight, info.waiting)

\* One SERVER_INFO: an unknown server is added as if it were ready.
ReadInfoListed(f) ==                  \* mutant: an unknown server is skipped
    /\ f \in snap /\ lock = None
    /\ entry' = IF Listed(f.srv)
                THEN [entry EXCEPT ![f.srv] = TakeOver(@, f.info)]
                ELSE entry
    /\ snap' = snap \ {f}
    /\ UNCHANGED <<table, lock, rr_counter, req, notes, supervisor, up>>
ReadInfo(f) ==
    /\ f \in snap /\ lock = None
    /\ IF Listed(f.srv)
       THEN /\ entry' = [entry EXCEPT ![f.srv] = TakeOver(@, f.info)]
            /\ UNCHANGED <<table, lock>>
       ELSE Add(f.srv, Main)
    /\ snap' = snap \ {f}
    /\ UNCHANGED <<rr_counter, req, notes, supervisor, up>>

\* The supervisor closes the connection before the end.
QueryCut ==
    /\ snap # {}
    /\ snap' = {}
    /\ UNCHANGED <<router, req, notes, supervisor, up>>

-----------------------------------------------------------------------------
(* The supervisor and the server processes, as far as the router sees them.*)

\* notify_routers: the connection may fail.
Send(n) == notes' = notes \/ (Cardinality(notes) < MaxNotes /\ notes' = notes \cup {n})

\* What a server may report.  Its inflight counts the requests of every router,
\* each until its lease is released, and its threads change it and node.state
\* without a lock: an update may be lost for good, and a thread that ends says
\* ready while others still run, so any figure and either state is possible.
Load == [state : {"ready", "busy"}, inflight : Counts, waiting : 0..MaxWaiting]

\* A heartbeat of a server, handled with sync_server_to_router.
Beat(s) ==
    \E l \in Load :
        /\ s \in up
        /\ sv' = [sv EXCEPT ![s] = l]
        /\ IF notified[s]
           THEN Send([cmd |-> "UPDATE", srv |-> s, inflight |-> l.inflight, waiting |-> l.waiting])
                /\ UNCHANGED notified
           ELSE IF l.state = "ready"
                THEN notified' = [notified EXCEPT ![s] = TRUE] /\ Send([cmd |-> "ADD", srv |-> s])
                ELSE UNCHANGED <<notes, notified>>
        /\ UNCHANGED <<router, req, snap, up>>

\* heal_dead: a node whose heartbeats are late.
DeclareDead(s) ==
    /\ sv[s] # None /\ sv[s].state # "dead"
    /\ sv' = [sv EXCEPT ![s].state = "dead"]
    /\ IF notified[s]
       THEN notified' = [notified EXCEPT ![s] = FALSE] /\ Send([cmd |-> "DEL", srv |-> s])
       ELSE UNCHANGED <<notes, notified>>
    /\ UNCHANGED <<router, req, snap, up>>

Process(s) ==
    /\ up' = IF s \in up THEN up \ {s} ELSE up \cup {s}
    /\ UNCHANGED <<router, req, notes, snap, supervisor>>

ThreadStep(q) ==
    Pick(q) \/ PickNone(q) \/ Known(q) \/ Connect(q) \/ Count(q) \/ Answered(q) \/ Uncount(q)

Handle(n) == HandleAdd(n) \/ HandleDel(n) \/ HandleUpdate(n)

Next ==
    \/ \E q \in Req : (\E m \in Models, h \in BOOLEAN : Start(q, m, h)) \/ ThreadStep(q)
    \/ \E n \in notes : Handle(n)
    \/ Query \/ (\E f \in snap : ReadInfo(f)) \/ QueryCut
    \/ \E s \in Srv : Beat(s) \/ DeclareDead(s) \/ Process(s)

Spec == Init /\ [][Next]_vars

\* Threads run; a server answers or its connection closes; the main thread
\* polls, and a snapshot is not cut off for ever; live servers send heartbeats.
ReadsInfo(s) == \E f \in snap : f.srv = s /\ ReadInfo(f)
FairSpec ==
    /\ Spec
    /\ \A q \in Req : WF_vars(ThreadStep(q))
    /\ WF_vars(\E n \in notes : Handle(n))
    /\ WF_vars(Query) /\ \A s \in Srv : SF_vars(ReadsInfo(s)) /\ WF_vars(Beat(s))

-----------------------------------------------------------------------------
(* Properties.                                                             *)

\* The type invariant: servers[] never holds an id twice nor more ids than it
\* has room for, and a thread that has chosen a server has chosen an entry.
TypeOK ==
    /\ table \in Seq(Srv) /\ Len(table) <= MaxServers
    /\ \A i, j \in DOMAIN table : table[i] = table[j] => i = j
    /\ entry \in [Srv -> [state : {"ready", "dead"}, inflight : Int, waiting : 0..MaxWaiting,
                           reported : Counts \cup {0}]]
    /\ lock \in Req \cup {None, Main, Note} /\ rr_counter \in 0..Cardinality(Srv)
    /\ req \in [Req -> [pc : {"idle", "pick", "known", "poll", "connect", "count", "run", "uncount"},
                        http : BOOLEAN, model : Models \cup {None}, srv : Srv \cup {None},
                        tries : 0..MaxTries]]
    /\ \A q \in Req : req[q].srv # None => Listed(req[q].srv) /\ ModelOf[req[q].srv] = req[q].model
    /\ \A f \in snap : f.info \in Info
    /\ sv \in [Srv -> Info \cup {None}] /\ notified \in [Srv -> BOOLEAN] /\ up \subseteq Srv

\* Request threads and the supervisor's reports write the same counter without
\* knowing of each other: a report replaces what the threads have counted, and
\* they then count themselves out of it.  Whatever is reported, the count that
\* least-inflight compares stays within the number of requests of the figure
\* reported last: what the router itself adds never drifts further
\* (router_infer, SERVER_UPDATE, query_servers).
DriftBounded ==
    \A s \in Srv : entry[s].inflight - entry[s].reported \in (-Cardinality(Req))..Cardinality(Req)

\* Every request thread ends: nobody waits for r->lock for ever.
ForwardEnds == \A q \in Req : req[q].pc # "idle" ~> req[q].pc = "idle"

Alive(s) == s \in up /\ sv[s] # None /\ sv[s].state # "dead"
DeadFor(s) == sv[s] # None /\ sv[s].state = "dead"

\* A server that pick_server may choose.
Candidate(s) == Listed(s) /\ entry[s].state = "ready"
Idles(s) == Alive(s) /\ \A q \in Req : req[q].srv # s

\* Whatever notifications were lost or came out of order, and although the
\* supervisor may have announced it before this router started: a server that stays
\* alive ends up inside or outside the candidates of pick_server for good, inside
\* unless it is reported busy again and again (a snapshot that says busy revives no
\* dead entry); one that stays dead ends up outside (query_servers first adds it as
\* ready).  The count, which router threads and the supervisor's reports both write,
\* becomes the figure the supervisor has, right or not, once that figure is stable and
\* this router has no request there.
RouterConverges ==
    \A s \in Srv : /\ <>[]Alive(s) => <>[]Candidate(s) \/ <>[]~Candidate(s)
                   /\ <>[](Alive(s) /\ sv[s].state = "ready") => <>[]Candidate(s)
                   /\ <>[]DeadFor(s) => <>[](entry[s].state = "dead")
                   /\ \A n \in Counts : <>[](Idles(s) /\ sv[s].inflight = n) => <>[](entry[s].inflight = n)

=============================================================================
