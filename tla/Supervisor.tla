----------------------------- MODULE Supervisor -----------------------------
(***************************************************************************)
(* The supervisor (serve/supervisor.c): one thread that handles one frame  *)
(* at a time.  It keeps the table of nodes in registration order, the      *)
(* leases of the rank pool, what the router has been told, and the record  *)
(* of the processes it spawned.                                            *)
(*                                                                         *)
(* Time is abstract: a node is late when SV_HB_TIMEOUT has passed since    *)
(* its last heartbeat, and nodes become late one by one.  One pass of      *)
(* heal_dead over several late nodes is as many Heal steps in a row; a     *)
(* pass with one late node is one.  LOADING and BUSY are treated alike by  *)
(* every handler and are both "busy".  QUERY_SERVERS and QUERY_RANKS only  *)
(* read the table.                                                         *)
(*                                                                         *)
(* The environment is as general as it can be: any live process may send   *)
(* any frame at any time.  LeaseProtocol replaces it by the real servers.  *)
(***************************************************************************)
EXTENDS Integers, Sequences

CONSTANTS
    Rank, Server,   \* node ids; "rank-<i>" and "server-<i>" when spawned here
    LeaderIds,      \* rank ids whose number reads as 0: "rank-0"
    ModelOf,        \* the model name a node reports
    NoName,         \* the empty model name
    Local,          \* nodes that bootstrap spawns; the others are external
    ScaleGroup,     \* ranks of model 0, spawned by SCALE
    SpawnedAs,      \* id of the process that a respawn of the node starts
    Strategy,       \* lease strategies in use: "request", "timed"
    Duration,       \* length of a timed lease, in ticks
    MaxNodes,       \* SV_MAX_NODES
    MaxLive,        \* bound: processes with one node id at a time
    AutoHeal,       \* --auto-heal
    HasRouter,      \* some router is configured
    None            \* no server ("")

Node == Rank \cup Server

ASSUME SupervisorAssumption ==
    /\ Rank \cap Server = {} /\ None \notin Node
    /\ ModelOf \in [Node -> STRING]
    /\ LeaderIds \subseteq Rank /\ Local \subseteq Node /\ ScaleGroup \subseteq Rank
    /\ Strategy \subseteq {"request", "timed"}
    /\ Duration \in Nat \ {0} /\ MaxNodes \in Nat /\ MaxLive \in Nat \ {0}
    /\ AutoHeal \in BOOLEAN /\ HasRouter \in BOOLEAN

(***************************************************************************)
(* A respawn starts number atoi(suffix) of the dead node's kind, and the   *)
(* new process carries that number as its id.  For the ids that bootstrap  *)
(* and SCALE give, this is the node itself; any other id reads as some     *)
(* number, "rank-<model>" or "server-a" as 0.  None: an id outside the     *)
(* instance, or a model that is not configured, of which nothing starts.   *)
(***************************************************************************)
ASSUME SpawnAssumption ==
    /\ SpawnedAs \in [Node -> Node \cup {None}]
    /\ \A n \in Local \cup ScaleGroup : SpawnedAs[n] = n

VARIABLES
    nodes,          \* ids in the order in which they registered
    state,          \* "ready", "busy" or "dead"
    late,           \* now - last_hb > SV_HB_TIMEOUT
    leased_by,      \* server that holds the rank
    lease_expire,   \* 0: none; n + 1: n ticks left
    router_notified,
    rview,          \* servers the router has in its table
    missed,         \* servers whose last ADD or DEL did not reach the router
    live,           \* number of live processes with this id
    recorded        \* spawn_pids names one of them

table == <<nodes, state, late>>
lease == <<leased_by, lease_expire>>
route == <<router_notified, rview, missed>>
procs == <<live, recorded>>
vars  == <<nodes, state, late, leased_by, lease_expire, router_notified, rview,
           missed, live, recorded>>

InTable(n) == \E i \in 1 .. Len(nodes) : nodes[i] = n
Pos(n) == CHOOSE i \in 1 .. Len(nodes) : nodes[i] = n

Init ==
    /\ nodes = <<>>
    /\ state = [n \in Node |-> "busy"]
    /\ late = [n \in Node |-> FALSE]
    /\ leased_by = [r \in Rank |-> None]
    /\ lease_expire = [r \in Rank |-> 0]
    /\ router_notified = [s \in Server |-> FALSE]
    /\ rview = {} /\ missed = {}
    /\ live = [n \in Node |-> IF n \in Local THEN 1 ELSE 0]
    /\ recorded = [n \in Node |-> n \in Local]

-----------------------------------------------------------------------------
(* What the router is told.                                                *)

\* notify_routers with an ADD (member = TRUE) or a DEL; the connection may fail,
\* and nothing remembers that it did.
Notify(s, member) ==
    IF ~HasRouter THEN UNCHANGED <<rview, missed>>
    ELSE \/ /\ rview' = IF member THEN rview \cup {s} ELSE rview \ {s}
            /\ missed' = missed \ {s}
         \/ rview' = rview /\ missed' = missed \cup {s}

\* sync_server_to_router for a server whose state has become st.  An UPDATE
\* carries load figures only.
SyncForgetsDel(s, st) ==              \* mutant: a dead server is not deleted
    IF st = "ready" /\ ~router_notified[s]
    THEN router_notified' = [router_notified EXCEPT ![s] = TRUE] /\ Notify(s, TRUE)
    ELSE UNCHANGED route
Sync(s, st) ==
    CASE st = "ready" /\ ~router_notified[s] ->
            /\ router_notified' = [router_notified EXCEPT ![s] = TRUE]
            /\ Notify(s, TRUE)
      [] st = "dead" /\ router_notified[s] ->
            /\ router_notified' = [router_notified EXCEPT ![s] = FALSE]
            /\ Notify(s, FALSE)
      [] OTHER -> UNCHANGED route

-----------------------------------------------------------------------------
(* Frame handlers.                                                         *)

\* The node is known or fits into the table.
HasRoom(n) == InTable(n) \/ Len(nodes) < MaxNodes

\* The table after a heartbeat of n (find_node first).
Register(n) == IF InTable(n) THEN nodes ELSE Append(nodes, n)

\* HEARTBEAT: a new node is appended with no lease; a full table refuses it.
HandleHeartbeat(n, st) ==
    /\ HasRoom(n)
    /\ nodes' = Register(n)
    /\ state' = [state EXCEPT ![n] = st]
    /\ late' = [late EXCEPT ![n] = FALSE]
    /\ IF n \in Server THEN Sync(n, st) ELSE UNCHANGED route
    /\ UNCHANGED <<lease, procs>>

Heartbeat(n, st) == live[n] > 0 /\ HandleHeartbeat(n, st)

\* The name test of handle_lease.  proto_get returns the rest of the line, so
\* behind "model=" a timed request carries more than a model name.
NameMatches(r, s, strat) ==
    ModelOf[r] = NoName \/ (strat = "request" /\ ModelOf[r] = ModelOf[s])

\* Leased by nobody else.
FreeForAnybody(r, s) == TRUE          \* mutant: leases are not looked at
FreeFor(r, s) == leased_by[r] \in {None, s}

\* The group: READY ranks of the model that nobody else has leased.
Group(s, strat) ==
    {r \in Rank : /\ InTable(r) /\ state[r] = "ready"
                  /\ NameMatches(r, s, strat) /\ FreeFor(r, s)}

\* The group must contain a leader.
Grants(s, strat) == \E r \in LeaderIds : r \in Group(s, strat)

\* LEASE granted: the whole group is marked, also when it was held already.
\* The answer "ERR no-rank" changes nothing.
LeaseGranted(s, strat) ==
    /\ Grants(s, strat)
    /\ leased_by' = [r \in Rank |-> IF r \in Group(s, strat) THEN s ELSE leased_by[r]]
    /\ lease_expire' = [r \in Rank |->
          IF r \in Group(s, strat)
          THEN IF strat = "timed" THEN Duration + 1 ELSE 0
          ELSE lease_expire[r]]
    /\ UNCHANGED <<table, route, procs>>

\* Frees the leases of the given ranks.
FreeKeepsExpiry(R) ==                 \* mutant: lease_expire is not cleared
    /\ leased_by' = [r \in Rank |-> IF r \in R THEN None ELSE leased_by[r]]
    /\ UNCHANGED lease_expire
Free(R) ==
    /\ leased_by' = [r \in Rank |-> IF r \in R THEN None ELSE leased_by[r]]
    /\ lease_expire' = [r \in Rank |-> IF r \in R THEN 0 ELSE lease_expire[r]]

HeldBy(s) == {r \in Rank : InTable(r) /\ leased_by[r] = s}

\* RELEASE names a server, never a request.
Release(s) ==
    /\ Free(HeldBy(s))
    /\ UNCHANGED <<table, route, procs>>

\* SCALE: one more process for every rank of model 0; the old pid is forgotten.
Scale ==
    /\ AutoHeal
    /\ \A r \in ScaleGroup : live[r] < MaxLive
    /\ live' = [n \in Node |-> IF n \in ScaleGroup THEN live[n] + 1 ELSE live[n]]
    /\ recorded' = [n \in Node |-> n \in ScaleGroup \/ recorded[n]]
    /\ UNCHANGED <<table, lease, route>>

-----------------------------------------------------------------------------
(* The periodic check: heal_dead and lease_expire_check.                   *)

\* spawn_kill of what is recorded for n, then the process of n's number is started
\* and recorded, over the record of a process of that id if there is one.
RespawnNoKill(n) ==                   \* mutant: the stale process is not killed
    /\ live' = [m \in Node |-> live[m] + (IF m = SpawnedAs[n] THEN 1 ELSE 0)]
    /\ recorded' = [m \in Node |-> m = SpawnedAs[n] \/ recorded[m]]
Respawn(n) ==
    /\ live' = [m \in Node |-> live[m] - (IF m = n /\ recorded[n] THEN 1 ELSE 0)
                                        + (IF m = SpawnedAs[n] THEN 1 ELSE 0)]
    /\ recorded' = [m \in Node |-> m = SpawnedAs[n] \/ (m # n /\ recorded[m])]

CanStart(n) ==
    \/ SpawnedAs[n] = None
    \/ SpawnedAs[n] = n /\ recorded[n]
    \/ live[SpawnedAs[n]] < MaxLive

RespawnIfHealing(n) ==
    IF AutoHeal THEN CanStart(n) /\ Respawn(n) ELSE UNCHANGED procs

\* A node already marked DEAD is skipped.
DeadlineHitWhenReady(n) ==            \* mutant: a busy node is never checked
    InTable(n) /\ late[n] /\ state[n] = "ready"
DeadlineHit(n) == InTable(n) /\ late[n] /\ state[n] # "dead"

\* Ranks freed when server s is declared dead.
NoneReclaimed(s) == {}                \* mutant: the leases stay
Reclaimed(s) == HeldBy(s)

HealServer(s) ==
    /\ DeadlineHit(s)
    /\ state' = [state EXCEPT ![s] = "dead"]
    /\ Sync(s, "dead")
    /\ Free(Reclaimed(s))
    /\ RespawnIfHealing(s)
    /\ UNCHANGED <<nodes, late>>

\* The loop compares each rank with n->leased_by, which it clears when it
\* reaches n itself: ranks behind n in the table no longer match.
FreedWith(n) ==
    IF leased_by[n] = None THEN {}
    ELSE {r \in HeldBy(leased_by[n]) : Pos(r) <= Pos(n)}

HealRank(n) ==
    /\ DeadlineHit(n)
    /\ state' = [state EXCEPT ![n] = "dead"]
    /\ Free(FreedWith(n))
    /\ RespawnIfHealing(n)
    /\ UNCHANGED <<nodes, late, route>>

\* lease_expire_check: every lease that is due is freed.
ExpireLeases ==
    /\ \E r \in Rank : lease_expire[r] = 1
    /\ Free({r \in Rank : lease_expire[r] = 1})
    /\ UNCHANGED <<table, route, procs>>

-----------------------------------------------------------------------------
(* Time and processes.                                                     *)

ClockTick ==
    /\ \E r \in Rank : lease_expire[r] > 1
    /\ lease_expire' = [r \in Rank |-> IF lease_expire[r] > 1 THEN lease_expire[r] - 1
                                       ELSE lease_expire[r]]
    /\ UNCHANGED <<table, leased_by, route, procs>>

GoesLate(n) ==
    /\ InTable(n) /\ ~late[n]
    /\ late' = [late EXCEPT ![n] = TRUE]
    /\ UNCHANGED <<nodes, state, lease, route, procs>>

\* A process ends; with several of the same id it may be the recorded one or not.
ProcessEnds(n) ==
    /\ live[n] > 0
    /\ live' = [live EXCEPT ![n] = @ - 1]
    /\ \/ recorded[n] /\ recorded' = [recorded EXCEPT ![n] = FALSE]
       \/ (~recorded[n] \/ live[n] > 1) /\ UNCHANGED recorded
    /\ UNCHANGED <<table, lease, route>>

ExternalStart(n) ==
    /\ n \notin Local /\ live[n] = 0
    /\ live' = [live EXCEPT ![n] = 1]
    /\ UNCHANGED <<table, lease, route, recorded>>

\* Everything but LEASE and RELEASE.
Housekeeping ==
    \/ \E n \in Node, st \in {"ready", "busy"} : Heartbeat(n, st)
    \/ \E s \in Server : HealServer(s)
    \/ \E r \in Rank : HealRank(r)
    \/ \E n \in Node : GoesLate(n)
    \/ \E n \in Node : ProcessEnds(n)
    \/ \E n \in Node : ExternalStart(n)
    \/ ExpireLeases \/ ClockTick \/ Scale

Next ==
    \/ Housekeeping
    \/ \E s \in Server, strat \in Strategy : live[s] > 0 /\ LeaseGranted(s, strat)
    \/ \E s \in Server : live[s] > 0 /\ Release(s)

Spec == Init /\ [][Next]_vars

-----------------------------------------------------------------------------
(* Properties.                                                             *)

\* Type invariant of the supervisor's tables (struct Supervisor).
TypeOK ==
    /\ nodes \in Seq(Node) /\ Len(nodes) <= MaxNodes
    /\ state \in [Node -> {"ready", "busy", "dead"}]
    /\ late \in [Node -> BOOLEAN]
    /\ leased_by \in [Rank -> Server \cup {None}]
    /\ lease_expire \in [Rank -> 0 .. Duration + 1]
    /\ router_notified \in [Server -> BOOLEAN]
    /\ rview \subseteq Server /\ missed \subseteq Server
    /\ live \in [Node -> Nat] /\ recorded \in [Node -> BOOLEAN]
    /\ \A n \in Node : recorded[n] => live[n] > 0

\* No id is registered twice and only a registered rank is leased (find_node).
Registered ==
    /\ \A i, j \in 1 .. Len(nodes) : nodes[i] = nodes[j] => i = j
    /\ \A r \in Rank : leased_by[r] # None => InTable(r)

\* Every expiry date belongs to a lease (lease_expire_check).
ExpiryHasHolder == \A r \in Rank : lease_expire[r] > 0 => leased_by[r] # None

\* However heartbeats, deaths and restarts follow one another, the table lists no
\* node twice and leases no unknown rank, and no expiry date outlives its lease, to
\* take a later lease of the rank away from its holder (heal_dead, handle_release).
TableSound == Registered /\ ExpiryHasHolder

\* As long as its last ADD or DEL got through, the router has a server that is
\* ready and has no server that is dead (sync_server_to_router, heal_dead).
RouterFollows ==
    \A s \in Server \ missed :
        HasRouter /\ InTable(s) =>
            /\ state[s] = "ready" => s \in rview
            /\ state[s] = "dead"  => s \notin rview

\* A lease passes from one server to another only through the pool: it is
\* freed (RELEASE, death or expiry) before somebody else gets it.
NeverStolen ==
    [][\A r \in Rank : leased_by[r] # None => leased_by'[r] \in {leased_by[r], None}]_vars

\* Declaring a server dead leaves none of its leases behind (heal_dead,
\* "server dead: reclaim its leases").
DeathReclaims ==
    [][\A s \in Server : state[s] # "dead" /\ state'[s] = "dead"
          => \A r \in Rank : leased_by'[r] # s]_vars

\* Another registered node's id reads as the number of n.
Mistaken(n) == \E m \in Node \ {n} : InTable(m) /\ SpawnedAs[m] = n

\* Self-healing never leaves two processes under one id that the supervisor
\* spawned itself, that SCALE does not spawn again and that no other registered
\* node is mistaken for (spawn_kill, spawn_record, heal_dead).
OneProcess == \A n \in Local \ ScaleGroup : ~Mistaken(n) => live[n] <= 1

\* Self-healing where it does work: a node whose first heartbeat has arrived and
\* that then loses its process while it is not marked dead gets a new one.
SeenNodeHeals ==
    \A n \in Local : (InTable(n) /\ state[n] # "dead" /\ live[n] = 0) ~> (live[n] > 0)
============================================================================
