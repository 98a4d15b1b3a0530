---------------------------- MODULE LeaseProofs ----------------------------
(***************************************************************************)
(* Proofs about the supervisor and the servers that lease ranks from it.   *)
(*                                                                         *)
(* First the supervisor alone (Supervisor), for any sets of ranks and      *)
(* servers, any table size, lease duration and mixture of strategies.      *)
(*                                                                         *)
(* Then the servers with it (LeaseProtocol): the request strategy keeps a  *)
(* rank to one server at a time, for any number of servers and ranks, when *)
(* every server handles one request at a time, the supervisor answers in   *)
(* time, and it spawned all nodes itself.  Lease_parallel.cfg shows that   *)
(* the first condition is needed.  The second is, too: a stalled           *)
(* supervisor declares a live server dead and frees the ranks it works     *)
(* with.                                                                   *)
(***************************************************************************)
EXTENDS LeaseProtocol, TLAPS

PoolInv == TypeOK /\ Registered /\ ExpiryHasHolder

USE SupervisorAssumption
USE DEF Node, table, lease, route, procs

\* The initial tables are empty (struct Supervisor is zeroed).
LEMMA PoolInit == Init => PoolInv
<1> SUFFICES ASSUME Init PROVE PoolInv
  OBVIOUS
<1>1. TypeOK
  <2>1. live \in [Node -> Nat] /\ recorded \in [Node -> BOOLEAN]
    BY DEF Init
  <2>2. \A n \in Node : recorded[n] => n \in Local
    BY DEF Init
  <2>3. \A n \in Local : live[n] = 1
    BY DEF Init
  <2>4. \A n \in Node : recorded[n] => live[n] > 0
    BY <2>2, <2>3
  <2>5. nodes \in Seq(Node) /\ Len(nodes) <= MaxNodes
    BY DEF Init
  <2>6. /\ state \in [Node -> {"ready", "busy", "dead"}]
        /\ late \in [Node -> BOOLEAN]
        /\ leased_by \in [Rank -> Server \cup {None}]
        /\ lease_expire \in [Rank -> 0 .. Duration + 1]
        /\ router_notified \in [Server -> BOOLEAN]
        /\ rview \subseteq Server /\ missed \subseteq Server
    BY DEF Init
  <2>7. QED
    BY <2>1, <2>4, <2>5, <2>6 DEF TypeOK
<1>2. Registered /\ ExpiryHasHolder
  BY DEF Init, Registered, ExpiryHasHolder
<1>3. QED
  BY <1>1, <1>2 DEF PoolInv

\* What Sync and Notify do to the router's side keeps its types.
LEMMA SyncType ==
    ASSUME TypeOK, NEW s \in Server, NEW st, Sync(s, st)
    PROVE  /\ router_notified' \in [Server -> BOOLEAN]
           /\ rview' \subseteq Server /\ missed' \subseteq Server
<1>1. ASSUME NEW m, Notify(s, m) PROVE rview' \subseteq Server /\ missed' \subseteq Server
  BY <1>1 DEF Notify, TypeOK
<1>2. CASE st = "ready" /\ ~router_notified[s]
  <2>1. router_notified' = [router_notified EXCEPT ![s] = TRUE] /\ Notify(s, TRUE)
    BY <1>2 DEF Sync
  <2>2. QED
    BY <1>1, <2>1 DEF TypeOK
<1>3. CASE st = "dead" /\ router_notified[s]
  <2>1. router_notified' = [router_notified EXCEPT ![s] = FALSE] /\ Notify(s, FALSE)
    BY <1>3 DEF Sync
  <2>2. QED
    BY <1>1, <2>1 DEF TypeOK
<1>4. CASE ~(st = "ready" /\ ~router_notified[s]) /\ ~(st = "dead" /\ router_notified[s])
  <2>1. UNCHANGED route
    BY <1>4 DEF Sync
  <2>2. QED
    BY <2>1 DEF TypeOK
<1>5. QED
  BY <1>2, <1>3, <1>4

\* A process that is recorded exists.
ProcsOK ==
    /\ live \in [Node -> Nat] /\ recorded \in [Node -> BOOLEAN]
    /\ \A n \in Node : recorded[n] => live[n] > 0

\* What a respawn does to the processes of one id m.
LEMMA RespawnEffect ==
    ASSUME TypeOK, NEW n \in Node, NEW m \in Node, AutoHeal, RespawnIfHealing(n)
    PROVE  /\ recorded'[m] <=> m = SpawnedAs[n] \/ (m # n /\ recorded[m])
           /\ m = n /\ recorded[n] =>
                 live'[m] = IF m = SpawnedAs[n] THEN live[m] ELSE live[m] - 1
           /\ ~(m = n /\ recorded[n]) =>
                 live'[m] = IF m = SpawnedAs[n] THEN live[m] + 1 ELSE live[m]
<1>1. Respawn(n) /\ live[m] \in Nat
  BY DEF RespawnIfHealing, TypeOK
<1>2. recorded'[m] <=> m = SpawnedAs[n] \/ (m # n /\ recorded[m])
  BY <1>1 DEF Respawn
<1>3. live'[m] = live[m] - (IF m = n /\ recorded[n] THEN 1 ELSE 0)
                         + (IF m = SpawnedAs[n] THEN 1 ELSE 0)
  BY <1>1 DEF Respawn
<1>4. ASSUME m = n, recorded[n] PROVE live'[m] = IF m = SpawnedAs[n] THEN live[m] ELSE live[m] - 1
  <2>1. live'[m] = live[m] - 1 + (IF m = SpawnedAs[n] THEN 1 ELSE 0)
    BY <1>3, <1>4
  <2>2. QED
    BY <1>1, <2>1
<1>5. ASSUME ~(m = n /\ recorded[n])
      PROVE  live'[m] = IF m = SpawnedAs[n] THEN live[m] + 1 ELSE live[m]
  <2>1. live'[m] = live[m] - 0 + (IF m = SpawnedAs[n] THEN 1 ELSE 0)
    BY <1>3, <1>5
  <2>2. QED
    BY <1>1, <2>1
<1>6. QED
  BY <1>2, <1>4, <1>5

\* A respawn keeps the process records: it kills what was recorded only.
LEMMA RespawnType ==
    ASSUME TypeOK, NEW n \in Node, RespawnIfHealing(n)
    PROVE  ProcsOK'
<1>1. CASE AutoHeal
  <2>1. ASSUME NEW m \in Node
        PROVE  live'[m] \in Nat /\ (recorded'[m] => live'[m] > 0)
    <3>1. live[m] \in Nat /\ (recorded[m] => live[m] > 0)
      BY DEF TypeOK
    <3>2. CASE m = n /\ recorded[n]
      BY <1>1, <3>1, <3>2, RespawnEffect
    <3>3. CASE ~(m = n /\ recorded[n])
      BY <1>1, <3>1, <3>3, RespawnEffect
    <3>4. QED
      BY <3>2, <3>3
  <2>2. live' \in [Node -> Nat] /\ recorded' \in [Node -> BOOLEAN]
    <3>1. \A m \in Node : live'[m] \in Nat
      BY <2>1
    <3>2. QED
      BY <1>1, <3>1 DEF RespawnIfHealing, Respawn, TypeOK
  <2>3. QED
    BY <2>1, <2>2 DEF ProcsOK
<1>2. CASE ~AutoHeal
  BY <1>2 DEF RespawnIfHealing, TypeOK, ProcsOK
<1>3. QED
  BY <1>1, <1>2

\* Freeing leases keeps the table sound and clears the dates with them.
LEMMA FreeKeeps ==
    ASSUME PoolInv, NEW R, Free(R), UNCHANGED nodes
    PROVE  /\ leased_by' \in [Rank -> Server \cup {None}]
           /\ lease_expire' \in [Rank -> 0 .. Duration + 1]
           /\ Registered' /\ ExpiryHasHolder'
<1>1. leased_by' \in [Rank -> Server \cup {None}] /\ lease_expire' \in [Rank -> 0 .. Duration + 1]
  BY DEF Free, PoolInv, TypeOK
<1>2. Registered'
  BY DEF Free, PoolInv, TypeOK, Registered, InTable
<1>3. ExpiryHasHolder'
  BY DEF Free, PoolInv, TypeOK, ExpiryHasHolder
<1>4. QED
  BY <1>1, <1>2, <1>3

\* A heartbeat registers an id at most once and within the table.
LEMMA RegisterKeeps ==
    ASSUME PoolInv, NEW n \in Node, HasRoom(n), nodes' = Register(n), UNCHANGED lease
    PROVE  /\ nodes' \in Seq(Node) /\ Len(nodes') <= MaxNodes
           /\ Registered' /\ ExpiryHasHolder'
<1>1. CASE InTable(n)
  BY <1>1 DEF Register, PoolInv, TypeOK, Registered, ExpiryHasHolder, InTable
<1>2. CASE ~InTable(n)
  <2>1. nodes' = Append(nodes, n) /\ Len(nodes) < MaxNodes
    BY <1>2 DEF Register, HasRoom
  <2>2. /\ nodes' \in Seq(Node) /\ Len(nodes') = Len(nodes) + 1
        /\ nodes'[Len(nodes) + 1] = n
        /\ \A i \in 1 .. Len(nodes) : nodes'[i] = nodes[i]
    BY <2>1 DEF PoolInv, TypeOK
  <2>3. Len(nodes) \in Nat /\ Len(nodes') <= MaxNodes
    BY <2>1, <2>2 DEF PoolInv, TypeOK
  <2>4. \A i \in 1 .. Len(nodes) : nodes[i] # n
    BY <1>2 DEF InTable
  <2>5. \A i, j \in 1 .. Len(nodes') : nodes'[i] = nodes'[j] => i = j
    BY <2>2, <2>3, <2>4 DEF PoolInv, Registered
  <2>6. \A r \in Rank : leased_by'[r] # None => InTable(r)'
    BY <2>2, <2>3 DEF PoolInv, Registered, InTable
  <2>7. QED
    BY <2>2, <2>3, <2>5, <2>6 DEF PoolInv, Registered, ExpiryHasHolder
<1>3. QED
  BY <1>1, <1>2

\* A heartbeat, whoever sends it, keeps the invariant.
LEMMA HeartbeatKeeps ==
    ASSUME PoolInv, NEW n \in Node, NEW st \in {"ready", "busy"}, HandleHeartbeat(n, st)
    PROVE  PoolInv'
<1>1. /\ nodes' \in Seq(Node) /\ Len(nodes') <= MaxNodes
      /\ Registered' /\ ExpiryHasHolder'
  BY RegisterKeeps DEF HandleHeartbeat
<1>2. /\ router_notified' \in [Server -> BOOLEAN]
      /\ rview' \subseteq Server /\ missed' \subseteq Server
  <2>1. CASE n \in Server
    BY <2>1, SyncType DEF HandleHeartbeat, PoolInv
  <2>2. CASE n \notin Server
    BY <2>2 DEF HandleHeartbeat, PoolInv, TypeOK
  <2>3. QED
    BY <2>1, <2>2
<1>3. late' \in [Node -> BOOLEAN] /\ state' \in [Node -> {"ready", "busy", "dead"}]
  BY DEF HandleHeartbeat, PoolInv, TypeOK
<1>4. TypeOK'
  BY <1>1, <1>2, <1>3 DEF HandleHeartbeat, PoolInv, TypeOK
<1>5. QED
  BY <1>1, <1>4 DEF PoolInv

\* A granted LEASE marks registered ranks only.
LEMMA LeaseKeeps ==
    ASSUME PoolInv, NEW s \in Server, NEW strat, LeaseGranted(s, strat)
    PROVE  PoolInv'
<1> DEFINE G == Group(s, strat)
<1>1. /\ leased_by' = [r \in Rank |-> IF r \in G THEN s ELSE leased_by[r]]
      /\ lease_expire' = [r \in Rank |-> IF r \in G
                            THEN IF strat = "timed" THEN Duration + 1 ELSE 0
                            ELSE lease_expire[r]]
      /\ UNCHANGED <<table, route, procs>>
  BY DEF LeaseGranted
<1>2. \A r \in G : InTable(r)
  BY DEF Group
<1> HIDE DEF G
<1>3. TypeOK'
  BY <1>1 DEF PoolInv, TypeOK
<1>4. Registered'
  BY <1>1, <1>2 DEF PoolInv, TypeOK, Registered, InTable
<1>5. ExpiryHasHolder'
  BY <1>1 DEF PoolInv, TypeOK, ExpiryHasHolder
<1>6. QED
  BY <1>3, <1>4, <1>5 DEF PoolInv

\* heal_dead declares a server dead and frees its ranks.
LEMMA HealServerKeeps ==
    ASSUME PoolInv, NEW s \in Server, HealServer(s)
    PROVE  PoolInv'
<1>1. /\ leased_by' \in [Rank -> Server \cup {None}]
      /\ lease_expire' \in [Rank -> 0 .. Duration + 1]
      /\ Registered' /\ ExpiryHasHolder'
  BY FreeKeeps DEF HealServer
<1>2. /\ router_notified' \in [Server -> BOOLEAN]
      /\ rview' \subseteq Server /\ missed' \subseteq Server
  BY SyncType DEF HealServer, PoolInv
<1>3. ProcsOK'
  BY RespawnType DEF HealServer, PoolInv
<1>4. TypeOK'
  BY <1>1, <1>2, <1>3 DEF HealServer, PoolInv, TypeOK, ProcsOK
<1>5. QED
  BY <1>1, <1>4 DEF PoolInv

\* heal_dead declares a rank dead and frees some ranks of its group.
LEMMA HealRankKeeps ==
    ASSUME PoolInv, NEW r \in Rank, HealRank(r)
    PROVE  PoolInv'
<1>1. /\ leased_by' \in [Rank -> Server \cup {None}]
      /\ lease_expire' \in [Rank -> 0 .. Duration + 1]
      /\ Registered' /\ ExpiryHasHolder'
  BY FreeKeeps DEF HealRank
<1>2. ProcsOK'
  BY RespawnType DEF HealRank, PoolInv
<1>3. TypeOK'
  BY <1>1, <1>2 DEF HealRank, PoolInv, TypeOK, ProcsOK
<1>4. QED
  BY <1>1, <1>3 DEF PoolInv

\* Time, processes and SCALE touch neither the table nor a holder.
LEMMA EnvironmentKeeps ==
    ASSUME PoolInv,
           \/ \E n \in Node : GoesLate(n) \/ ProcessEnds(n) \/ ExternalStart(n)
           \/ ClockTick \/ Scale
    PROVE  PoolInv'
<1>1. ASSUME NEW n \in Node, GoesLate(n) PROVE PoolInv'
  BY <1>1 DEF GoesLate, PoolInv, TypeOK, Registered, ExpiryHasHolder, InTable
<1>2. ASSUME NEW n \in Node, ProcessEnds(n) PROVE PoolInv'
  <2>1. live' \in [Node -> Nat]
    BY <1>2 DEF ProcessEnds, PoolInv, TypeOK
  <2>2. recorded' \in [Node -> BOOLEAN]
    <3>1. recorded' = [recorded EXCEPT ![n] = FALSE] \/ recorded' = recorded
      BY <1>2 DEF ProcessEnds
    <3>2. QED
      BY <3>1 DEF PoolInv, TypeOK
  <2>3. \A m \in Node : recorded'[m] => live'[m] > 0
    BY <1>2 DEF ProcessEnds, PoolInv, TypeOK
  <2>4. QED
    BY <1>2, <2>1, <2>2, <2>3 DEF ProcessEnds, PoolInv, TypeOK, Registered, ExpiryHasHolder, InTable
<1>3. ASSUME NEW n \in Node, ExternalStart(n) PROVE PoolInv'
  BY <1>3 DEF ExternalStart, PoolInv, TypeOK, Registered, ExpiryHasHolder, InTable
<1>4. CASE ClockTick
  <2>1. lease_expire' \in [Rank -> 0 .. Duration + 1]
    BY <1>4 DEF ClockTick, PoolInv, TypeOK
  <2>2. ExpiryHasHolder'
    BY <1>4 DEF ClockTick, PoolInv, TypeOK, ExpiryHasHolder
  <2>3. QED
    BY <1>4, <2>1, <2>2 DEF ClockTick, PoolInv, TypeOK, Registered, InTable
<1>5. CASE Scale
  <2>1. live' \in [Node -> Nat]
    BY <1>5 DEF Scale, PoolInv, TypeOK
  <2>2. recorded' \in [Node -> BOOLEAN]
    BY <1>5 DEF Scale, PoolInv, TypeOK
  <2>3. \A m \in Node : recorded'[m] => live'[m] > 0
    BY <1>5 DEF Scale, PoolInv, TypeOK
  <2>4. QED
    BY <1>5, <2>1, <2>2, <2>3 DEF Scale, PoolInv, TypeOK, Registered, ExpiryHasHolder, InTable
<1>6. QED
  BY <1>1, <1>2, <1>3, <1>4, <1>5

\* RELEASE and the expiry check free leases and change nothing else.
LEMMA FreeingKeeps ==
    ASSUME PoolInv, ExpireLeases \/ \E s \in Server : Release(s)
    PROVE  PoolInv'
<1>1. ASSUME NEW R, Free(R), UNCHANGED <<table, route, procs>> PROVE PoolInv'
  <2>1. /\ leased_by' \in [Rank -> Server \cup {None}]
        /\ lease_expire' \in [Rank -> 0 .. Duration + 1]
        /\ Registered' /\ ExpiryHasHolder'
    BY <1>1, FreeKeeps
  <2>2. QED
    BY <1>1, <2>1 DEF PoolInv, TypeOK
<1>2. QED
  BY <1>1 DEF ExpireLeases, Release

\* Every step of the supervisor and its environment keeps the invariant.
LEMMA PoolStep == PoolInv /\ [Next]_vars => PoolInv'
<1> SUFFICES ASSUME PoolInv, [Next]_vars PROVE PoolInv'
  OBVIOUS
<1>1. ASSUME NEW n \in Node, NEW st \in {"ready", "busy"}, Heartbeat(n, st) PROVE PoolInv'
  BY <1>1, HeartbeatKeeps DEF Heartbeat
<1>2. ASSUME NEW s \in Server, HealServer(s) PROVE PoolInv'
  BY <1>2, HealServerKeeps
<1>3. ASSUME NEW r \in Rank, HealRank(r) PROVE PoolInv'
  BY <1>3, HealRankKeeps
<1>4. ASSUME NEW s \in Server, NEW strat \in Strategy, LeaseGranted(s, strat) PROVE PoolInv'
  BY <1>4, LeaseKeeps
<1>5. CASE UNCHANGED vars
  BY <1>5 DEF vars, PoolInv, TypeOK, Registered, ExpiryHasHolder, InTable
<1>6. QED
  BY <1>1, <1>2, <1>3, <1>4, <1>5, EnvironmentKeeps, FreeingKeeps
     DEF Next, Housekeeping

\* The supervisor's tables stay well-formed for ever: no node is registered
\* twice or beyond SV_MAX_NODES, only registered ranks are leased, and no expiry
\* date outlives its lease (handle_heartbeat, handle_lease, heal_dead,
\* lease_expire_check).
THEOREM LeaseTableSafety == Spec => [](TypeOK /\ TableSound)
<1>1. Init => PoolInv
  BY PoolInit
<1>2. PoolInv /\ [Next]_vars => PoolInv'
  BY PoolStep
<1>3. PoolInv => TypeOK /\ TableSound
  BY DEF PoolInv, TableSound
<1>4. QED
  BY <1>1, <1>2, <1>3, PTL DEF Spec

-----------------------------------------------------------------------------
\* A granted LEASE takes no rank away from another server.
LEMMA LeaseNeverSteals ==
    ASSUME PoolInv, NEW s \in Server, NEW strat, LeaseGranted(s, strat),
           NEW r \in Rank, leased_by[r] # None
    PROVE  leased_by'[r] \in {leased_by[r], None}
<1>1. leased_by'[r] = IF r \in Group(s, strat) THEN s ELSE leased_by[r]
  BY DEF LeaseGranted
<1>2. r \in Group(s, strat) => leased_by[r] \in {None, s}
  BY DEF Group, FreeFor
<1>3. QED
  BY <1>1, <1>2

\* Freed leases go to nobody.
LEMMA FreeNeverSteals ==
    ASSUME NEW R, Free(R), NEW r \in Rank
    PROVE  leased_by'[r] \in {leased_by[r], None}
  BY DEF Free

\* A rank passes from one server to another only through the pool, whatever
\* heartbeats, deaths, expiries and late frames come in between (handle_lease).
THEOREM LeaseNeverStolen == Spec => NeverStolen
<1> DEFINE A == \A r \in Rank : leased_by[r] # None => leased_by'[r] \in {leased_by[r], None}
<1>1. PoolInv /\ [Next]_vars => [A]_vars
  <2> SUFFICES ASSUME PoolInv, Next, NEW r \in Rank, leased_by[r] # None
              PROVE  leased_by'[r] \in {leased_by[r], None}
    OBVIOUS
  <2>1. ASSUME NEW s \in Server, NEW strat \in Strategy, LeaseGranted(s, strat)
        PROVE  leased_by'[r] \in {leased_by[r], None}
    BY <2>1, LeaseNeverSteals
  <2>2. ASSUME NEW R, Free(R) PROVE leased_by'[r] \in {leased_by[r], None}
    BY <2>2, FreeNeverSteals
  <2>3. CASE UNCHANGED leased_by
    BY <2>3
  <2>4. QED
    BY <2>1, <2>2, <2>3
       DEF Next, Housekeeping, Heartbeat, HandleHeartbeat, HealServer, HealRank, GoesLate,
           ProcessEnds, ExternalStart, ExpireLeases, ClockTick, Scale, Release
<1>2. Spec => []PoolInv
  BY PoolInit, PoolStep, PTL DEF Spec
<1>3. QED
  BY <1>1, <1>2, PTL DEF Spec, NeverStolen

\* Whenever a server is declared dead, none of its leases stays behind
\* (heal_dead): its ranks are all registered, so the loop finds each of them.
THEOREM DeathReclaimsLeases == Spec => DeathReclaims
<1> DEFINE D(s) == state[s] # "dead" /\ state'[s] = "dead" => \A r \in Rank : leased_by'[r] # s
<1>1. PoolInv /\ [Next]_vars => [\A s \in Server : D(s)]_vars
  <2> SUFFICES ASSUME PoolInv, Next, NEW s \in Server,
                      state[s] # "dead", state'[s] = "dead",
                      NEW r \in Rank
               PROVE  leased_by'[r] # s
    OBVIOUS
  <2>1. CASE HealServer(s)
    <3>1. leased_by' = [x \in Rank |-> IF x \in HeldBy(s) THEN None ELSE leased_by[x]]
      BY <2>1 DEF HealServer, Free, Reclaimed
    <3>2. leased_by[r] = s => r \in HeldBy(s)
      BY DEF HeldBy, PoolInv, Registered
    <3>3. QED
      BY <3>1, <3>2
  <2>2. ASSUME NEW t \in Server, HealServer(t), t # s PROVE FALSE
    BY <2>2 DEF HealServer, PoolInv, TypeOK
  <2>3. ASSUME NEW t \in Rank, HealRank(t) PROVE FALSE
    BY <2>3 DEF HealRank, PoolInv, TypeOK
  <2>4. ASSUME NEW n \in Node, NEW st \in {"ready", "busy"}, Heartbeat(n, st) PROVE FALSE
    BY <2>4 DEF Heartbeat, HandleHeartbeat, PoolInv, TypeOK
  <2>5. CASE UNCHANGED state
    BY <2>5
  <2>6. QED
    BY <2>1, <2>2, <2>3, <2>4, <2>5
       DEF Next, Housekeeping, GoesLate, ProcessEnds, ExternalStart, ExpireLeases,
           ClockTick, Scale, Release, LeaseGranted
<1>2. Spec => []PoolInv
  BY PoolInit, PoolStep, PTL DEF Spec
<1>3. QED
  BY <1>1, <1>2, PTL DEF Spec, DeathReclaims

-----------------------------------------------------------------------------
\* The record of spawned processes is exact for the nodes spawned at the start
\* that SCALE does not touch and no other registered node is mistaken for.
RecordExact ==
    \A n \in Local \ ScaleGroup : ~Mistaken(n) => live[n] = IF recorded[n] THEN 1 ELSE 0

\* A node stays in the table, so what was not mistaken for n after a step was
\* not before.
LEMMA TableGrows ==
    ASSUME TypeOK, NEW n \in Node, ~Mistaken(n)',
           \/ UNCHANGED nodes
           \/ \E m \in Node : nodes' = Register(m)
    PROVE  ~Mistaken(n)
<1>1. ASSUME NEW x \in Node, InTable(x) PROVE InTable(x)'
  <2>1. CASE UNCHANGED nodes
    BY <1>1, <2>1 DEF InTable
  <2>2. ASSUME NEW m \in Node, nodes' = Append(nodes, m) PROVE InTable(x)'
    <3>1. PICK i \in 1 .. Len(nodes) : nodes[i] = x
      BY <1>1 DEF InTable
    <3>2. Len(nodes') = Len(nodes) + 1 /\ Len(nodes) \in Nat /\ nodes'[i] = x
      BY <2>2, <3>1 DEF TypeOK
    <3>3. QED
      BY <3>2 DEF InTable
  <2>3. QED
    BY <2>1, <2>2 DEF Register
<1>2. QED
  BY <1>1 DEF Mistaken

\* A respawn kills the recorded process before it counts the new one, which has
\* an id that bootstrap gave only if it is the node's own.
LEMMA RespawnExact ==
    ASSUME TypeOK, RecordExact, NEW n \in Node, InTable(n), UNCHANGED nodes,
           RespawnIfHealing(n)
    PROVE  RecordExact'
<1>1. CASE AutoHeal
  <2>1. SUFFICES ASSUME NEW m \in Local \ ScaleGroup, ~Mistaken(m)'
                 PROVE  live'[m] = IF recorded'[m] THEN 1 ELSE 0
    BY DEF RecordExact
  <2>2. ~Mistaken(m) /\ m \in Node /\ SpawnedAs[m] = m
    BY <2>1, TableGrows, SpawnAssumption
  <2>3. live[m] = IF recorded[m] THEN 1 ELSE 0
    BY <2>2 DEF RecordExact
  <2>4. CASE m = n
    <3>1. recorded'[m] /\ live'[m] = IF recorded[m] THEN live[m] ELSE live[m] + 1
      BY <1>1, <2>2, <2>4, RespawnEffect
    <3>2. CASE recorded[m]
      BY <2>3, <3>1, <3>2
    <3>3. CASE ~recorded[m]
      BY <2>3, <3>1, <3>3
    <3>4. QED
      BY <3>2, <3>3
  <2>5. CASE m # n
    <3>1. SpawnedAs[n] # m
      BY <2>2, <2>5 DEF Mistaken
    <3>2. (recorded'[m] <=> recorded[m]) /\ live'[m] = live[m]
      BY <1>1, <2>2, <2>5, <3>1, RespawnEffect
    <3>3. QED
      BY <2>3, <3>2
  <2>6. QED
    BY <2>4, <2>5
<1>2. CASE ~AutoHeal
  BY <1>2, TableGrows DEF RespawnIfHealing, RecordExact
<1>3. QED
  BY <1>1, <1>2

\* The end of a process is the end of the recorded one.
LEMMA ProcessEndsExact ==
    ASSUME TypeOK, RecordExact, NEW n \in Node, ProcessEnds(n)
    PROVE  RecordExact'
<1> SUFFICES ASSUME NEW m \in Local \ ScaleGroup, ~Mistaken(m)'
             PROVE  live'[m] = IF recorded'[m] THEN 1 ELSE 0
  BY DEF RecordExact
<1>1. live[m] = IF recorded[m] THEN 1 ELSE 0
  BY TableGrows DEF RecordExact, ProcessEnds
<1>2. CASE m = n
  <2>1. live[m] = 1 /\ recorded[m]
    BY <1>1, <1>2 DEF ProcessEnds
  <2>2. recorded' = [recorded EXCEPT ![n] = FALSE] /\ live' = [live EXCEPT ![n] = live[n] - 1]
    BY <1>2, <2>1 DEF ProcessEnds
  <2>3. QED
    BY <1>2, <2>1, <2>2 DEF TypeOK
<1>3. CASE m # n
  BY <1>1, <1>3 DEF ProcessEnds, TypeOK
<1>4. QED
  BY <1>2, <1>3

\* SCALE and external starts leave those nodes alone.
LEMMA OtherStartsExact ==
    ASSUME TypeOK, RecordExact, Scale \/ \E n \in Node : ExternalStart(n)
    PROVE  RecordExact'
<1> SUFFICES ASSUME NEW m \in Local \ ScaleGroup, ~Mistaken(m)'
             PROVE  live'[m] = IF recorded'[m] THEN 1 ELSE 0
  BY DEF RecordExact
<1>1. live[m] = IF recorded[m] THEN 1 ELSE 0
  BY TableGrows DEF RecordExact, Scale, ExternalStart
<1>2. CASE Scale
  BY <1>1, <1>2 DEF Scale, TypeOK
<1>3. ASSUME NEW n \in Node, ExternalStart(n) PROVE live'[m] = live[m] /\ recorded' = recorded
  BY <1>3 DEF ExternalStart, TypeOK
<1>4. QED
  BY <1>1, <1>2, <1>3

\* Self-healing never runs two processes under one id that no other node's id
\* reads as, however often nodes are late, declared dead, back again and late
\* once more (spawn_kill, spawn_record, heal_dead).
THEOREM OneProcessEach == Spec => []OneProcess
<1>1. Init => RecordExact
  BY DEF Init, RecordExact
<1>2. TypeOK /\ RecordExact /\ [Next]_vars => RecordExact'
  <2> SUFFICES ASSUME TypeOK, RecordExact, [Next]_vars PROVE RecordExact'
    OBVIOUS
  <2>1. ASSUME NEW n \in Node, HealServer(n) \/ HealRank(n) PROVE RecordExact'
    BY <2>1, RespawnExact DEF HealServer, HealRank, DeadlineHit
  <2>2. ASSUME NEW n \in Node, ProcessEnds(n) PROVE RecordExact'
    BY <2>2, ProcessEndsExact
  <2>3. ASSUME UNCHANGED procs, \/ UNCHANGED nodes
                                \/ \E m \in Node : nodes' = Register(m)
        PROVE  RecordExact'
    BY <2>3, TableGrows DEF RecordExact
  <2>4. ASSUME NEW n \in Node, NEW st, Heartbeat(n, st) PROVE RecordExact'
    BY <2>3, <2>4 DEF Heartbeat, HandleHeartbeat
  <2>5. QED
    BY <2>1, <2>2, <2>3, <2>4, OtherStartsExact
       DEF Next, Housekeeping, GoesLate, ExpireLeases, ClockTick, Release, LeaseGranted, vars
<1>3. RecordExact => OneProcess
  BY DEF RecordExact, OneProcess
<1>4. QED
  BY <1>1, <1>2, <1>3, LeaseTableSafety, PTL DEF Spec

-----------------------------------------------------------------------------
\* router_notified is what the supervisor believes: it follows the state it has
\* synchronised, and the router agrees wherever the last frame got through.
RouterAgrees ==
    \A s \in Server :
        /\ state[s] = "ready" => router_notified[s]
        /\ state[s] = "dead" => ~router_notified[s]
        /\ HasRouter /\ s \notin missed => (router_notified[s] <=> s \in rview)

\* One synchronisation brings one server up to date and leaves the others.
LEMMA SyncAgrees ==
    ASSUME TypeOK, RouterAgrees, NEW s \in Server, NEW st \in {"ready", "busy", "dead"},
           state' = [state EXCEPT ![s] = st], Sync(s, st)
    PROVE  RouterAgrees'
<1> USE DEF TypeOK
<1>1. CASE st = "ready" /\ ~router_notified[s]
  <2>1. router_notified' = [router_notified EXCEPT ![s] = TRUE] /\ Notify(s, TRUE)
    BY <1>1 DEF Sync
  <2>2. ~HasRouter \/ (rview' = rview \cup {s} /\ missed' = missed \ {s})
                   \/ (rview' = rview /\ missed' = missed \cup {s})
    BY <2>1 DEF Notify
  <2>3. ~HasRouter => UNCHANGED <<rview, missed>>
    BY <2>1 DEF Notify
  <2>4. \A z \in Server : router_notified'[z] <=> (router_notified[z] \/ z = s)
    BY <2>1
  <2>5. QED
    BY <1>1, <2>2, <2>3, <2>4 DEF RouterAgrees
<1>2. CASE st = "dead" /\ router_notified[s]
  <2>1. router_notified' = [router_notified EXCEPT ![s] = FALSE] /\ Notify(s, FALSE)
    BY <1>2 DEF Sync
  <2>2. ~HasRouter \/ (rview' = rview \ {s} /\ missed' = missed \ {s})
                   \/ (rview' = rview /\ missed' = missed \cup {s})
    BY <2>1 DEF Notify
  <2>3. ~HasRouter => UNCHANGED <<rview, missed>>
    BY <2>1 DEF Notify
  <2>4. \A z \in Server : router_notified'[z] <=> (router_notified[z] /\ z # s)
    BY <2>1
  <2>5. QED
    BY <1>2, <2>2, <2>3, <2>4 DEF RouterAgrees
<1>3. CASE ~(st = "ready" /\ ~router_notified[s]) /\ ~(st = "dead" /\ router_notified[s])
  <2>1. UNCHANGED route
    BY <1>3 DEF Sync
  <2>2. QED
    BY <1>3, <2>1 DEF RouterAgrees
<1>4. QED
  BY <1>1, <1>2, <1>3

\* A rank has no business with the router.
LEMMA RankAgrees ==
    ASSUME TypeOK, RouterAgrees, NEW r \in Rank, NEW st,
           state' = [state EXCEPT ![r] = st], UNCHANGED route
    PROVE  RouterAgrees'
  BY DEF TypeOK, RouterAgrees

\* Every step of the supervisor and its environment keeps the agreement.
LEMMA AgreementStep == TypeOK /\ RouterAgrees /\ [Next]_vars => RouterAgrees'
<1> SUFFICES ASSUME TypeOK, RouterAgrees, [Next]_vars PROVE RouterAgrees'
  OBVIOUS
<1>1. ASSUME NEW n \in Node, NEW st \in {"ready", "busy"}, Heartbeat(n, st)
      PROVE  RouterAgrees'
  <2>1. CASE n \in Server
    BY <1>1, <2>1, SyncAgrees DEF Heartbeat, HandleHeartbeat
  <2>2. CASE n \in Rank
    BY <1>1, <2>2, RankAgrees DEF Heartbeat, HandleHeartbeat
  <2>3. QED
    BY <2>1, <2>2
<1>2. ASSUME NEW s \in Server, HealServer(s) PROVE RouterAgrees'
  BY <1>2, SyncAgrees DEF HealServer
<1>3. ASSUME NEW r \in Rank, HealRank(r) PROVE RouterAgrees'
  BY <1>3, RankAgrees DEF HealRank
<1>4. CASE UNCHANGED <<state, route>>
  BY <1>4 DEF RouterAgrees
<1>5. QED
  BY <1>1, <1>2, <1>3, <1>4
     DEF Next, Housekeeping, GoesLate, ProcessEnds, ExternalStart, ExpireLeases,
         ClockTick, Scale, Release, LeaseGranted, vars

\* For any number of servers and any table size: the router has every ready
\* server and no dead one, as long as the last ADD or DEL of that server got
\* through (sync_server_to_router, heal_dead).
THEOREM RouterIsFollowed == Spec => []RouterFollows
<1>1. Init => RouterAgrees
  BY DEF Init, RouterAgrees
<1>2. RouterAgrees => RouterFollows
  BY DEF RouterAgrees, RouterFollows
<1>3. QED
  BY <1>1, <1>2, AgreementStep, LeaseTableSafety, PTL DEF Spec

-----------------------------------------------------------------------------
(* Servers, ranks and the supervisor together.                             *)

\* The conditions of the theorem.
OneRequestEach ==
    /\ \A p, q \in Req : SrvOf[p] = SrvOf[q] => p = q
    /\ ~Stall
    /\ Local = Node

Sound == PoolInv /\ LTypeOK

\* A node has at most the process the supervisor recorded, and is late only
\* when that is gone or when it has been declared dead.
ProcessInv ==
    \A n \in Node : /\ live[n] = IF recorded[n] THEN 1 ELSE 0
                    /\ late[n] => live[n] = 0 \/ state[n] = "dead"

\* Threads of a server without a process are gone, inferences run on live ranks.
ThreadInv ==
    \A q \in Req : /\ live[SrvOf[q]] = 0 => pc[q] = "idle"
                   /\ \A r \in granted[q] : live[r] > 0

\* A frame somebody waits for belongs to exactly one waiting thread.
AnswerInv ==
    \A i \in 1 .. Len(backlog) :
        LET f == backlog[i] IN
        /\ f.cmd = "HEARTBEAT" => f.req = None
        /\ f.req # None =>
              /\ pc[f.req] = "await" /\ f.srv = SrvOf[f.req]
              /\ \A j \in 1 .. Len(backlog) : backlog[j].req = f.req => j = i

\* A server that is about to be declared dead has no frame left, so a new
\* process never meets a LEASE or RELEASE of the old one.
OrphanInv ==
    \A i \in 1 .. Len(backlog) :
        LET f == backlog[i] IN
        /\ ~(late[f.srv] /\ state[f.srv] # "dead")
        /\ live[f.srv] > 0 /\ f.req = None => f.cmd = "HEARTBEAT"

\* A live server holds nothing before its LEASE is granted, and exactly the
\* ranks its inference runs on while it runs.
HoldInv ==
    /\ \A q \in Req : pc[q] \in {"idle", "first", "poll"} /\ live[SrvOf[q]] > 0
                        => \A r \in Rank : leased_by[r] # SrvOf[q]
    /\ \A i \in 1 .. Len(backlog) : backlog[i].cmd = "LEASE" /\ backlog[i].req # None
                        => \A r \in Rank : leased_by[r] # backlog[i].srv
    /\ \A q \in Req : granted[q] # {} =>
          \A r \in Rank : leased_by[r] = SrvOf[q] <=> r \in granted[q]

IInv == Sound /\ ProcessInv /\ ThreadInv /\ AnswerInv /\ OrphanInv /\ HoldInv

-----------------------------------------------------------------------------
USE SupervisorAssumption, LeaseAssumption
USE DEF Node, table, lease, route, procs, svVars, Goto

\* A frame sent goes behind the others.
LEMMA AppendFrame ==
    ASSUME LTypeOK, NEW f \in Frame, backlog' = Append(backlog, f)
    PROVE  /\ backlog' \in Seq(Frame) /\ Len(backlog) \in Nat
           /\ Len(backlog') = Len(backlog) + 1
           /\ backlog'[Len(backlog) + 1] = f
           /\ \A i \in 1 .. Len(backlog) : backlog'[i] = backlog[i]
           /\ \A i \in 1 .. Len(backlog') : i \in 1 .. Len(backlog) \/ i = Len(backlog) + 1
<1>1. backlog \in Seq(Frame)
  BY DEF LTypeOK
<1>2. QED
  BY <1>1

\* The frame handled is the first one; the others move up.
LEMMA TailFrame ==
    ASSUME LTypeOK, backlog # <<>>, backlog' = Tail(backlog)
    PROVE  /\ backlog' \in Seq(Frame) /\ Len(backlog) \in Nat /\ 1 \in 1 .. Len(backlog)
           /\ Len(backlog') = Len(backlog) - 1
           /\ Head(backlog) = backlog[1] /\ Head(backlog) \in Frame
           /\ \A i \in 1 .. Len(backlog') :
                 i + 1 \in 1 .. Len(backlog) /\ i + 1 # 1 /\ backlog'[i] = backlog[i + 1]
<1>1. backlog \in Seq(Frame)
  BY DEF LTypeOK
<1>2. QED
  BY <1>1

\* The frames of Q lose their reader, nothing else changes.
LEMMA AbandonFrame ==
    ASSUME LTypeOK, NEW Q, Abandon(Q)
    PROVE  /\ backlog' \in Seq(Frame) /\ Len(backlog) \in Nat /\ Len(backlog') = Len(backlog)
           /\ \A i \in 1 .. Len(backlog) :
                 /\ backlog'[i].cmd = backlog[i].cmd /\ backlog'[i].srv = backlog[i].srv
                 /\ backlog'[i].req = IF backlog[i].req \in Q THEN None ELSE backlog[i].req
<1>1. backlog \in Seq(Frame) /\ Len(backlog) \in Nat
  BY DEF LTypeOK
<1>2. \A i \in 1 .. Len(backlog) : backlog[i] \in Frame
  BY <1>1
<1> DEFINE b(i) == IF backlog[i].req \in Q THEN [backlog[i] EXCEPT !.req = None] ELSE backlog[i]
<1>3. \A i \in 1 .. Len(backlog) :
         /\ b(i) \in Frame
         /\ b(i).cmd = backlog[i].cmd /\ b(i).srv = backlog[i].srv
         /\ b(i).req = IF backlog[i].req \in Q THEN None ELSE backlog[i].req
  BY <1>2 DEF Frame
<1>4. backlog' = [i \in 1 .. Len(backlog) |-> b(i)]
  BY DEF Abandon
<1> HIDE DEF b
<1>5. backlog' \in Seq(Frame) /\ Len(backlog') = Len(backlog)
  BY <1>1, <1>3, <1>4
<1>6. QED
  BY <1>1, <1>3, <1>4, <1>5

\* Nothing is late, busy or leased at the start.
LEMMA LeaseInit == OneRequestEach /\ LInit => IInv
<1> SUFFICES ASSUME OneRequestEach, LInit PROVE IInv
  OBVIOUS
<1>1. PoolInv
  BY PoolInit DEF LInit
<1>2. LTypeOK
  <2>1. backlog = <<>> /\ backlog \in Seq(Frame) /\ Len(backlog) = 0
    BY DEF LInit
  <2>2. QED
    BY <2>1 DEF LInit, LTypeOK
<1>3. ProcessInv /\ ThreadInv
  BY DEF ProcessInv, ThreadInv, LInit, Init, OneRequestEach
<1>4. AnswerInv /\ OrphanInv /\ HoldInv
  <2>1. 1 .. Len(backlog) = {}
    BY DEF LInit
  <2>2. \A q \in Req : granted[q] = {} /\ SrvOf[q] # None
    BY DEF LInit
  <2>3. \A r \in Rank : leased_by[r] = None
    BY DEF LInit, Init
  <2>4. QED
    BY <2>1, <2>2, <2>3 DEF AnswerInv, OrphanInv, HoldInv
<1>5. QED
  BY <1>1, <1>2, <1>3, <1>4 DEF IInv, Sound

\* An untouched supervisor keeps its own invariant.
LEMMA PoolStutter == PoolInv /\ UNCHANGED vars => PoolInv'
  BY PoolStep

-----------------------------------------------------------------------------
(* The request threads.                                                    *)

\* A new frame f of thread q, which moves to label l: what the three senders
\* have in common.
LEMMA SendKeeps ==
    ASSUME OneRequestEach, IInv, NEW q \in Req, NEW l, NEW f \in Frame,
           Len(backlog) < MaxBacklog, backlog' = Append(backlog, f),
           pc' = [pc EXCEPT ![q] = l], l \in {"first", "await"},
           nstate' \in [Server -> {"ready", "busy"}],
           UNCHANGED <<vars, granted>>,
           live[SrvOf[q]] > 0, f.srv = SrvOf[q], pc[q] \notin {"use", "await"},
           \/ l = "await" /\ f.req = q /\ f.cmd # "HEARTBEAT"
           \/ l = "first" /\ f.req = None /\ f.cmd = "HEARTBEAT" /\ pc[q] = "idle",
           f.cmd = "LEASE" => pc[q] \in {"idle", "first", "poll"}
    PROVE  IInv'
<1>1. /\ backlog' \in Seq(Frame) /\ Len(backlog) \in Nat
      /\ Len(backlog') = Len(backlog) + 1
      /\ backlog'[Len(backlog) + 1] = f
      /\ \A i \in 1 .. Len(backlog) : backlog'[i] = backlog[i]
      /\ \A i \in 1 .. Len(backlog') : i \in 1 .. Len(backlog) \/ i = Len(backlog) + 1
  BY AppendFrame DEF IInv, Sound
<1>2. q # None /\ SrvOf[q] # None /\ SrvOf[q] \in Server
  OBVIOUS
<1>3. granted[q] = {}
  BY DEF IInv, Sound, LTypeOK
<1>4. pc'[q] = l /\ \A p \in Req : p # q => pc'[p] = pc[p]
  BY DEF IInv, Sound, LTypeOK
<1>5. \A i \in 1 .. Len(backlog) : backlog[i].req # q
  BY <1>2 DEF IInv, AnswerInv
<1>6. Sound'
  <2>1. PoolInv'
    BY PoolStutter DEF IInv, Sound
  <2>2. LTypeOK'
    BY <1>1, <1>3 DEF IInv, Sound, LTypeOK
  <2>3. QED
    BY <2>1, <2>2 DEF Sound
<1>7. ProcessInv'
  BY DEF IInv, ProcessInv, vars
<1>8. ThreadInv'
  BY <1>4 DEF IInv, ThreadInv, vars
<1>9. AnswerInv'
  <2> SUFFICES ASSUME NEW i \in 1 .. Len(backlog')
               PROVE  /\ backlog'[i].cmd = "HEARTBEAT" => backlog'[i].req = None
                      /\ backlog'[i].req # None =>
                            /\ pc'[backlog'[i].req] = "await"
                            /\ backlog'[i].srv = SrvOf[backlog'[i].req]
                            /\ \A j \in 1 .. Len(backlog') :
                                  backlog'[j].req = backlog'[i].req => j = i
    BY DEF AnswerInv
  <2>1. CASE i = Len(backlog) + 1
    BY <1>1, <1>4, <1>5, <2>1
  <2>2. CASE i \in 1 .. Len(backlog)
    <3>1. backlog[i] \in Frame
      BY <2>2 DEF IInv, Sound, LTypeOK
    <3>2. backlog[i].req # None => backlog[i].req \in Req
      BY <3>1 DEF Frame
    <3>3. QED
      BY <1>1, <1>4, <1>5, <2>2, <3>2 DEF IInv, AnswerInv
  <2>3. QED
    BY <1>1, <2>1, <2>2
<1>10. OrphanInv'
  BY <1>1, <1>2 DEF IInv, OrphanInv, ProcessInv, vars
<1>11. HoldInv'
  <2>1. \A p \in Req : pc'[p] \in {"idle", "first", "poll"} /\ live'[SrvOf[p]] > 0
                           => \A r \in Rank : leased_by'[r] # SrvOf[p]
    BY <1>4 DEF IInv, HoldInv, vars
  <2>2. \A i \in 1 .. Len(backlog') : backlog'[i].cmd = "LEASE" /\ backlog'[i].req # None
                           => \A r \in Rank : leased_by'[r] # backlog'[i].srv
    BY <1>1 DEF IInv, HoldInv, vars
  <2>3. QED
    BY <2>1, <2>2 DEF IInv, HoldInv, vars
<1>12. QED
  BY <1>6, <1>7, <1>8, <1>9, <1>10, <1>11 DEF IInv

\* A request arrives and its server reports itself busy.
LEMMA ArriveKeeps == ASSUME OneRequestEach, IInv, NEW q \in Req, Arrive(q) PROVE IInv'
<1> DEFINE f == [cmd |-> "HEARTBEAT", srv |-> SrvOf[q], req |-> None]
<1>1. f \in Frame /\ f.srv = SrvOf[q] /\ f.req = None /\ f.cmd = "HEARTBEAT"
  BY DEF Frame
<1>2. nstate' \in [Server -> {"ready", "busy"}]
  BY DEF Arrive, IInv, Sound, LTypeOK
<1>3. QED
  BY <1>1, <1>2, SendKeeps DEF Arrive

\* server_lease sends LEASE while the server holds nothing.
LEMMA SendLeaseKeeps == ASSUME OneRequestEach, IInv, NEW q \in Req, SendLease(q) PROVE IInv'
<1> DEFINE f == [cmd |-> "LEASE", srv |-> SrvOf[q], req |-> q]
<1>1. f \in Frame /\ f.srv = SrvOf[q] /\ f.req = q /\ f.cmd = "LEASE"
  BY DEF Frame
<1>2. live[SrvOf[q]] > 0
  BY DEF SendLease, IInv, ThreadInv, Sound, PoolInv, TypeOK
<1>3. nstate' \in [Server -> {"ready", "busy"}]
  BY DEF SendLease, IInv, Sound, LTypeOK
<1>4. QED
  BY <1>1, <1>2, <1>3, SendKeeps DEF SendLease

\* server_release sends RELEASE after the inference.
LEMMA SendReleaseKeeps == ASSUME OneRequestEach, IInv, NEW q \in Req, SendRelease(q) PROVE IInv'
<1> DEFINE f == [cmd |-> "RELEASE", srv |-> SrvOf[q], req |-> q]
<1>1. f \in Frame /\ f.srv = SrvOf[q] /\ f.req = q /\ f.cmd = "RELEASE"
  BY DEF Frame
<1>2. live[SrvOf[q]] > 0
  BY DEF SendRelease, IInv, ThreadInv, Sound, PoolInv, TypeOK
<1>3. nstate' \in [Server -> {"ready", "busy"}]
  BY DEF SendRelease, IInv, Sound, LTypeOK
<1>4. QED
  BY <1>1, <1>2, <1>3, SendKeeps DEF SendRelease

\* The end of an inference and the end of the waiting give no lease away.
LEMMA LeavingKeeps ==
    ASSUME OneRequestEach, IInv, NEW q \in Req, InferEnds(q) \/ GiveUp(q)
    PROVE  IInv'
<1> DEFINE l == IF pc[q] = "use" THEN "release" ELSE "idle"
<1>1. /\ pc[q] \in {"use", "poll"}
      /\ pc' = [pc EXCEPT ![q] = l]
      /\ UNCHANGED <<vars, backlog>>
      /\ nstate' \in [Server -> {"ready", "busy"}]
  BY DEF InferEnds, GiveUp, Leave, IInv, Sound, LTypeOK
<1>2. granted' = [granted EXCEPT ![q] = {}]
  <2>1. pc[q] = "poll" => granted[q] = {}
    BY DEF IInv, Sound, LTypeOK
  <2>2. QED
    BY <2>1 DEF InferEnds, GiveUp, IInv, Sound, LTypeOK
<1>3. pc'[q] = l /\ \A p \in Req : p # q => pc'[p] = pc[p] /\ granted'[p] = granted[p]
  BY <1>1, <1>2 DEF IInv, Sound, LTypeOK
<1>4. granted'[q] = {}
  BY <1>2 DEF IInv, Sound, LTypeOK
<1>5. Sound'
  <2>1. PoolInv'
    BY <1>1, PoolStutter DEF IInv, Sound
  <2>2. LTypeOK'
    BY <1>1, <1>2, <1>3, <1>4 DEF IInv, Sound, LTypeOK
  <2>3. QED
    BY <2>1, <2>2 DEF Sound
<1>6. ProcessInv' /\ OrphanInv'
  BY <1>1 DEF IInv, ProcessInv, OrphanInv, vars
<1>7. ThreadInv'
  BY <1>1, <1>3, <1>4 DEF IInv, ThreadInv, vars
<1>8. AnswerInv'
  <2>1. \A i \in 1 .. Len(backlog) : backlog[i].req # None =>
           backlog[i].req \in Req /\ backlog[i].req # q
    <3>1. \A i \in 1 .. Len(backlog) : backlog[i] \in Frame
      BY DEF IInv, Sound, LTypeOK
    <3>2. QED
      BY <1>1, <3>1 DEF Frame, IInv, AnswerInv
  <2>2. QED
    BY <1>1, <1>3, <2>1 DEF IInv, AnswerInv
<1>9. HoldInv'
  BY <1>1, <1>3, <1>4 DEF IInv, HoldInv, vars
<1>10. QED
  BY <1>5, <1>6, <1>7, <1>8, <1>9 DEF IInv

-----------------------------------------------------------------------------
(* The supervisor handles the first frame.                                 *)

\* No two frames of one thread, no frame before its time: kept when the first
\* frame goes and at most its thread moves.
LEMMA TailKeeps ==
    ASSUME IInv, backlog # <<>>, backlog' = Tail(backlog),
           \A p \in Req : p # Head(backlog).req => pc'[p] = pc[p],
           UNCHANGED live,
           \A s \in Server : late'[s] /\ state'[s] # "dead" => late[s] /\ state[s] # "dead"
    PROVE  /\ AnswerInv' /\ OrphanInv' /\ backlog' \in Seq(Frame) /\ Len(backlog') <= MaxBacklog
           /\ \A i \in 1 .. Len(backlog') : \E j \in 1 .. Len(backlog) :
                 /\ backlog'[i] = backlog[j] /\ j # 1
                 /\ backlog[j].req # None => backlog[j].req # Head(backlog).req
<1>1. /\ backlog' \in Seq(Frame) /\ Len(backlog) \in Nat /\ 1 \in 1 .. Len(backlog)
      /\ Len(backlog') = Len(backlog) - 1
      /\ Head(backlog) = backlog[1] /\ Head(backlog) \in Frame
      /\ \A i \in 1 .. Len(backlog') :
            i + 1 \in 1 .. Len(backlog) /\ i + 1 # 1 /\ backlog'[i] = backlog[i + 1]
  BY TailFrame DEF IInv, Sound
<1>2. \A i \in 1 .. Len(backlog) : backlog[i].srv \in Server /\ backlog[i].req \in Req \cup {None}
  <2>1. backlog \in Seq(Frame)
    BY DEF IInv, Sound, LTypeOK
  <2>2. \A i \in 1 .. Len(backlog) : backlog[i] \in Frame
    BY <2>1
  <2>3. QED
    BY <2>2 DEF Frame
<1>3. \A j \in 1 .. Len(backlog) :
         j # 1 /\ backlog[j].req # None => backlog[j].req # backlog[1].req
  BY <1>1 DEF IInv, AnswerInv
<1>4. Len(backlog') <= MaxBacklog
  BY <1>1 DEF IInv, Sound, LTypeOK
<1>5. AnswerInv'
  <2> SUFFICES ASSUME NEW i \in 1 .. Len(backlog')
               PROVE  /\ backlog'[i].cmd = "HEARTBEAT" => backlog'[i].req = None
                      /\ backlog'[i].req # None =>
                            /\ pc'[backlog'[i].req] = "await"
                            /\ backlog'[i].srv = SrvOf[backlog'[i].req]
                            /\ \A j \in 1 .. Len(backlog') :
                                  backlog'[j].req = backlog'[i].req => j = i
    BY DEF AnswerInv
  <2>1. i \in Nat /\ i + 1 \in 1 .. Len(backlog) /\ backlog'[i] = backlog[i + 1] /\ i + 1 # 1
    BY <1>1
  <2>2. /\ backlog[i + 1].cmd = "HEARTBEAT" => backlog[i + 1].req = None
        /\ backlog[i + 1].req # None =>
              /\ pc[backlog[i + 1].req] = "await"
              /\ backlog[i + 1].srv = SrvOf[backlog[i + 1].req]
              /\ \A j \in 1 .. Len(backlog) : backlog[j].req = backlog[i + 1].req => j = i + 1
    BY <2>1 DEF IInv, AnswerInv
  <2>3. backlog[i + 1].req # None => pc'[backlog[i + 1].req] = "await"
    BY <1>1, <1>2, <1>3, <2>1, <2>2
  <2>4. ASSUME backlog'[i].req # None, NEW j \in 1 .. Len(backlog'),
               backlog'[j].req = backlog'[i].req
        PROVE  j = i
    <3>1. j + 1 \in 1 .. Len(backlog) /\ backlog'[j] = backlog[j + 1]
      BY <1>1
    <3>2. j + 1 = i + 1
      BY <2>1, <2>2, <2>4, <3>1
    <3>3. QED
      BY <3>2, <1>1
  <2>5. QED
    BY <2>1, <2>2, <2>3, <2>4
<1>6. OrphanInv'
  BY <1>1, <1>2 DEF IInv, OrphanInv
<1>7. QED
  BY <1>1, <1>3, <1>4, <1>5, <1>6

\* The first frame belongs to a live server's waiting thread, or to nobody.
LEMMA FirstFrame ==
    ASSUME IInv, backlog # <<>>, Head(backlog).cmd # "HEARTBEAT"
    PROVE  LET f == Head(backlog) IN
           /\ f.srv \in Server /\ f.srv # None
           /\ \/ f.req = None /\ live[f.srv] = 0
              \/ /\ f.req \in Req /\ f.req # None /\ f.srv = SrvOf[f.req]
                 /\ pc[f.req] = "await" /\ granted[f.req] = {} /\ live[f.srv] > 0
           /\ f.cmd = "LEASE" /\ f.req # None => \A r \in Rank : leased_by[r] # f.srv
<1>1. backlog \in Seq(Frame) /\ 1 \in 1 .. Len(backlog) /\ Head(backlog) = backlog[1]
  BY DEF IInv, Sound, LTypeOK
<1>2. backlog[1] \in Frame
  BY <1>1
<1>3. backlog[1].srv \in Server /\ backlog[1].req \in Req \cup {None} /\ live[backlog[1].srv] \in Nat
  BY <1>2 DEF Frame, IInv, Sound, PoolInv, TypeOK
<1>4. CASE backlog[1].req = None
  BY <1>1, <1>3, <1>4 DEF IInv, OrphanInv
<1>5. CASE backlog[1].req # None
  BY <1>1, <1>3, <1>5 DEF IInv, AnswerInv, ThreadInv, HoldInv, Sound, LTypeOK
<1>6. QED
  BY <1>4, <1>5

\* A LEASE is granted: the group goes from the pool to the waiting thread.
LEMMA GrantKeeps ==
    ASSUME OneRequestEach, IInv, HandleLease, Grants(Head(backlog).srv, "request")
    PROVE  IInv'
<1> DEFINE f == Head(backlog)
           G == Group(f.srv, "request")
<1>1. /\ backlog # <<>> /\ f.cmd = "LEASE" /\ backlog' = Tail(backlog)
      /\ LeaseGranted(f.srv, "request")
      /\ LeaseAnswer(f.req, "use", Running(G))
  BY DEF HandleLease
<1>2. /\ f.srv \in Server /\ f.srv # None
      /\ \/ f.req = None /\ live[f.srv] = 0
         \/ /\ f.req \in Req /\ f.req # None /\ f.srv = SrvOf[f.req]
            /\ pc[f.req] = "await" /\ granted[f.req] = {} /\ live[f.srv] > 0
      /\ f.req # None => \A r \in Rank : leased_by[r] # f.srv
  BY <1>1, FirstFrame
<1>3. G \subseteq Rank /\ \A r \in G : leased_by[r] = None \/ leased_by[r] = f.srv
  BY DEF Group, FreeFor
<1>4. /\ leased_by' = [r \in Rank |-> IF r \in G THEN f.srv ELSE leased_by[r]]
      /\ UNCHANGED <<nodes, state, late, live, recorded>>
  BY <1>1 DEF LeaseGranted
<1>5. PoolInv'
  BY <1>1, <1>2, LeaseKeeps DEF IInv, Sound
<1>6. nstate' = nstate
  BY <1>1 DEF LeaseAnswer
<1>7. CASE f.req = None
  <2>1. UNCHANGED <<pc, granted>>
    BY <1>1, <1>7 DEF LeaseAnswer
  <2>2. /\ AnswerInv' /\ OrphanInv' /\ backlog' \in Seq(Frame) /\ Len(backlog') <= MaxBacklog
        /\ \A i \in 1 .. Len(backlog') : \E j \in 1 .. Len(backlog) : backlog'[i] = backlog[j]
    BY <1>1, <1>4, <2>1, TailKeeps
  <2>3. Sound' /\ ProcessInv' /\ ThreadInv'
    BY <1>4, <1>5, <1>6, <2>1, <2>2 DEF IInv, Sound, LTypeOK, ProcessInv, ThreadInv
  <2>4. \A q \in Req : pc[q] # "idle" => SrvOf[q] # f.srv
    BY <1>2, <1>7 DEF IInv, ThreadInv
  <2>5. \A q \in Req : granted[q] # {} => SrvOf[q] # f.srv
    BY <2>4 DEF IInv, Sound, LTypeOK
  <2>6. \A j \in 1 .. Len(backlog) : backlog[j].req # None => backlog[j].srv # f.srv
    <3>1. \A j \in 1 .. Len(backlog) : backlog[j] \in Frame
      BY DEF IInv, Sound, LTypeOK
    <3>2. QED
      BY <2>4, <3>1 DEF Frame, IInv, AnswerInv
  <2>7. \A q \in Req : pc'[q] \in {"idle", "first", "poll"} /\ live'[SrvOf[q]] > 0
                         => \A r \in Rank : leased_by'[r] # SrvOf[q]
    BY <1>2, <1>4, <1>7, <2>1 DEF IInv, HoldInv
  <2>8. \A i \in 1 .. Len(backlog') : backlog'[i].cmd = "LEASE" /\ backlog'[i].req # None
                         => \A r \in Rank : leased_by'[r] # backlog'[i].srv
    BY <1>4, <2>2, <2>6 DEF IInv, HoldInv
  <2>9. \A q \in Req : granted'[q] # {} =>
           \A r \in Rank : leased_by'[r] = SrvOf[q] <=> r \in granted'[q]
    <3>1. \A q \in Req : SrvOf[q] # None
      OBVIOUS
    <3>2. \A q \in Req : SrvOf[q] # f.srv =>
             \A r \in Rank : leased_by'[r] = SrvOf[q] <=> leased_by[r] = SrvOf[q]
      BY <1>3, <1>4, <3>1
    <3>3. QED
      BY <2>1, <2>5, <3>2 DEF IInv, HoldInv
  <2>10. HoldInv'
    BY <2>7, <2>8, <2>9 DEF HoldInv
  <2>11. QED
    BY <2>2, <2>3, <2>10 DEF IInv
<1>8. CASE f.req # None
  <2> DEFINE q == f.req
             R == Running(G)
  <2>1. /\ q \in Req /\ q # None /\ f.srv = SrvOf[q] /\ pc[q] = "await"
        /\ granted[q] = {} /\ live[f.srv] > 0 /\ \A r \in Rank : leased_by[r] # f.srv
    BY <1>2, <1>8
  <2>2. pc' = [pc EXCEPT ![q] = "use"] /\ granted' = [granted EXCEPT ![q] = R]
    BY <1>1, <1>8 DEF LeaseAnswer
  <2>3. R \in {G, {}} /\ \A r \in R : live[r] > 0
    BY DEF Running
  <2> HIDE DEF R, G, f
  <2>4. /\ pc'[q] = "use" /\ granted'[q] = R
        /\ \A p \in Req : p # q => pc'[p] = pc[p] /\ granted'[p] = granted[p]
    BY <2>1, <2>2 DEF IInv, Sound, LTypeOK
  <2>5. /\ AnswerInv' /\ OrphanInv' /\ backlog' \in Seq(Frame) /\ Len(backlog') <= MaxBacklog
        /\ \A i \in 1 .. Len(backlog') : \E j \in 1 .. Len(backlog) :
              /\ backlog'[i] = backlog[j]
              /\ backlog[j].req # None => backlog[j].req # q
    BY <1>1, <1>4, <2>4, TailKeeps DEF f
  <2>6. Sound'
    BY <1>3, <1>5, <1>6, <2>1, <2>2, <2>3, <2>4, <2>5 DEF IInv, Sound, LTypeOK
  <2>7. ProcessInv' /\ ThreadInv'
    BY <1>4, <2>1, <2>3, <2>4 DEF IInv, ProcessInv, ThreadInv
  <2>8. \A p \in Req : p # q => SrvOf[p] # f.srv
    BY <2>1 DEF OneRequestEach
  <2>9. \A p \in Req : p # q =>
           \A r \in Rank : leased_by'[r] = SrvOf[p] <=> leased_by[r] = SrvOf[p]
    <3>1. \A p \in Req : SrvOf[p] # None
      OBVIOUS
    <3>2. QED
      BY <1>3, <1>4, <2>8, <3>1
  <2>10. \A r \in Rank : leased_by'[r] = f.srv <=> r \in G
    BY <1>4, <2>1
  <2>11. \A p \in Req : pc'[p] \in {"idle", "first", "poll"} /\ live'[SrvOf[p]] > 0
                         => \A r \in Rank : leased_by'[r] # SrvOf[p]
    BY <1>4, <2>4, <2>9 DEF IInv, HoldInv
  <2>12. ASSUME NEW i \in 1 .. Len(backlog'), backlog'[i].cmd = "LEASE", backlog'[i].req # None
         PROVE  \A r \in Rank : leased_by'[r] # backlog'[i].srv
    <3>1. PICK j \in 1 .. Len(backlog) : backlog'[i] = backlog[j] /\ backlog[j].req # q
      BY <2>5, <2>12
    <3>2. backlog[j] \in Frame
      BY DEF IInv, Sound, LTypeOK
    <3>3. backlog[j].req \in Req /\ backlog[j].srv = SrvOf[backlog[j].req]
      BY <2>12, <3>1, <3>2 DEF Frame, IInv, AnswerInv
    <3>4. QED
      BY <2>9, <2>12, <3>1, <3>3 DEF IInv, HoldInv
  <2>13. \A p \in Req : granted'[p] # {} =>
            \A r \in Rank : leased_by'[r] = SrvOf[p] <=> r \in granted'[p]
    BY <2>1, <2>3, <2>4, <2>9, <2>10 DEF IInv, HoldInv
  <2>14. HoldInv'
    BY <2>11, <2>12, <2>13 DEF HoldInv
  <2>15. QED
    BY <2>5, <2>6, <2>7, <2>14 DEF IInv
<1>9. QED
  BY <1>7, <1>8

\* A LEASE is refused: the thread polls on, nothing else changes.
LEMMA DenyKeeps ==
    ASSUME OneRequestEach, IInv, HandleLease, ~Grants(Head(backlog).srv, "request")
    PROVE  IInv'
<1> DEFINE f == Head(backlog)
           q == f.req
<1>1. /\ backlog # <<>> /\ f.cmd = "LEASE" /\ backlog' = Tail(backlog)
      /\ UNCHANGED vars /\ LeaseAnswer(f.req, "poll", {}) /\ nstate' = nstate
  BY DEF HandleLease, LeaseAnswer
<1>2. /\ f.srv # None
      /\ \/ f.req = None
         \/ f.req \in Req /\ f.srv = SrvOf[f.req] /\ pc[f.req] = "await" /\ live[f.srv] > 0
      /\ f.req # None => \A r \in Rank : leased_by[r] # f.srv
  BY <1>1, FirstFrame
<1>3. /\ \A p \in Req : p # q => pc'[p] = pc[p] /\ granted'[p] = granted[p]
      /\ q # None => pc'[q] = "poll" /\ granted'[q] = {}
      /\ pc' \in [Req -> {"idle", "first", "poll", "await", "use", "release"}]
      /\ granted' \in [Req -> SUBSET Rank]
  BY <1>1, <1>2 DEF LeaseAnswer, IInv, Sound, LTypeOK
<1>4. /\ AnswerInv' /\ OrphanInv' /\ backlog' \in Seq(Frame) /\ Len(backlog') <= MaxBacklog
      /\ \A i \in 1 .. Len(backlog') : \E j \in 1 .. Len(backlog) : backlog'[i] = backlog[j]
  BY <1>1, <1>3, TailKeeps DEF vars
<1> HIDE DEF f
<1>5. Sound'
  <2>1. PoolInv'
    BY <1>1, PoolStutter DEF IInv, Sound
  <2>2. LTypeOK'
    BY <1>1, <1>2, <1>3, <1>4 DEF IInv, Sound, LTypeOK
  <2>3. QED
    BY <2>1, <2>2 DEF Sound
<1>6. ProcessInv' /\ ThreadInv'
  BY <1>1, <1>2, <1>3 DEF IInv, ProcessInv, ThreadInv, vars
<1>7. HoldInv'
  <2>1. leased_by' = leased_by /\ live' = live
    BY <1>1 DEF vars
  <2>2. \A p \in Req : pc'[p] \in {"idle", "first", "poll"} /\ live'[SrvOf[p]] > 0
                         => \A r \in Rank : leased_by'[r] # SrvOf[p]
    BY <1>2, <1>3, <2>1 DEF IInv, HoldInv
  <2>3. \A i \in 1 .. Len(backlog') : backlog'[i].cmd = "LEASE" /\ backlog'[i].req # None
                         => \A r \in Rank : leased_by'[r] # backlog'[i].srv
    BY <1>4, <2>1 DEF IInv, HoldInv
  <2>4. \A p \in Req : granted'[p] # {} =>
           \A r \in Rank : leased_by'[r] = SrvOf[p] <=> r \in granted'[p]
    BY <1>2, <1>3, <2>1 DEF IInv, HoldInv
  <2>5. QED
    BY <2>2, <2>3, <2>4 DEF HoldInv
<1>8. QED
  BY <1>4, <1>5, <1>6, <1>7 DEF IInv

\* A RELEASE frees what the server holds, and its thread is done with it.
LEMMA ReleaseKeeps == ASSUME OneRequestEach, IInv, HandleRelease PROVE IInv'
<1> DEFINE f == Head(backlog)
           q == f.req
<1>1. /\ backlog # <<>> /\ f.cmd = "RELEASE" /\ backlog' = Tail(backlog)
      /\ Release(f.srv)
      /\ IF f.req = None THEN UNCHANGED <<nstate, pc>> ELSE Leave(f.req)
      /\ granted' = granted
  BY DEF HandleRelease
<1>2. /\ f.srv \in Server /\ f.srv # None
      /\ \/ f.req = None /\ live[f.srv] = 0
         \/ /\ f.req \in Req /\ f.req # None /\ f.srv = SrvOf[f.req]
            /\ pc[f.req] = "await" /\ granted[f.req] = {} /\ live[f.srv] > 0
  BY <1>1, FirstFrame
<1>3. /\ \A p \in Req : p # q => pc'[p] = pc[p]
      /\ q # None => pc'[q] = "idle"
      /\ pc' \in [Req -> {"idle", "first", "poll", "await", "use", "release"}]
      /\ nstate' \in [Server -> {"ready", "busy"}]
  BY <1>1, <1>2 DEF Leave, IInv, Sound, LTypeOK
<1>4. UNCHANGED <<nodes, state, late, live, recorded>> /\ PoolInv'
  <2>1. PoolInv'
    BY <1>1, <1>2, FreeingKeeps DEF IInv, Sound
  <2>2. QED
    BY <1>1, <2>1 DEF Release
<1>5. \A r \in Rank : leased_by'[r] = IF leased_by[r] = f.srv THEN None ELSE leased_by[r]
  BY <1>1, <1>2 DEF Release, Free, HeldBy, IInv, Sound, PoolInv, Registered
<1>6. /\ AnswerInv' /\ OrphanInv' /\ backlog' \in Seq(Frame) /\ Len(backlog') <= MaxBacklog
      /\ \A i \in 1 .. Len(backlog') : \E j \in 1 .. Len(backlog) : backlog'[i] = backlog[j]
  BY <1>1, <1>3, <1>4, TailKeeps
<1> HIDE DEF f
<1>7. Sound'
  BY <1>1, <1>2, <1>3, <1>4, <1>6 DEF IInv, Sound, LTypeOK
<1>8. ProcessInv' /\ ThreadInv'
  BY <1>1, <1>3, <1>4 DEF IInv, ProcessInv, ThreadInv
<1>9. \A p \in Req : granted[p] # {} => SrvOf[p] # f.srv
  <2>1. \A p \in Req : granted[p] # {} => pc[p] = "use"
    BY DEF IInv, Sound, LTypeOK
  <2>2. CASE f.req = None
    BY <1>2, <2>1, <2>2 DEF IInv, ThreadInv
  <2>3. CASE f.req # None
    BY <1>2, <2>3 DEF OneRequestEach
  <2>4. QED
    BY <2>2, <2>3
<1>10. HoldInv'
  <2>1. \A p \in Req : pc'[p] \in {"idle", "first", "poll"} /\ live'[SrvOf[p]] > 0
                         => \A r \in Rank : leased_by'[r] # SrvOf[p]
    <3>1. \A p \in Req : SrvOf[p] # None
      OBVIOUS
    <3>2. QED
      BY <1>2, <1>3, <1>4, <1>5, <3>1 DEF IInv, HoldInv
  <2>2. \A i \in 1 .. Len(backlog') : backlog'[i].cmd = "LEASE" /\ backlog'[i].req # None
                         => \A r \in Rank : leased_by'[r] # backlog'[i].srv
    <3>1. \A j \in 1 .. Len(backlog) : backlog[j] \in Frame
      BY DEF IInv, Sound, LTypeOK
    <3>2. \A j \in 1 .. Len(backlog) : backlog[j].srv # None
      BY <3>1 DEF Frame
    <3>3. QED
      BY <1>5, <1>6, <3>2 DEF IInv, HoldInv
  <2>3. \A p \in Req : granted'[p] # {} =>
           \A r \in Rank : leased_by'[r] = SrvOf[p] <=> r \in granted'[p]
    <3>1. \A p \in Req : SrvOf[p] # None
      OBVIOUS
    <3>2. QED
      BY <1>1, <1>5, <1>9, <3>1 DEF IInv, HoldInv
  <2>4. QED
    BY <2>1, <2>2, <2>3 DEF HoldInv
<1>11. QED
  BY <1>6, <1>7, <1>8, <1>10 DEF IInv

\* Steps of the supervisor that leave leases, processes and threads alone and
\* make no node late that still has frames.
LEMMA QuietKeeps ==
    ASSUME IInv, PoolInv', UNCHANGED <<leased_by, live, recorded, nstate, pc, granted>>,
           backlog' = backlog \/ (backlog # <<>> /\ backlog' = Tail(backlog)
                                  /\ Head(backlog).cmd = "HEARTBEAT"),
           \A s \in Server : late'[s] /\ state'[s] # "dead" =>
                 \/ late[s] /\ state[s] # "dead"
                 \/ backlog' = backlog /\ \A i \in 1 .. Len(backlog) : backlog[i].srv # s,
           \A n \in Node : late'[n] => live[n] = 0 \/ state'[n] = "dead"
    PROVE  IInv'
<1>1. /\ AnswerInv' /\ OrphanInv' /\ backlog' \in Seq(Frame) /\ Len(backlog') <= MaxBacklog
      /\ \A i \in 1 .. Len(backlog') : \E j \in 1 .. Len(backlog) : backlog'[i] = backlog[j]
  <2>1. CASE backlog' = backlog
    <3>1. backlog \in Seq(Frame)
      BY DEF IInv, Sound, LTypeOK
    <3>2. \A i \in 1 .. Len(backlog) : backlog[i] \in Frame
      BY <3>1
    <3>3. \A i \in 1 .. Len(backlog) : backlog[i].srv \in Server
      BY <3>2 DEF Frame
    <3>4. AnswerInv'
      BY <2>1 DEF IInv, AnswerInv
    <3>5. OrphanInv'
      BY <2>1, <3>3 DEF IInv, OrphanInv
    <3>6. QED
      BY <2>1, <3>4, <3>5 DEF IInv, Sound, LTypeOK
  <2>2. CASE backlog' # backlog
    BY <2>2, TailKeeps
  <2>3. QED
    BY <2>1, <2>2
<1>2. Sound'
  BY <1>1 DEF IInv, Sound, LTypeOK
<1>3. ProcessInv' /\ ThreadInv'
  BY DEF IInv, ProcessInv, ThreadInv
<1>4. HoldInv'
  <2>1. \A i \in 1 .. Len(backlog') : backlog'[i].cmd = "LEASE" /\ backlog'[i].req # None
                         => \A r \in Rank : leased_by'[r] # backlog'[i].srv
    <3>1. \A j \in 1 .. Len(backlog) : backlog[j].cmd = "LEASE" /\ backlog[j].req # None
                         => \A r \in Rank : leased_by[r] # backlog[j].srv
      BY DEF IInv, HoldInv
    <3>2. leased_by' = leased_by
      OBVIOUS
    <3>3. QED
      BY <1>1, <3>1, <3>2
  <2>2. QED
    BY <2>1 DEF IInv, HoldInv
<1>5. QED
  BY <1>1, <1>2, <1>3, <1>4 DEF IInv

\* Heartbeats, read from the backlog or sent by the heartbeat thread.
LEMMA BeatKeeps ==
    ASSUME OneRequestEach, IInv, HandleBusyBeat \/ \E n \in Node : NodeBeats(n)
    PROVE  IInv'
<1>1. ASSUME NEW n \in Node, NEW st \in {"ready", "busy"}, HandleHeartbeat(n, st)
      PROVE  /\ PoolInv' /\ UNCHANGED <<leased_by, live, recorded>>
             /\ \A m \in Node : late'[m] => late[m] /\ state'[m] = state[m]
  <2>1. PoolInv' /\ UNCHANGED <<leased_by, live, recorded>>
    BY <1>1, HeartbeatKeeps DEF IInv, Sound, HandleHeartbeat
  <2>2. \A m \in Node : late'[m] => late[m] /\ state'[m] = state[m]
    BY <1>1 DEF IInv, Sound, PoolInv, TypeOK, HandleHeartbeat
  <2>3. QED
    BY <2>1, <2>2
<1>2. CASE HandleBusyBeat
  <2> DEFINE f == Head(backlog)
  <2>1. f.srv \in Node
    <3>1. backlog \in Seq(Frame) /\ backlog # <<>>
      BY <1>2 DEF IInv, Sound, LTypeOK, HandleBusyBeat
    <3>2. f \in Frame
      BY <3>1
    <3>3. QED
      BY <3>2 DEF Frame
  <2>2. CASE HasRoom(f.srv)
    <3>1. HandleHeartbeat(f.srv, "busy")
      BY <1>2, <2>2 DEF HandleBusyBeat
    <3>2. QED
      BY <1>1, <1>2, <2>1, <3>1, QuietKeeps DEF HandleBusyBeat, IInv, ProcessInv
  <2>3. CASE ~HasRoom(f.srv)
    <3>1. UNCHANGED vars
      BY <1>2, <2>3 DEF HandleBusyBeat
    <3>2. PoolInv'
      BY <3>1, PoolStutter DEF IInv, Sound
    <3>3. QED
      BY <1>2, <3>1, <3>2, QuietKeeps DEF HandleBusyBeat, IInv, ProcessInv, vars
  <2>4. QED
    BY <2>2, <2>3
<1>3. ASSUME NEW n \in Node, NodeBeats(n) PROVE IInv'
  <2>1. PICK st \in {"ready", "busy"} : HandleHeartbeat(n, st)
    BY <1>3 DEF NodeBeats, Heartbeat
  <2>2. UNCHANGED <<nstate, pc, granted, backlog>>
    BY <1>3 DEF NodeBeats, reqVars
  <2>3. QED
    BY <1>1, <2>1, <2>2, QuietKeeps DEF IInv, ProcessInv
<1>4. QED
  BY <1>2, <1>3

\* A node without process and frames becomes late.
LEMMA LateKeeps ==
    ASSUME OneRequestEach, IInv, NEW n \in Node, NodeLate(n)
    PROVE  IInv'
<1>1. PoolInv'
  BY EnvironmentKeeps DEF IInv, Sound, NodeLate
<1>2. live[n] = 0 /\ \A i \in 1 .. Len(backlog) : backlog[i].srv # n
  BY DEF NodeLate, OneRequestEach
<1>3. /\ late' = [late EXCEPT ![n] = TRUE]
      /\ UNCHANGED <<state, leased_by, live, recorded, nstate, pc, granted, backlog>>
  BY DEF NodeLate, GoesLate, reqVars
<1>4. \A m \in Node : late'[m] => late[m] \/ m = n
  BY <1>3 DEF IInv, Sound, PoolInv, TypeOK
<1>5. QED
  BY <1>1, <1>2, <1>3, <1>4, QuietKeeps DEF IInv, ProcessInv

-----------------------------------------------------------------------------
(* Processes.                                                              *)

\* What Broken(n) does to threads and frames when n has no process any more or
\* is about to get a new one.
LEMMA BrokenKeeps ==
    ASSUME IInv, NEW n \in Node, Broken(n)
    PROVE  /\ LTypeOK'
           /\ AnswerInv'
           /\ \A q \in Req : /\ SrvOf[q] = n => pc'[q] = "idle"
                             /\ SrvOf[q] # n => pc'[q] = pc[q]
                             /\ granted'[q] = {} \/ (granted'[q] = granted[q] /\ SrvOf[q] # n
                                                     /\ n \notin granted[q])
           /\ Len(backlog') = Len(backlog)
           /\ \A i \in 1 .. Len(backlog) :
                 /\ backlog'[i].cmd = backlog[i].cmd /\ backlog'[i].srv = backlog[i].srv
                 /\ backlog'[i].srv # n => backlog'[i].req = backlog[i].req
                 /\ backlog'[i].req # None => backlog'[i].req = backlog[i].req
<1> DEFINE Q == {q \in Req : SrvOf[q] = n}
<1>1. /\ nstate' = [s \in Server |-> IF s = n THEN "ready" ELSE nstate[s]]
      /\ pc' = [q \in Req |-> IF q \in Q THEN "idle" ELSE pc[q]]
      /\ granted' = [q \in Req |-> IF q \in Q \/ n \in granted[q] THEN {} ELSE granted[q]]
      /\ Abandon(Q)
  <2>1. ~(live[n] > 1)
    BY DEF IInv, ProcessInv
  <2>2. PartOf(Threads(n), n) = {Q} /\ PartOf(Users(n), n) = {Users(n)}
    BY <2>1 DEF PartOf, Threads
  <2>3. QED
    BY <2>2 DEF Broken, Users, Threads
<1>2. /\ backlog' \in Seq(Frame) /\ Len(backlog) \in Nat /\ Len(backlog') = Len(backlog)
      /\ \A i \in 1 .. Len(backlog) :
            /\ backlog'[i].cmd = backlog[i].cmd /\ backlog'[i].srv = backlog[i].srv
            /\ backlog'[i].req = IF backlog[i].req \in Q THEN None ELSE backlog[i].req
  BY <1>1, AbandonFrame DEF IInv, Sound
<1>3. \A q \in Req : /\ SrvOf[q] = n => pc'[q] = "idle"
                     /\ SrvOf[q] # n => pc'[q] = pc[q]
                     /\ granted'[q] = {} \/ (granted'[q] = granted[q] /\ SrvOf[q] # n
                                             /\ n \notin granted[q])
  BY <1>1
<1>4. LTypeOK'
  <2>1. nstate' \in [Server -> {"ready", "busy"}]
    BY <1>1 DEF IInv, Sound, LTypeOK
  <2>2. pc' \in [Req -> {"idle", "first", "poll", "await", "use", "release"}]
    BY <1>1 DEF IInv, Sound, LTypeOK
  <2>3. granted' \in [Req -> SUBSET Rank]
    BY <1>1 DEF IInv, Sound, LTypeOK
  <2>4. \A q \in Req : granted'[q] # {} => pc'[q] = "use"
    BY <1>3 DEF IInv, Sound, LTypeOK
  <2>5. Len(backlog') <= MaxBacklog
    BY <1>2 DEF IInv, Sound, LTypeOK
  <2>6. QED
    BY <1>2, <2>1, <2>2, <2>3, <2>4, <2>5 DEF LTypeOK
<1>5. \A i \in 1 .. Len(backlog) : backlog[i].req # None =>
         /\ backlog[i].req \in Req /\ pc[backlog[i].req] = "await"
         /\ backlog[i].srv = SrvOf[backlog[i].req]
         /\ \A j \in 1 .. Len(backlog) : backlog[j].req = backlog[i].req => j = i
  <2>1. backlog \in Seq(Frame)
    BY DEF IInv, Sound, LTypeOK
  <2>2. \A i \in 1 .. Len(backlog) : backlog[i] \in Frame
    BY <2>1
  <2>3. QED
    BY <2>2 DEF Frame, IInv, AnswerInv
<1>6. \A i \in 1 .. Len(backlog) :
         /\ backlog'[i].req # None => backlog'[i].req = backlog[i].req /\ SrvOf[backlog[i].req] # n
         /\ backlog'[i].srv # n => backlog'[i].req = backlog[i].req
  BY <1>2, <1>5
<1>7. \A i \in 1 .. Len(backlog) : backlog[i].cmd = "HEARTBEAT" => backlog[i].req = None
  BY DEF IInv, AnswerInv
<1>8. AnswerInv'
  <2> SUFFICES ASSUME NEW i \in 1 .. Len(backlog)
               PROVE  /\ backlog'[i].cmd = "HEARTBEAT" => backlog'[i].req = None
                      /\ backlog'[i].req # None =>
                            /\ pc'[backlog'[i].req] = "await"
                            /\ backlog'[i].srv = SrvOf[backlog'[i].req]
                            /\ \A j \in 1 .. Len(backlog) :
                                  backlog'[j].req = backlog'[i].req => j = i
    BY <1>2 DEF AnswerInv
  <2>1. backlog'[i].cmd = "HEARTBEAT" => backlog'[i].req = None
    BY <1>2, <1>6, <1>7
  <2>2. ASSUME backlog'[i].req # None
        PROVE  /\ pc'[backlog'[i].req] = "await"
               /\ backlog'[i].srv = SrvOf[backlog'[i].req]
    BY <1>2, <1>3, <1>5, <1>6, <2>2
  <2>3. ASSUME backlog'[i].req # None, NEW j \in 1 .. Len(backlog),
               backlog'[j].req = backlog'[i].req
        PROVE  j = i
    BY <1>5, <1>6, <2>3
  <2>4. QED
    BY <2>1, <2>2, <2>3
<1>9. QED
  BY <1>2, <1>3, <1>4, <1>6, <1>8

\* A process ends: its threads and inferences end with it, its leases stay.
LEMMA EndsKeeps == ASSUME OneRequestEach, IInv, NEW n \in Node, NodeEnds(n) PROVE IInv'
<1>1. ProcessEnds(n) /\ Broken(n)
  BY DEF NodeEnds
<1>2. /\ LTypeOK' /\ AnswerInv'
      /\ \A q \in Req : /\ SrvOf[q] = n => pc'[q] = "idle"
                        /\ SrvOf[q] # n => pc'[q] = pc[q]
                        /\ granted'[q] = {} \/ (granted'[q] = granted[q] /\ SrvOf[q] # n
                                                /\ n \notin granted[q])
      /\ Len(backlog') = Len(backlog)
      /\ \A i \in 1 .. Len(backlog) :
            /\ backlog'[i].cmd = backlog[i].cmd /\ backlog'[i].srv = backlog[i].srv
            /\ backlog'[i].srv # n => backlog'[i].req = backlog[i].req
            /\ backlog'[i].req # None => backlog'[i].req = backlog[i].req
  BY <1>1, BrokenKeeps
<1>3. PoolInv'
  BY <1>1, EnvironmentKeeps DEF IInv, Sound
<1>4. UNCHANGED <<nodes, state, late, leased_by>>
  BY <1>1 DEF ProcessEnds
<1>5. live[n] = 1 /\ recorded[n]
  BY <1>1 DEF ProcessEnds, IInv, ProcessInv
<1>6. live' = [live EXCEPT ![n] = live[n] - 1] /\ recorded' = [recorded EXCEPT ![n] = FALSE]
  BY <1>1, <1>5 DEF ProcessEnds
<1>7. live'[n] = 0 /\ ~recorded'[n] /\ \A m \in Node : m # n => live'[m] = live[m] /\ recorded'[m] = recorded[m]
  BY <1>5, <1>6 DEF IInv, Sound, PoolInv, TypeOK
<1>8. ProcessInv'
  BY <1>4, <1>7 DEF IInv, ProcessInv
<1>9. ThreadInv'
  <2>1. \A q \in Req : granted[q] \subseteq Rank /\ SrvOf[q] \in Node
    BY DEF IInv, Sound, LTypeOK
  <2>2. QED
    BY <1>2, <1>7, <2>1 DEF IInv, ThreadInv
<1>10. OrphanInv'
  <2>1. \A i \in 1 .. Len(backlog) : backlog[i].srv \in Node
    <3>1. backlog \in Seq(Frame)
      BY DEF IInv, Sound, LTypeOK
    <3>2. \A i \in 1 .. Len(backlog) : backlog[i] \in Frame
      BY <3>1
    <3>3. QED
      BY <3>2 DEF Frame
  <2>2. \A i \in 1 .. Len(backlog) : ~(late'[backlog'[i].srv] /\ state'[backlog'[i].srv] # "dead")
    BY <1>2, <1>4 DEF IInv, OrphanInv
  <2>3. \A i \in 1 .. Len(backlog) :
           live'[backlog'[i].srv] > 0 /\ backlog'[i].req = None => backlog'[i].cmd = "HEARTBEAT"
    BY <1>2, <1>7, <2>1 DEF IInv, OrphanInv
  <2>4. QED
    BY <1>2, <2>2, <2>3 DEF OrphanInv
<1>11. HoldInv'
  <2>1. \A q \in Req : pc'[q] \in {"idle", "first", "poll"} /\ live'[SrvOf[q]] > 0
                         => \A r \in Rank : leased_by'[r] # SrvOf[q]
    BY <1>2, <1>4, <1>7 DEF IInv, HoldInv
  <2>2. \A i \in 1 .. Len(backlog) : backlog'[i].cmd = "LEASE" /\ backlog'[i].req # None
                         => \A r \in Rank : leased_by'[r] # backlog'[i].srv
    BY <1>2, <1>4 DEF IInv, HoldInv
  <2>3. \A q \in Req : granted'[q] # {} =>
           \A r \in Rank : leased_by'[r] = SrvOf[q] <=> r \in granted'[q]
    BY <1>2, <1>4 DEF IInv, HoldInv
  <2>4. QED
    BY <1>2, <2>1, <2>2, <2>3 DEF HoldInv
<1>12. QED
  BY <1>2, <1>3, <1>8, <1>9, <1>10, <1>11 DEF IInv, Sound

\* A late node is declared dead, leases of nobody's inference are freed, and
\* with --auto-heal a new process starts: what HealServer and HealRank share.
LEMMA DeclaredDeadKeeps ==
    ASSUME OneRequestEach, IInv, NEW n \in Node, late[n], state[n] # "dead",
           state' = [state EXCEPT ![n] = "dead"], UNCHANGED late, PoolInv',
           RespawnIfHealing(n),
           IF AutoHeal /\ recorded[n] THEN Broken(n) ELSE UNCHANGED reqVars,
           \A r \in Rank :
              \/ leased_by'[r] = leased_by[r] /\ leased_by[r] # n
              \/ leased_by'[r] = None /\ \A q \in Req : granted[q] # {} => leased_by[r] # SrvOf[q]
    PROVE  IInv'
<1>1. live[n] = 0 /\ ~recorded[n] /\ \A q \in Req : n \notin granted[q]
  BY DEF IInv, ProcessInv, ThreadInv
<1>2. \A q \in Req : SrvOf[q] \in Node /\ SrvOf[q] # None /\ granted[q] \subseteq Rank
  BY DEF IInv, Sound, LTypeOK
<1>3. \A q \in Req : SrvOf[q] = n => pc[q] = "idle" /\ granted[q] = {}
  BY <1>1 DEF IInv, ThreadInv, Sound, LTypeOK
<1>4. \A i \in 1 .. Len(backlog) : /\ backlog[i].srv # n /\ backlog[i].srv # None
                                   /\ backlog[i].srv \in Node /\ backlog[i].req \in Req \cup {None}
  <2>1. backlog \in Seq(Frame)
    BY DEF IInv, Sound, LTypeOK
  <2>2. \A i \in 1 .. Len(backlog) : backlog[i] \in Frame
    BY <2>1
  <2>3. QED
    BY <2>2 DEF Frame, IInv, OrphanInv
<1>5. /\ LTypeOK' /\ AnswerInv'
      /\ \A q \in Req : /\ SrvOf[q] = n => pc'[q] = "idle"
                        /\ SrvOf[q] # n => pc'[q] = pc[q]
                        /\ granted'[q] = {} \/ granted'[q] = granted[q]
      /\ Len(backlog') = Len(backlog)
      /\ \A i \in 1 .. Len(backlog) :
            /\ backlog'[i].cmd = backlog[i].cmd /\ backlog'[i].srv = backlog[i].srv
            /\ backlog'[i].req = backlog[i].req
  <2>1. UNCHANGED <<nstate, pc, granted, backlog>>
    BY <1>1 DEF reqVars
  <2>2. LTypeOK' /\ AnswerInv'
    BY <2>1 DEF IInv, Sound, LTypeOK, AnswerInv
  <2>3. QED
    BY <1>3, <2>1, <2>2
<1>6. /\ \/ live'[n] = 1 /\ recorded'[n]
         \/ live'[n] = 0 /\ ~recorded'[n]
      /\ \A m \in Node : m # n => live'[m] = live[m] /\ (recorded'[m] <=> recorded[m])
  <2>1. CASE AutoHeal
    <3>1. SpawnedAs[n] = n
      BY SpawnAssumption DEF OneRequestEach
    <3>2. TypeOK
      BY DEF IInv, Sound, PoolInv
    <3>3. live'[n] = 1 /\ recorded'[n]
      BY <1>1, <2>1, <3>1, <3>2, RespawnEffect
    <3>4. \A m \in Node : m # n => live'[m] = live[m] /\ (recorded'[m] <=> recorded[m])
      BY <2>1, <3>1, <3>2, RespawnEffect
    <3>5. QED
      BY <3>3, <3>4
  <2>2. CASE ~AutoHeal
    BY <1>1, <2>2 DEF RespawnIfHealing
  <2>3. QED
    BY <2>1, <2>2
<1>7. state'[n] = "dead" /\ \A m \in Node : m # n => state'[m] = state[m]
  BY DEF IInv, Sound, PoolInv, TypeOK
<1>8. ProcessInv'
  BY <1>6, <1>7 DEF IInv, ProcessInv
<1>9. ThreadInv'
  BY <1>1, <1>2, <1>5, <1>6 DEF IInv, ThreadInv
<1>10. OrphanInv'
  <2>1. \A i \in 1 .. Len(backlog) : ~(late'[backlog'[i].srv] /\ state'[backlog'[i].srv] # "dead")
    BY <1>4, <1>5, <1>7 DEF IInv, OrphanInv
  <2>2. \A i \in 1 .. Len(backlog) :
           live'[backlog'[i].srv] > 0 /\ backlog'[i].req = None => backlog'[i].cmd = "HEARTBEAT"
    BY <1>4, <1>5, <1>6 DEF IInv, OrphanInv
  <2>3. QED
    BY <1>5, <2>1, <2>2 DEF OrphanInv
<1>11. HoldInv'
  <2>1. \A q \in Req : pc'[q] \in {"idle", "first", "poll"} /\ live'[SrvOf[q]] > 0
                         => \A r \in Rank : leased_by'[r] # SrvOf[q]
    <3>1. ASSUME NEW q \in Req, SrvOf[q] = n PROVE \A r \in Rank : leased_by'[r] # SrvOf[q]
      BY <1>2, <3>1
    <3>2. ASSUME NEW q \in Req, SrvOf[q] # n, pc'[q] \in {"idle", "first", "poll"},
                 live'[SrvOf[q]] > 0
          PROVE  \A r \in Rank : leased_by'[r] # SrvOf[q]
      <4>1. \A r \in Rank : leased_by[r] # SrvOf[q]
        BY <1>2, <1>5, <1>6, <3>2 DEF IInv, HoldInv
      <4>2. QED
        BY <1>2, <4>1
    <3>3. QED
      BY <3>1, <3>2
  <2>2. \A i \in 1 .. Len(backlog) : backlog'[i].cmd = "LEASE" /\ backlog'[i].req # None
                         => \A r \in Rank : leased_by'[r] # backlog'[i].srv
    <3>1. \A i \in 1 .. Len(backlog) : backlog[i].cmd = "LEASE" /\ backlog[i].req # None
                         => \A r \in Rank : leased_by[r] # backlog[i].srv
      BY DEF IInv, HoldInv
    <3>2. QED
      BY <1>4, <1>5, <3>1
  <2>3. ASSUME NEW q \in Req, granted'[q] # {}
        PROVE  \A r \in Rank : leased_by'[r] = SrvOf[q] <=> r \in granted'[q]
    <3>1. granted'[q] = granted[q]
      BY <1>5, <2>3
    <3>2. \A r \in Rank : leased_by[r] = SrvOf[q] <=> r \in granted[q]
      BY <2>3, <3>1 DEF IInv, HoldInv
    <3>3. QED
      BY <1>2, <2>3, <3>1, <3>2
  <2>4. QED
    BY <1>5, <2>1, <2>2, <2>3 DEF HoldInv
<1>12. QED
  BY <1>5, <1>8, <1>9, <1>10, <1>11 DEF IInv, Sound

\* A dead server's threads are gone, so its leases are nobody's; a dead rank is
\* in no inference, so the leases freed with it are nobody's either.
LEMMA HealedKeeps == ASSUME OneRequestEach, IInv, NEW n \in Node, NodeHealed(n) PROVE IInv'
<1>1. CASE n \in Server
  <2>1. HealServer(n) /\ IF AutoHeal /\ recorded[n] THEN Broken(n) ELSE UNCHANGED reqVars
    BY <1>1 DEF NodeHealed
  <2>2. PoolInv'
    BY <1>1, <2>1, HealServerKeeps DEF IInv, Sound
  <2>3. late[n] /\ state[n] # "dead" /\ live[n] = 0
    BY <2>1 DEF HealServer, DeadlineHit, IInv, ProcessInv
  <2>4. \A q \in Req : granted[q] # {} => SrvOf[q] # n
    BY <2>3 DEF IInv, ThreadInv, Sound, LTypeOK
  <2>5. \A r \in Rank : leased_by'[r] = IF leased_by[r] = n THEN None ELSE leased_by[r]
    BY <1>1, <2>1 DEF HealServer, Reclaimed, Free, HeldBy, IInv, Sound, PoolInv, Registered
  <2>6. QED
    BY <2>1, <2>2, <2>3, <2>4, <2>5, DeclaredDeadKeeps DEF HealServer
<1>2. CASE n \in Rank
  <2>1. HealRank(n) /\ IF AutoHeal /\ recorded[n] THEN Broken(n) ELSE UNCHANGED reqVars
    BY <1>2 DEF NodeHealed
  <2>2. PoolInv'
    BY <1>2, <2>1, HealRankKeeps DEF IInv, Sound
  <2>3. late[n] /\ state[n] # "dead" /\ live[n] = 0
    BY <2>1 DEF HealRank, DeadlineHit, IInv, ProcessInv
  <2>4. \A q \in Req : granted[q] # {} => leased_by[n] # SrvOf[q]
    BY <1>2, <2>3 DEF IInv, ThreadInv, HoldInv
  <2>5. \A r \in FreedWith(n) : leased_by[r] = leased_by[n]
    BY DEF FreedWith, HeldBy
  <2>6. \A r \in Rank : leased_by'[r] = IF r \in FreedWith(n) THEN None ELSE leased_by[r]
    BY <2>1 DEF HealRank, Free
  <2>7. \A r \in Rank : leased_by[r] # n
    BY <1>2 DEF IInv, Sound, PoolInv, TypeOK
  <2>8. QED
    BY <2>1, <2>2, <2>3, <2>4, <2>5, <2>6, <2>7, DeclaredDeadKeeps DEF HealRank
<1>3. QED
  BY <1>1, <1>2

-----------------------------------------------------------------------------
\* Every step of the protocol keeps the invariant.
LEMMA LeaseStep == OneRequestEach /\ IInv /\ [LNext]_lvars => IInv'
<1> SUFFICES ASSUME OneRequestEach, IInv, [LNext]_lvars PROVE IInv'
  OBVIOUS
<1>1. ASSUME NEW q \in Req, Arrive(q) \/ ReqStep(q) \/ GiveUp(q) \/ CallTimeout(q)
      PROVE  IInv'
  <2>1. ~CallTimeout(q)
    BY DEF CallTimeout, OneRequestEach
  <2>2. QED
    BY <1>1, <2>1, ArriveKeeps, SendLeaseKeeps, SendReleaseKeeps, LeavingKeeps DEF ReqStep
<1>2. CASE SvStep
  <2>1. CASE HandleLease
    BY <2>1, GrantKeeps, DenyKeeps
  <2>2. QED
    BY <1>2, <2>1, ReleaseKeeps, BeatKeeps DEF SvStep
<1>3. ASSUME NEW n \in Node, NodeEnds(n) \/ NodeHealed(n) \/ NodeLate(n) \/ NodeBeats(n)
                               \/ NodeStarts(n)
      PROVE  IInv'
  <2>1. ~NodeStarts(n)
    BY DEF NodeStarts, ExternalStart, OneRequestEach
  <2>2. QED
    BY <1>3, <2>1, EndsKeeps, HealedKeeps, LateKeeps, BeatKeeps
<1>4. CASE UNCHANGED lvars
  <2>1. UNCHANGED vars /\ UNCHANGED <<nstate, pc, granted, backlog>>
    BY <1>4 DEF lvars
  <2>2. PoolInv'
    BY <2>1, PoolStutter DEF IInv, Sound
  <2>3. QED
    BY <2>1, <2>2, QuietKeeps DEF vars, IInv, ProcessInv
<1>5. QED
  BY <1>1, <1>2, <1>3, <1>4 DEF LNext

\* Every inference runs on ranks leased to its server, and no rank ever works
\* for two servers (LEASE before and RELEASE after the inference, server.c
\* handle_frame; handle_lease, handle_release and heal_dead of supervisor.c):
\* for any number of servers and ranks, through crashes and respawns of any of
\* them, as long as OneRequestEach holds.
THEOREM ExclusiveLease == OneRequestEach /\ LSpec => [](UseIsLeased /\ ExclusiveUse)
<1>1. IInv => UseIsLeased /\ ExclusiveUse
  <2> SUFFICES ASSUME IInv PROVE UseIsLeased /\ ExclusiveUse
    OBVIOUS
  <2>1. \A q \in Req : \A r \in granted[q] : leased_by[r] = SrvOf[q]
    BY DEF IInv, Sound, LTypeOK, HoldInv
  <2>2. UseIsLeased
    BY <2>1 DEF UseIsLeased
  <2>3. ExclusiveUse
    BY <2>1 DEF ExclusiveUse
  <2>4. QED
    BY <2>2, <2>3
<1>2. ASSUME OneRequestEach PROVE LSpec => [](UseIsLeased /\ ExclusiveUse)
  <2>1. LInit => IInv
    BY <1>2, LeaseInit
  <2>2. IInv /\ [LNext]_lvars => IInv'
    BY <1>2, LeaseStep
  <2>3. QED
    BY <1>1, <2>1, <2>2, PTL DEF LSpec
<1>3. QED
  BY <1>2

\* While an inference runs, every rank it runs on is leased to its server
\* (handle_frame of server.c leases before and releases after forward_infer).
THEOREM LeaseCoversUse == OneRequestEach /\ LSpec => []UseIsLeased
<1>1. ASSUME OneRequestEach PROVE LSpec => []UseIsLeased
  BY <1>1, ExclusiveLease, PTL
<1>2. QED
  BY <1>1

-----------------------------------------------------------------------------
(***************************************************************************)
(* The calls themselves, without any condition: stalls, crashes, external  *)
(* restarts and several requests in one server included.                   *)
(***************************************************************************)

\* Nobody waits for the answer to a heartbeat.
CallInv ==
    /\ LTypeOK /\ OneAnswer
    /\ \A i \in 1 .. Len(backlog) : backlog[i].cmd = "HEARTBEAT" => backlog[i].req = None

\* Frame i has thread q as its reader.
Reads(q, i) == backlog[i].req = q

\* The parts of CallInv, with the frames of a thread named.
LEMMA CallParts ==
    ASSUME CallInv
    PROVE  /\ \A q \in Req : pc[q] = "await" <=> \E i \in 1 .. Len(backlog) : Reads(q, i)
           /\ \A q \in Req : \A i, j \in 1 .. Len(backlog) :
                 Reads(q, i) /\ Reads(q, j) => i = j /\ backlog[i].srv = SrvOf[q]
  BY DEF CallInv, OneAnswer, Reads

\* A thread sends a frame and waits for its answer, or sends a heartbeat.
LEMMA CallSend ==
    ASSUME CallInv, NEW q \in Req, NEW c \in {"HEARTBEAT", "LEASE", "RELEASE"},
           NEW z \in {None, q}, NEW l, pc[q] # "await", Len(backlog) < MaxBacklog,
           z = q => c # "HEARTBEAT" /\ l = "await",
           z = None => c = "HEARTBEAT" /\ l = "first",
           pc' = [pc EXCEPT ![q] = l],
           backlog' = Append(backlog, [cmd |-> c, srv |-> SrvOf[q], req |-> z]),
           nstate' \in [Server -> {"ready", "busy"}],
           granted' = granted, pc[q] # "use"
    PROVE  CallInv'
<1> DEFINE f == [cmd |-> c, srv |-> SrvOf[q], req |-> z]
<1>1. f \in Frame /\ f.cmd = c /\ f.srv = SrvOf[q] /\ f.req = z
  BY DEF Frame
<1>2. backlog' = Append(backlog, f)
  OBVIOUS
<1> HIDE DEF f
<1>3. /\ backlog' \in Seq(Frame) /\ Len(backlog) \in Nat
      /\ Len(backlog') = Len(backlog) + 1
      /\ backlog'[Len(backlog) + 1] = f
      /\ \A i \in 1 .. Len(backlog) : backlog'[i] = backlog[i]
      /\ \A i \in 1 .. Len(backlog') : i \in 1 .. Len(backlog) \/ i = Len(backlog) + 1
  BY <1>1, <1>2, AppendFrame DEF CallInv
<1>4. LTypeOK'
  BY <1>3 DEF CallInv, LTypeOK
<1>5. \A i \in 1 .. Len(backlog') : backlog'[i].cmd = "HEARTBEAT" => backlog'[i].req = None
  BY <1>1, <1>3 DEF CallInv
<1>6. \A p \in Req : pc'[p] = IF p = q THEN l ELSE pc[p]
  BY DEF CallInv, LTypeOK
<1>7. None \notin Req /\ \A i \in 1 .. Len(backlog) : ~Reads(q, i)
  BY CallParts
<1>8. ASSUME NEW p \in Req
      PROVE  /\ pc'[p] = "await" <=> \E i \in 1 .. Len(backlog') : backlog'[i].req = p
             /\ \A i, j \in 1 .. Len(backlog') :
                   backlog'[i].req = p /\ backlog'[j].req = p
                      => i = j /\ backlog'[i].srv = SrvOf[p]
  <2>1. \A i \in 1 .. Len(backlog') : backlog'[i].req = p <=>
           (i \in 1 .. Len(backlog) /\ Reads(p, i)) \/ (i = Len(backlog) + 1 /\ z = p)
    BY <1>1, <1>3 DEF Reads
  <2>2. 1 .. Len(backlog) \subseteq 1 .. Len(backlog') /\ Len(backlog) + 1 \in 1 .. Len(backlog')
    BY <1>3
  <2>3. CASE p = q
    BY <1>1, <1>3, <1>6, <1>7, <2>1, <2>2, <2>3
  <2>4. CASE p # q
    BY <1>1, <1>3, <1>6, <1>7, <2>1, <2>2, <2>4, CallParts
  <2>5. QED
    BY <2>3, <2>4
<1>9. QED
  BY <1>4, <1>5, <1>8 DEF CallInv, OneAnswer

\* The supervisor handles a frame; its reader, if there is one, goes on.
LEMMA CallHandled ==
    ASSUME CallInv, backlog # <<>>, backlog' = Tail(backlog),
           NEW l \in {"idle", "poll", "use"},
           nstate' \in [Server -> {"ready", "busy"}],
           pc' = IF Head(backlog).req = None THEN pc ELSE [pc EXCEPT ![Head(backlog).req] = l],
           NEW G \in SUBSET Rank, G # {} => l = "use",
           granted' = granted \/ (/\ Head(backlog).req # None
                                  /\ granted' = [granted EXCEPT ![Head(backlog).req] = G])
    PROVE  CallInv'
<1> DEFINE h == backlog[1].req
<1>1. /\ backlog' \in Seq(Frame) /\ Len(backlog) \in Nat /\ 1 \in 1 .. Len(backlog)
      /\ Len(backlog') = Len(backlog) - 1
      /\ Head(backlog) = backlog[1] /\ Head(backlog) \in Frame
      /\ \A i \in 1 .. Len(backlog') :
            i + 1 \in 1 .. Len(backlog) /\ i + 1 # 1 /\ backlog'[i] = backlog[i + 1]
  BY TailFrame DEF CallInv
<1>2. h \in Req \cup {None} /\ None \notin Req
  BY <1>1 DEF Frame
<1>3. h # None => pc[h] = "await" /\ granted[h] = {}
  BY <1>1, <1>2, CallParts DEF Reads, CallInv, LTypeOK
<1>4. \A p \in Req : pc'[p] = IF p = h THEN l ELSE pc[p]
  BY <1>1, <1>2 DEF CallInv, LTypeOK
<1>5. \A p \in Req : granted'[p] = granted[p] \/ (p = h /\ granted'[p] = G)
  BY <1>1, <1>2 DEF CallInv, LTypeOK
<1>6. LTypeOK'
  <2>1. pc' \in [Req -> {"idle", "first", "poll", "await", "use", "release"}]
    BY <1>1, <1>2 DEF CallInv, LTypeOK
  <2>2. granted' \in [Req -> SUBSET Rank]
    BY <1>1, <1>2 DEF CallInv, LTypeOK
  <2>3. \A q \in Req : granted'[q] # {} => pc'[q] = "use"
    BY <1>2, <1>3, <1>4, <1>5 DEF CallInv, LTypeOK
  <2>4. Len(backlog') <= MaxBacklog
    BY <1>1 DEF CallInv, LTypeOK
  <2>5. QED
    BY <1>1, <2>1, <2>2, <2>3, <2>4 DEF LTypeOK
<1>7. \A i \in 1 .. Len(backlog') : backlog'[i].cmd = "HEARTBEAT" => backlog'[i].req = None
  BY <1>1 DEF CallInv
<1>8. ASSUME NEW p \in Req
      PROVE  /\ pc'[p] = "await" <=> \E i \in 1 .. Len(backlog') : backlog'[i].req = p
             /\ \A i, j \in 1 .. Len(backlog') :
                   backlog'[i].req = p /\ backlog'[j].req = p
                      => i = j /\ backlog'[i].srv = SrvOf[p]
  <2>1. \A i \in 1 .. Len(backlog') : backlog'[i].req = p <=> Reads(p, i + 1)
    BY <1>1 DEF Reads
  <2>2. \A i \in 1 .. Len(backlog) : i # 1 => i - 1 \in 1 .. Len(backlog') /\ (i - 1) + 1 = i
    BY <1>1
  <2>3. ASSUME NEW i \in 1 .. Len(backlog'), NEW j \in 1 .. Len(backlog'),
               backlog'[i].req = p, backlog'[j].req = p
        PROVE  i = j /\ backlog'[i].srv = SrvOf[p]
    <3>1. Reads(p, i + 1) /\ Reads(p, j + 1)
      BY <2>1, <2>3
    <3>2. i + 1 = j + 1 /\ backlog[i + 1].srv = SrvOf[p]
      BY <1>1, <3>1, CallParts
    <3>3. QED
      BY <1>1, <3>2
  <2>4. CASE p = h
    <3>1. Reads(p, 1)
      BY <2>4 DEF Reads
    <3>2. \A i \in 1 .. Len(backlog') : ~Reads(p, i + 1)
      BY <1>1, <3>1, CallParts
    <3>3. pc'[p] # "await"
      BY <1>4, <2>4
    <3>4. QED
      BY <2>1, <2>3, <3>2, <3>3
  <2>5. CASE p # h
    <3>1. ~Reads(p, 1) /\ pc'[p] = pc[p]
      BY <1>4, <2>5 DEF Reads
    <3>2. pc[p] = "await" <=> \E i \in 1 .. Len(backlog) : Reads(p, i)
      BY CallParts
    <3>3. (\E i \in 1 .. Len(backlog) : Reads(p, i)) <=>
             \E i \in 1 .. Len(backlog') : Reads(p, i + 1)
      <4>1. ASSUME NEW i \in 1 .. Len(backlog), Reads(p, i)
            PROVE  \E j \in 1 .. Len(backlog') : Reads(p, j + 1)
        <5>1. i # 1
          BY <3>1, <4>1
        <5>2. i - 1 \in 1 .. Len(backlog') /\ Reads(p, (i - 1) + 1)
          BY <2>2, <4>1, <5>1
        <5>3. QED
          BY <5>2
      <4>2. QED
        BY <1>1, <4>1
    <3>4. QED
      BY <2>1, <2>3, <3>1, <3>2, <3>3
  <2>6. QED
    BY <2>4, <2>5
<1>9. QED
  BY <1>6, <1>7, <1>8 DEF CallInv, OneAnswer

\* The threads of Q give up their calls; nobody else starts or ends one.
LEMMA CallAbandoned ==
    ASSUME CallInv, NEW Q \in SUBSET Req, Abandon(Q) \/ (Q = {} /\ backlog' = backlog),
           nstate' \in [Server -> {"ready", "busy"}],
           pc' \in [Req -> {"idle", "first", "poll", "await", "use", "release"}],
           granted' \in [Req -> SUBSET Rank],
           \A q \in Req : pc'[q] = "await" <=> pc[q] = "await" /\ q \notin Q,
           \A q \in Req : granted'[q] # {} => pc'[q] = "use"
    PROVE  CallInv'
<1>1. /\ backlog' \in Seq(Frame) /\ Len(backlog) \in Nat /\ Len(backlog') = Len(backlog)
      /\ \A i \in 1 .. Len(backlog) :
            /\ backlog'[i].cmd = backlog[i].cmd /\ backlog'[i].srv = backlog[i].srv
            /\ backlog'[i].req = IF backlog[i].req \in Q THEN None ELSE backlog[i].req
  <2>1. CASE Abandon(Q)
    BY <2>1, AbandonFrame DEF CallInv
  <2>2. CASE Q = {} /\ backlog' = backlog
    BY <2>2 DEF CallInv, LTypeOK
  <2>3. QED
    BY <2>1, <2>2
<1>2. LTypeOK'
  BY <1>1 DEF CallInv, LTypeOK
<1>3. \A i \in 1 .. Len(backlog') : backlog'[i].cmd = "HEARTBEAT" => backlog'[i].req = None
  BY <1>1 DEF CallInv
<1>4. \A q \in Req : \A i \in 1 .. Len(backlog) :
         backlog'[i].req = q <=> Reads(q, i) /\ q \notin Q
  <2>1. None \notin Req
    OBVIOUS
  <2>2. QED
    BY <1>1, <2>1 DEF Reads
<1>5. OneAnswer'
  BY <1>1, <1>4, CallParts DEF OneAnswer
<1>6. QED
  BY <1>2, <1>3, <1>5 DEF CallInv

\* The request threads (srv_conn, handle_frame of server.c).
LEMMA CallThreads ==
    ASSUME CallInv, NEW q \in Req, Arrive(q) \/ ReqStep(q) \/ GiveUp(q) \/ CallTimeout(q)
    PROVE  CallInv'
<1> USE DEF Leave
<1>0. \A x \in {"ready", "busy"} : [nstate EXCEPT ![SrvOf[q]] = x] \in [Server -> {"ready", "busy"}]
  BY DEF CallInv, LTypeOK
<1>1. CASE Arrive(q)
  BY <1>0, <1>1, CallSend, "HEARTBEAT" \in {"HEARTBEAT", "LEASE", "RELEASE"} DEF Arrive
<1>2. CASE SendLease(q)
  <2>1. nstate' = nstate /\ granted' = granted /\ pc[q] # "await" /\ pc[q] # "use"
    BY <1>2 DEF SendLease
  <2>2. nstate' \in [Server -> {"ready", "busy"}] /\ q # None
    BY <2>1 DEF CallInv, LTypeOK
  <2>3. QED
    BY <1>2, <2>1, <2>2, CallSend DEF SendLease
<1>3. CASE SendRelease(q)
  <2>1. nstate' = nstate /\ granted' = granted /\ pc[q] # "await" /\ pc[q] # "use"
    BY <1>3 DEF SendRelease
  <2>2. nstate' \in [Server -> {"ready", "busy"}] /\ q # None
    BY <2>1 DEF CallInv, LTypeOK
  <2>3. QED
    BY <1>3, <2>1, <2>2, CallSend DEF SendRelease
<1>4. CASE GiveUp(q)
  <2>1. /\ pc' = [pc EXCEPT ![q] = "idle"] /\ granted' = granted /\ backlog' = backlog
        /\ nstate' \in [Server -> {"ready", "busy"}] /\ pc[q] = "poll"
    BY <1>0, <1>4 DEF GiveUp
  <2>2. /\ pc' \in [Req -> {"idle", "first", "poll", "await", "use", "release"}]
        /\ granted' \in [Req -> SUBSET Rank]
        /\ \A p \in Req : pc'[p] = "await" <=> pc[p] = "await" /\ p \notin {}
        /\ \A p \in Req : granted'[p] # {} => pc'[p] = "use"
    BY <2>1 DEF CallInv, LTypeOK
  <2>3. QED
    BY <2>1, <2>2, CallAbandoned
<1>5. CASE InferEnds(q)
  <2>1. /\ pc' = [pc EXCEPT ![q] = "release"] /\ granted' = [granted EXCEPT ![q] = {}]
        /\ backlog' = backlog /\ nstate' = nstate /\ pc[q] = "use"
    BY <1>5 DEF InferEnds
  <2>2. /\ pc' \in [Req -> {"idle", "first", "poll", "await", "use", "release"}]
        /\ granted' \in [Req -> SUBSET Rank]
        /\ nstate' \in [Server -> {"ready", "busy"}]
        /\ \A p \in Req : pc'[p] = "await" <=> pc[p] = "await" /\ p \notin {}
        /\ \A p \in Req : granted'[p] # {} => pc'[p] = "use"
    BY <2>1 DEF CallInv, LTypeOK
  <2>3. QED
    BY <2>1, <2>2, CallAbandoned
<1>6. CASE CallTimeout(q)
  <2>1. PICK l \in {"poll", "idle"} :
           /\ pc' = [pc EXCEPT ![q] = l] /\ granted' = granted /\ Abandon({q})
           /\ nstate' = nstate \/ nstate' = [nstate EXCEPT ![SrvOf[q]] = "ready"]
           /\ pc[q] = "await"
    BY <1>6 DEF CallTimeout
  <2>2. /\ pc' \in [Req -> {"idle", "first", "poll", "await", "use", "release"}]
        /\ granted' \in [Req -> SUBSET Rank]
        /\ nstate' \in [Server -> {"ready", "busy"}]
        /\ \A p \in Req : pc'[p] = "await" <=> pc[p] = "await" /\ p \notin {q}
        /\ \A p \in Req : granted'[p] # {} => pc'[p] = "use"
    BY <1>0, <2>1 DEF CallInv, LTypeOK
  <2>3. QED
    BY <2>1, <2>2, CallAbandoned
<1>7. QED
  BY <1>1, <1>2, <1>3, <1>4, <1>5, <1>6 DEF ReqStep

\* The supervisor answers (handle_lease, handle_release, handle_heartbeat).
LEMMA CallSupervisor == CallInv /\ SvStep => CallInv'
<1> SUFFICES ASSUME CallInv, SvStep PROVE CallInv'
  OBVIOUS
<1> DEFINE f == Head(backlog)
<1>0. backlog # <<>> /\ backlog' = Tail(backlog)
  BY DEF SvStep, HandleLease, HandleRelease, HandleBusyBeat
<1>1. f \in Frame /\ f = backlog[1] /\ 1 \in 1 .. Len(backlog)
  BY <1>0, TailFrame DEF CallInv
<1>2. f.srv \in Server /\ f.req \in Req \cup {None} /\ None \notin Req
  BY <1>1 DEF Frame
<1>3. nstate \in [Server -> {"ready", "busy"}] /\ granted \in [Req -> SUBSET Rank]
  BY DEF CallInv, LTypeOK
<1>4. CASE HandleLease
  <2>1. PICK l \in {"poll", "use"}, G \in SUBSET Rank :
           (G # {} => l = "use") /\ LeaseAnswer(f.req, l, G)
    <3>1. CASE Grants(f.srv, "request")
      <4>1. Running(Group(f.srv, "request")) \in SUBSET Rank
        BY DEF Running, Group
      <4>2. QED
        BY <1>4, <3>1, <4>1 DEF HandleLease
    <3>2. CASE ~Grants(f.srv, "request")
      BY <1>4, <3>2 DEF HandleLease
    <3>3. QED
      BY <3>1, <3>2
  <2>2. /\ nstate' = nstate
        /\ pc' = IF f.req = None THEN pc ELSE [pc EXCEPT ![f.req] = l]
        /\ granted' = granted \/ (f.req # None /\ granted' = [granted EXCEPT ![f.req] = G])
    BY <2>1 DEF LeaseAnswer
  <2> HIDE DEF f
  <2>3. QED
    BY <1>0, <1>3, <2>1, <2>2, CallHandled DEF f
<1>5. CASE HandleRelease
  <2>1. /\ nstate' = nstate \/ nstate' = [nstate EXCEPT ![SrvOf[f.req]] = "ready"]
        /\ pc' = IF f.req = None THEN pc ELSE [pc EXCEPT ![f.req] = "idle"]
        /\ granted' = granted
    BY <1>5 DEF HandleRelease, Leave
  <2>2. nstate' \in [Server -> {"ready", "busy"}]
    BY <1>3, <2>1
  <2>3. QED
    BY <1>0, <2>1, <2>2, CallHandled, {} \in SUBSET Rank
<1>6. CASE HandleBusyBeat
  <2>1. f.req = None /\ nstate' = nstate /\ pc' = pc /\ granted' = granted
    BY <1>1, <1>6 DEF HandleBusyBeat, CallInv
  <2>2. QED
    BY <1>0, <1>3, <2>1, CallHandled, {} \in SUBSET Rank
<1>7. QED
  BY <1>4, <1>5, <1>6 DEF SvStep

\* The end or the restart of a process takes its calls along.
LEMMA CallBroken == ASSUME CallInv, NEW n \in Node, Broken(n) PROVE CallInv'
<1>1. PICK Q \in PartOf(Threads(n), n), B \in PartOf(Users(n), n) :
         /\ nstate' = [s \in Server |-> IF s = n /\ Q = Threads(n) THEN "ready" ELSE nstate[s]]
         /\ pc' = [q \in Req |-> IF q \in Q THEN "idle" ELSE pc[q]]
         /\ granted' = [q \in Req |-> IF q \in Q \cup B THEN {} ELSE granted[q]]
         /\ Abandon(Q)
  BY DEF Broken
<1>2. Q \in SUBSET Req
  BY DEF PartOf, Threads
<1>3. /\ pc' \in [Req -> {"idle", "first", "poll", "await", "use", "release"}]
      /\ nstate' \in [Server -> {"ready", "busy"}]
      /\ granted' \in [Req -> SUBSET Rank]
      /\ \A p \in Req : pc'[p] = "await" <=> pc[p] = "await" /\ p \notin Q
      /\ \A p \in Req : granted'[p] # {} => pc'[p] = "use"
  BY <1>1 DEF CallInv, LTypeOK
<1>4. QED
  BY <1>1, <1>2, <1>3, CallAbandoned

\* Every step of the protocol keeps every call with its answer.
LEMMA CallStep == CallInv /\ [LNext]_lvars => CallInv'
<1> SUFFICES ASSUME CallInv, [LNext]_lvars PROVE CallInv'
  OBVIOUS
<1>1. CASE UNCHANGED reqVars
  BY <1>1 DEF reqVars, CallInv, LTypeOK, OneAnswer
<1>2. ASSUME NEW n \in Node, Broken(n) PROVE CallInv'
  BY <1>2, CallBroken
<1>3. ASSUME NEW q \in Req, Arrive(q) \/ ReqStep(q) \/ GiveUp(q) \/ CallTimeout(q)
      PROVE  CallInv'
  BY <1>3, CallThreads
<1>4. CASE SvStep
  BY <1>4, CallSupervisor
<1>5. CASE UNCHANGED lvars
  BY <1>1, <1>5 DEF lvars, reqVars
<1>6. QED
  BY <1>1, <1>2, <1>3, <1>4, <1>5
     DEF LNext, NodeEnds, NodeHealed, NodeLate, NodeBeats, NodeStarts

\* At the start nobody waits and no frame is on its way.
LEMMA CallInit == LInit => CallInv
<1> SUFFICES ASSUME LInit PROVE CallInv
  OBVIOUS
<1>1. backlog = <<>> /\ backlog \in Seq(Frame) /\ Len(backlog) = 0
  BY DEF LInit
<1>2. QED
  BY <1>1 DEF LInit, CallInv, LTypeOK, OneAnswer

\* No thread waits for an answer that cannot come, and none is answered twice or
\* by the answer to a call it gave up, however timeouts, crashes and restarts
\* fall (server_lease, server_release): without any condition.
THEOREM CallsAnsweredOnce == LSpec => []OneAnswer
<1>1. CallInv => OneAnswer
  BY DEF CallInv
<1>2. QED
  BY <1>1, CallInit, CallStep, PTL DEF LSpec

-----------------------------------------------------------------------------
(* The supervisor's tables against the real servers, without any condition. *)

\* A step of the protocol is, for the pool, a step of the supervisor or of its
\* environment; a delayed frame is handled although its sender has ended.
LEMMA PoolUnderProtocol == CallInv /\ PoolInv /\ [LNext]_lvars => PoolInv'
<1> SUFFICES ASSUME CallInv, PoolInv, [LNext]_lvars PROVE PoolInv'
  OBVIOUS
<1>1. CASE UNCHANGED vars
  BY <1>1, PoolStutter
<1>2. ASSUME [Next]_vars PROVE PoolInv'
  BY <1>2, PoolStep
<1>3. ASSUME NEW n \in Node, NodeEnds(n) \/ NodeHealed(n) \/ NodeLate(n)
                               \/ NodeBeats(n) \/ NodeStarts(n)
      PROVE  PoolInv'
  <2>1. Housekeeping
    BY <1>3 DEF NodeEnds, NodeHealed, NodeLate, NodeBeats, NodeStarts, Housekeeping
  <2>2. QED
    BY <1>2, <2>1 DEF Next
<1>4. ASSUME NEW q \in Req, Arrive(q) \/ ReqStep(q) \/ GiveUp(q) \/ CallTimeout(q)
      PROVE  PoolInv'
  BY <1>1, <1>4
     DEF Arrive, ReqStep, SendLease, InferEnds, SendRelease, GiveUp, CallTimeout
<1>5. CASE SvStep
  <2> DEFINE f == Head(backlog)
  <2>1. backlog # <<>> /\ backlog' = Tail(backlog)
    BY <1>5 DEF SvStep, HandleLease, HandleRelease, HandleBusyBeat
  <2>2. f.srv \in Server
    BY <2>1, TailFrame DEF CallInv, Frame
  <2> HIDE DEF f
  <2>3. \/ UNCHANGED vars \/ LeaseGranted(f.srv, "request")
        \/ Release(f.srv) \/ HandleHeartbeat(f.srv, "busy")
    BY <1>5 DEF SvStep, HandleLease, HandleRelease, HandleBusyBeat, f
  <2>4. QED
    BY <1>1, <2>2, <2>3, LeaseKeeps, FreeingKeeps, HeartbeatKeeps
<1>6. CASE UNCHANGED lvars
  BY <1>1, <1>6 DEF lvars
<1>7. QED
  BY <1>2, <1>3, <1>4, <1>5, <1>6 DEF LNext

\* With the real servers, too, a lease passes from one server to another only
\* through the pool: late frames of servers that have died, double RELEASEs and
\* restarts included (handle_lease, handle_release).
THEOREM ProtocolNeverSteals == LSpec => NeverStolen
<1> DEFINE A == \A r \in Rank : leased_by[r] # None => leased_by'[r] \in {leased_by[r], None}
<1>1. CallInv /\ PoolInv /\ [LNext]_lvars => [A]_vars
  <2> SUFFICES ASSUME CallInv, PoolInv, LNext, NEW r \in Rank, leased_by[r] # None
               PROVE  leased_by'[r] \in {leased_by[r], None}
    BY DEF lvars, vars
  <2>1. ASSUME NEW s \in Server, NEW strat, LeaseGranted(s, strat)
        PROVE  leased_by'[r] \in {leased_by[r], None}
    BY <2>1, LeaseNeverSteals
  <2>2. ASSUME NEW R, Free(R) PROVE leased_by'[r] \in {leased_by[r], None}
    BY <2>2, FreeNeverSteals
  <2>3. CASE UNCHANGED leased_by
    BY <2>3
  <2>4. ASSUME NEW q \in Req, Arrive(q) \/ ReqStep(q) \/ GiveUp(q) \/ CallTimeout(q)
        PROVE  leased_by'[r] \in {leased_by[r], None}
    BY <2>3, <2>4
       DEF Arrive, ReqStep, SendLease, InferEnds, SendRelease, GiveUp, CallTimeout, vars
  <2>5. ASSUME NEW n \in Node, NodeEnds(n) \/ NodeHealed(n) \/ NodeLate(n)
                                 \/ NodeBeats(n) \/ NodeStarts(n)
        PROVE  leased_by'[r] \in {leased_by[r], None}
    BY <2>2, <2>3, <2>5
       DEF NodeEnds, NodeHealed, NodeLate, NodeBeats, NodeStarts, ProcessEnds, HealServer,
           HealRank, GoesLate, Heartbeat, HandleHeartbeat, ExternalStart
  <2>6. CASE SvStep
    <3> DEFINE f == Head(backlog)
    <3>1. f.srv \in Server
      BY <2>6, TailFrame
         DEF CallInv, Frame, SvStep, HandleLease, HandleRelease, HandleBusyBeat
    <3> HIDE DEF f
    <3>2. \/ UNCHANGED leased_by \/ LeaseGranted(f.srv, "request")
          \/ \E R : Free(R)
      BY <2>6 DEF SvStep, HandleLease, HandleRelease, HandleBusyBeat, Release,
                  HandleHeartbeat, vars, f
    <3>3. QED
      BY <2>1, <2>2, <2>3, <3>1, <3>2
  <2>7. QED
    BY <2>4, <2>5, <2>6 DEF LNext
<1>2. LInit => PoolInv
  BY PoolInit DEF LInit
<1>3. QED
  BY <1>1, <1>2, CallInit, CallStep, PoolUnderProtocol, PTL DEF LSpec, NeverStolen
============================================================================
