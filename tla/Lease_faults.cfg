\* Stalls, crashes, external restarts and self-healing: one rank, two servers, one of
\* them with an id of its own, and a table with room for two.
CONSTANTS
    q1 = q1
    q2 = q2
    q3 = q3
    s0 = s0
    s1 = s1
    Rank = {r0}
    Server = {s0, s1}
    LeaderIds = {r0}
    ModelOf <- OneModel
    NoName = ""
    Local = {s0}
    ScaleGroup = {}
    SpawnedAs <- OddServer
    Strategy = {"request"}
    Duration = 1
    MaxNodes = 2
    MaxLive = 2
    AutoHeal = TRUE
    HasRouter = FALSE
    None = None
    Req = {q1, q2}
    SrvOf <- Serial
    Stall = TRUE
    MaxBacklog = 2
SPECIFICATION LSpec
INVARIANTS OneAnswer OneProcess
PROPERTIES NeverStolen

