\* One request thread per server, self-healing, no stall.
CONSTANTS
    q1 = q1
    q2 = q2
    q3 = q3
    s0 = s0
    s1 = s1
    Rank = {r0}
    Server = {s0, s1}
    LeaderIds = {r0}
    ModelOf <- OneModel
    NoName = ""
    Local = {r0, s0, s1}
    ScaleGroup = {}
    SpawnedAs <- SameId
    Strategy = {"request"}
    Duration = 1
    MaxNodes = 4
    MaxLive = 1
    AutoHeal = TRUE
    HasRouter = FALSE
    None = None
    Req = {q1, q2}
    SrvOf <- Serial
    Stall = FALSE
    MaxBacklog = 2
SPECIFICATION LFairSpec
INVARIANTS UseIsLeased ExclusiveUse
PROPERTIES LeaseReturns SeenNodeHeals
\* Everything stops when all processes end before their first heartbeat.
CHECK_DEADLOCK FALSE
