\* Two request threads in one server.
CONSTANTS
    q1 = q1
    q2 = q2
    q3 = q3
    s0 = s0
    s1 = s1
    Rank = {r0}
    Server = {s0, s1}
    LeaderIds = {r0}
    ModelOf <- OneModel
    NoName = ""
    Local = {r0, s0, s1}
    ScaleGroup = {}
    SpawnedAs <- SameId
    Strategy = {"request"}
    Duration = 1
    MaxNodes = 4
    MaxLive = 1
    AutoHeal = FALSE
    HasRouter = FALSE
    None = None
    Req = {q1, q2, q3}
    SrvOf <- Parallel
    Stall = FALSE
    MaxBacklog = 3
SPECIFICATION LSpec
INVARIANTS ExclusiveUse
CHECK_DEADLOCK FALSE
