\* Two ranks, one that reports its model and one that does not, and a server; timed
\* and request leases, self-healing, SCALE and a router that may miss messages.
CONSTANTS
    Rank = {r0, r1}
    Server = {s0}
    LeaderIds = {r0, r1}
    r0 = r0
    r1 = r1
    ModelOf <- MixedNames
    NoName = ""
    Local = {r0, s0}
    ScaleGroup = {r0}
    SpawnedAs <- OddRank
    Strategy = {"request", "timed"}
    Duration = 1
    MaxNodes = 3
    MaxLive = 2
    AutoHeal = TRUE
    HasRouter = TRUE
    None = None
SPECIFICATION Spec
INVARIANTS TableSound RouterFollows
PROPERTY DeathReclaims
