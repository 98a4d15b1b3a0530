\* One server and one work thread, four ways to run them.
CONSTANTS
    a = a
    b = b
    k0 = k0
    k1 = k1
    k2 = k2
    n0 = n0
    c1 = c1
    n2 = n2
    Srv = {s0}
    Key = {k0, k1}
    AutoKey = {k2}
    Alias = {n0, c1, n2}
    FileName <- Sanitised
    RankKey <- Cut
    Eos = e
    Prompts <- Edits
    Gens <- OneToken
    Worker = {w0}
    SessCap = 2
    MaxRetry = 1
    MaxOrphans = 1
    Modes <- Deployments
    None = None
    Bad = Bad
SPECIFICATION FairSpec
INVARIANTS SessionAnswers KVAligned FullResendTaken
PROPERTIES RequestEnds
