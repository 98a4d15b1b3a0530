\* Requests without a session on the same rank.
CONSTANTS
    a = a
    b = b
    k0 = k0
    k1 = k1
    k2 = k2
    n0 = n0
    c1 = c1
    n2 = n2
    Srv = {s0}
    Key = {k0}
    AutoKey = {}
    Alias = {n0}
    FileName <- Sanitised
    RankKey <- Cut
    Eos = e
    Prompts <- Turns
    Gens <- Short
    Worker = {w0}
    SessCap = 2
    MaxRetry = 1
    MaxOrphans = 0
    Modes <- WithPlain
    None = None
    Bad = Bad
SPECIFICATION Spec
INVARIANTS AnswersThePrompt
CHECK_DEADLOCK FALSE
