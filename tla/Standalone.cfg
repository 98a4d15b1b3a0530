\* RateLimit with three threads, and the other standalone components.
CONSTANTS
    Thread = {t1, t2, t3}
    Win = 2
    Rpm = 2
    Tpm = 1
    MaxTok = 1
    MaxTime = 4
SYMMETRY Symmetry
SPECIFICATION SpecAll
INVARIANTS SlotsExact OverrunBounded
INVARIANTS PromptRight SyncedIsCurrent LogitsRight TokensRight KernelsRight FileHolds
INVARIANTS WeightsAccounted GeneratedRight
\* The clocks are bounded, and the sequential components end.
CHECK_DEADLOCK FALSE
