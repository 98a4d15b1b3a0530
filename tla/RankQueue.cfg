\* Two work threads or a pipe thread, three clients: the ring of two slots fills,
\* refuses and wraps.
CONSTANTS
    Conn = {c1, c2, c3}
    Worker = {w1, w2}
    Modes = {TRUE, FALSE}
    Cap = 2
    None = None
SPECIFICATION FairSpec
INVARIANTS RingConsistent OneHolder DrainMeansIdle InFlightExact
PROPERTIES JobAnswered DrainCompletes PoolViewConverges
\* The process ends after a drain.
CHECK_DEADLOCK FALSE
