\* The end of the process: two work threads and one client; a broadcast without
\* the mutex can be lost.
CONSTANTS
    Conn = {c1}
    Worker = {w1, w2}
    Modes = {FALSE}
    Cap = 2
    None = None
SPECIFICATION FairSpec
PROPERTIES QuitEndsWork
CHECK_DEADLOCK FALSE
