--------------------------- MODULE MCDistPipeline ---------------------------
(* Instances of DistPipeline for TLC. *)
EXTENDS DistPipeline, TLC

CONSTANTS a, b, e

\* A prompt that fits a batch, and one of two batches.
SomeDeltas == {<<a>>, <<b, a>>}

\* Two ranks; with files; with failures of each kind; three ranks.  A socket may
\* hold all frames of a round, but not where rank 0 dies or there are three (README, section 3).
Two == [segs |-> 2, cacheDir |-> FALSE, crash |-> {}, quits |-> FALSE, idle |-> FALSE, window |-> 3]
Deployments ==
    {Two,
     [Two EXCEPT !.cacheDir = TRUE, !.idle = TRUE],
     [Two EXCEPT !.crash = {1}],
     [Two EXCEPT !.crash = {0, 1}, !.quits = TRUE, !.window = 2],
     [Two EXCEPT !.segs = 3, !.window = 2]}

\* A worker with files crashes; three ranks rest for more than 100 s; the
\* frames of a round survive the death of a rank, or the round is shorter than dist_init.
WorkerCrash == {[Two EXCEPT !.cacheDir = TRUE, !.crash = {1}]}
ThreeIdle   == {[Two EXCEPT !.segs = 3, !.idle = TRUE, !.window = 1]}
ThreeDeep   == {[Two EXCEPT !.segs = 3]}
MasterCrash == {[Two EXCEPT !.crash = {0}]}
ThreeCrash  == {[Two EXCEPT !.segs = 3, !.crash = {1}, !.window = 1]}
=============================================================================
