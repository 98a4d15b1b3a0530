---------------------------- MODULE MCSessionKV ----------------------------
(* Instances of SessionKV for TLC. *)
EXTENDS SessionKV, TLC

CONSTANTS a, b, k0, k1, k2, n0, c1, n2

\* k0 and k2 have characters no file name has, k1 is longer than 63 bytes.
Sanitised == [k \in Keys |-> CASE k = k0 -> n0 [] k = k2 -> n2 [] OTHER -> k]
Cut == [k \in Keys |-> IF k = k1 THEN c1 ELSE k]

\* k0 and k1 differ in such characters only, or behind the 63rd byte.
Collide == [k \in Keys |-> CASE k \in {k0, k1} -> n0 [] k = k2 -> n2 [] OTHER -> k]

\* A conversation, a second turn of it, and an edited first turn.
Turns == {<<a>>, <<a, b, a>>, <<b, b>>}

\* The same with an edit that keeps the first token.
Edits == {<<a>>, <<a, b, a>>, <<a, a>>}

\* The model answers with one token or with none.
Short == {<<>>, <<b>>}

\* Always one token.
OneToken == {<<b>>}

\* A deployment with files in which nothing goes wrong.
Calm == [cacheDir |-> TRUE, autoKey |-> FALSE, regenerate |-> FALSE,
         plain |-> FALSE, rankCrash |-> FALSE, srvCrash |-> FALSE,
         maxSeq |-> 6, jobCap |-> 3]

\* With files and rank crashes.
Disk == [Calm EXCEPT !.rankCrash = TRUE]

\* With files and prompts that are cached completely.
Exact == [Calm EXCEPT !.regenerate = TRUE]

\* Without files: evictions, a short context, a full queue, crashes of both sides.
Memory == [Calm EXCEPT !.cacheDir = FALSE, !.autoKey = TRUE, !.rankCrash = TRUE,
                       !.srvCrash = TRUE, !.maxSeq = 2, !.jobCap = 1]

\* Without sessions in between.
Mixed == [Memory EXCEPT !.plain = TRUE, !.autoKey = FALSE, !.srvCrash = FALSE]

Deployments == {Disk, Exact, Memory, Mixed}

\* Requests without a session on the same rank.
WithPlain == {[Calm EXCEPT !.plain = TRUE]}
=============================================================================
