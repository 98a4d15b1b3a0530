----------------------------- MODULE SessionKV -----------------------------
(***************************************************************************)
(* Session inference: the server's session table (server.c                 *)
(* forward_infer_sess, core/cache.c) against the KV cache of the rank      *)
(* (rank.c handle_infer_cache), with both files of a session in cache_dir. *)
(*                                                                         *)
(* The server keeps, for every key, the tokens it believes the rank has    *)
(* cached, and sends only what is new.  The rank keeps one KV cache, the   *)
(* key it belongs to and its length; what a cache row holds is the token   *)
(* it was computed from, so a cache is a sequence of tokens and cache_pos  *)
(* its length.  Rows behind cache_pos are always written before they are   *)
(* used and do not appear.                                                 *)
(*                                                                         *)
(* A file is named after the key with every ":", "/", "?" and the like     *)
(* replaced by "_"; the rank keeps the first 63 bytes of a key the server  *)
(* keeps 127 of.  The files hold no key, so whoever has the name has the   *)
(* file.                                                                   *)
(*                                                                         *)
(* A server holds infer_lock and its lease for the whole of a request, so  *)
(* one request runs at a time.  A request that times out leaves its job    *)
(* with the rank.  The branch that starts a session afresh after a full    *)
(* resend was refused is left out: FullResendTaken says it is dead code.   *)
(***************************************************************************)
EXTENDS Integers, Sequences, FiniteSets

CONSTANTS
    Srv,          \* server processes that share the rank and cache_dir
    Key,          \* session keys sent by clients
    AutoKey,      \* keys made up for requests without one
    Alias,        \* what keys become as file names or when they are cut
    FileName,     \* of a key: sess_file_name, cache_path, cache_file_name
    RankKey,      \* of a key: what fits keybuf and Rank.cache_key
    Eos,          \* end-of-sequence token
    Prompts,      \* rendered conversations a client may send
    Gens,         \* answers the model may give
    Worker,       \* work threads of the rank
    SessCap,      \* SessCache.cap
    MaxRetry,     \* 5 in the code
    MaxOrphans,   \* bound: jobs whose server no longer waits
    Modes,        \* the deployments and failures considered, see Mode
    None,         \* no key, no server, no file
    Bad           \* a file whose writer died half-way

Keys == Key \cup AutoKey \cup Alias

\* cacheDir: cache_dir is configured; autoKey: clients start sessions without a
\* key; regenerate: clients ask again for a prompt that is cached completely;
\* plain: requests without a session use the same rank; rankCrash, srvCrash: the
\* process crashes and is restarted; maxSeq: engine.max_seq; jobCap: RANK_JOB_CAP.
Mode == [cacheDir : BOOLEAN, autoKey : BOOLEAN, regenerate : BOOLEAN,
         plain : BOOLEAN, rankCrash : BOOLEAN, srvCrash : BOOLEAN,
         maxSeq : Nat, jobCap : Nat \ {0}]

\* What conversations and answers are made of.
Token == {Eos} \cup UNION {{q[i] : i \in DOMAIN q} : q \in Prompts \cup Gens}

ASSUME SessionAssumption ==
    /\ None \notin Keys \cup Srv /\ IsFiniteSet(Worker) /\ IsFiniteSet(Keys)
    /\ FileName \in [Keys -> Keys] /\ RankKey \in [Keys -> Keys]
    /\ Prompts \cup Gens \subseteq Seq(Token) /\ \A p \in Prompts : Len(p) > 0
    /\ SessCap \in Nat \ {0} /\ MaxRetry \in Nat /\ MaxOrphans \in Nat
    /\ Modes \subseteq Mode

VARIABLES
    mode,        \* which deployment this is
    sess,        \* table of each server: <<key, tokens>>, least recent first
    req,         \* the request each server is working on
    sessFile,    \* <name>.sess, by file name
    kvFile,      \* <name>.r0.kv, by file name
    up,          \* the rank process is running
    jobs,        \* its queue
    wk,          \* its work threads
    engine_lock,
    cache_key, kv   \* whose KV the engine holds, and the cached tokens

server == <<sess, req>>
files  == <<sessFile, kvFile>>
engine == <<cache_key, kv>>
vars   == <<mode, sess, req, sessFile, kvFile, up, jobs, wk, engine_lock, cache_key, kv>>

Take(q, n) == SubSeq(q, 1, n)
Drop(q, n) == SubSeq(q, n + 1, Len(q))
Least(m, n) == IF m < n THEN m ELSE n
IsFile(f) == f \notin {None, Bad}

\* The names a session's files have: the rank's goes by the rank's key.
SessName(k) == FileName[k]
KvName(k) == FileName[RankKey[k]]

NoReq == [st |-> "idle", key |-> None, full |-> <<>>, tokens |-> <<>>, resume |-> 0,
          sent |-> FALSE, replay |-> FALSE, retry |-> 0, gen |-> <<>>]
NoJob == [srv |-> None, key |-> None, resume |-> 0, delta |-> <<>>, prompt |-> <<>>]
Idle  == [pc |-> "idle", job |-> NoJob, ctx |-> <<>>, gen |-> <<>>]

Init ==
    /\ mode \in Modes
    /\ sess = [s \in Srv |-> <<>>]
    /\ req = [s \in Srv |-> NoReq]
    /\ sessFile = [k \in Keys |-> None] /\ kvFile = [k \in Keys |-> None]
    /\ up = TRUE /\ jobs = <<>>
    /\ wk = [w \in Worker |-> Idle]
    /\ engine_lock = None
    /\ cache_key = None /\ kv = <<>>

-----------------------------------------------------------------------------
(* The session table: core/cache.c.                                        *)

\* sess_lcp: the common prefix; a trailing eos of the session does not count.
Lcp(v, r) ==
    LET vn == IF v # <<>> /\ v[Len(v)] = Eos THEN Len(v) - 1 ELSE Len(v)
        agree == {n \in 0 .. Least(vn, Len(r)) : Take(v, n) = Take(r, n)}
    IN  CHOOSE n \in agree : \A m \in agree : m <= n

Known(s, k) == \E i \in 1 .. Len(sess[s]) : sess[s][i][1] = k
Pos(s, k) == CHOOSE i \in 1 .. Len(sess[s]) : sess[s][i][1] = k
Toks(s, k) == sess[s][Pos(s, k)][2]

\* sess_get, sess_put and sess_new, then the tokens are set to v: the entry
\* becomes the most recent one; a full table gives up its least recent entry.
Put(s, k, v) ==
    LET room == IF Known(s, k)
                THEN Take(sess[s], Pos(s, k) - 1) \o Drop(sess[s], Pos(s, k))
                ELSE Drop(sess[s], IF Len(sess[s]) >= SessCap THEN 1 ELSE 0)
    IN  [sess EXCEPT ![s] = Append(room, <<k, v>>)]

\* What the table has for k, or sess_try_disk for a new entry.
Remembered(s, k) ==
    IF Known(s, k) THEN Toks(s, k)
    ELSE IF mode.cacheDir /\ IsFile(sessFile[SessName(k)]) THEN sessFile[SessName(k)] ELSE <<>>

\* sess_find_prefix: the sessions with the longest common prefix.
BestPrefix(s, full) ==
    LET hit == {k \in Keys : Known(s, k) /\ Lcp(Toks(s, k), full) > 0}
    IN  {k \in hit : \A j \in hit : Lcp(Toks(s, j), full) <= Lcp(Toks(s, k), full)}

-----------------------------------------------------------------------------
(* forward_infer_sess.                                                     *)

Orphans == Cardinality({i \in 1 .. Len(jobs) : jobs[i].srv = None})
           + Cardinality({w \in Worker : wk[w].pc # "idle" /\ wk[w].job.srv = None})

\* The frame for the rank: the delta, or everything once "sent" is set.  The
\* rank cuts the key as it reads it.
JobOfResumed(s, r, toks) ==           \* mutant: the full resend keeps resume
    [srv |-> s, key |-> RankKey[r.key], resume |-> r.resume,
     delta |-> IF r.sent THEN toks \o r.tokens ELSE r.tokens, prompt |-> r.full]
JobOf(s, r, toks) ==
    [srv |-> s, key |-> RankKey[r.key], resume |-> IF r.sent THEN 0 ELSE r.resume,
     delta |-> IF r.sent THEN toks \o r.tokens ELSE r.tokens, prompt |-> r.full]

\* Connect and send.  No rank: the request fails.  A full queue is an ERR.
Send(s, r, toks) ==
    IF ~up THEN req' = [req EXCEPT ![s] = NoReq] /\ UNCHANGED jobs
    ELSE IF Len(jobs) >= mode.jobCap
         THEN req' = [req EXCEPT ![s] = [r EXCEPT !.st = "err"]] /\ UNCHANGED jobs
         ELSE /\ req' = [req EXCEPT ![s] = [r EXCEPT !.st = "wait"]]
              /\ jobs' = Append(jobs, JobOf(s, r, toks))

\* The session of key k is cut to the common prefix; a prompt that is cached
\* completely is sent again from its last token on.
Start(s, k, full) ==
    LET toks == Remembered(s, k)
        lcp  == Lcp(toks, full)
        replay == lcp = Len(full)
        resume == IF replay THEN lcp - 1 ELSE lcp
    IN  /\ req[s].st = "idle" /\ \A t \in Srv \ {s} : req[t].st = "idle"
        /\ replay => mode.regenerate
        /\ sess' = Put(s, k, Take(toks, lcp))
        /\ Send(s, [NoReq EXCEPT !.key = k, !.full = full, !.resume = resume,
                                 !.tokens = Drop(full, resume), !.replay = replay],
                Take(toks, lcp))
        /\ UNCHANGED <<files, up, mode, wk, engine_lock, engine>>

\* A key that is in no table, queue or file: it has the time of day in it.
Unused(k) ==
    /\ \A s \in Srv : ~Known(s, k)
    /\ RankKey[k] # cache_key /\ sessFile[SessName(k)] = None /\ kvFile[KvName(k)] = None
    /\ \A i \in 1 .. Len(jobs) : jobs[i].key # RankKey[k]
    /\ \A w \in Worker : wk[w].job.key # RankKey[k]

WithKey(s) == \E k \in Key, full \in Prompts : Start(s, k, full)
WithoutKey(s) ==
    \E full \in Prompts :
        IF BestPrefix(s, full) # {}
        THEN \E k \in BestPrefix(s, full) : Start(s, k, full)
        ELSE \E k \in AutoKey : mode.autoKey /\ Unused(k) /\ Start(s, k, full)

\* What DONE adds to the session: a replayed token is in it already.
Commit(r) == (IF r.replay THEN <<>> ELSE r.tokens) \o r.gen \o <<Eos>>

\* DONE: commit, answer the client, save the session, leave infer_lock.
Done(s) ==
    LET r == req[s]
        toks == Toks(s, r.key) \o Commit(r)
    IN  /\ r.st = "done"
        /\ sess' = Put(s, r.key, toks)
        /\ sessFile' = IF mode.cacheDir THEN [sessFile EXCEPT ![SessName(r.key)] = toks] ELSE sessFile
        /\ req' = [req EXCEPT ![s] = NoReq]
        /\ UNCHANGED <<kvFile, up, mode, jobs, wk, engine_lock, engine>>

\* How the server goes on after ERR: everything is sent again, first at once,
\* then after a pause, at most MaxRetry times.
RetryForever(r) == r                  \* mutant: neither sent nor retry is set
Retry(r) == IF r.sent THEN [r EXCEPT !.retry = @ + 1] ELSE [r EXCEPT !.sent = TRUE]

Resend(s) ==
    LET r == req[s] IN
    /\ r.st \in {"err", "rebuild"}
    /\ ~r.sent \/ r.retry < MaxRetry
    /\ kvFile' = IF r.st = "rebuild" /\ mode.cacheDir
                 THEN [kvFile EXCEPT ![FileName[r.key]] = None] ELSE kvFile
    /\ sess' = Put(s, r.key, Toks(s, r.key))
    /\ Send(s, Retry(r), Toks(s, r.key))
    /\ UNCHANGED <<sessFile, up, mode, wk, engine_lock, engine>>

\* The last ERR is passed on to the client.
Refuse(s) ==
    /\ req[s].st \in {"err", "rebuild"} /\ req[s].sent /\ req[s].retry >= MaxRetry
    /\ req' = [req EXCEPT ![s] = NoReq]
    /\ UNCHANGED <<sess, files, up, mode, jobs, wk, engine_lock, engine>>

\* The server stops waiting; the rank is not told.
Forget(s) ==
    /\ jobs' = [i \in 1 .. Len(jobs) |->
                  IF jobs[i].srv = s THEN [jobs[i] EXCEPT !.srv = None] ELSE jobs[i]]
    /\ wk' = [w \in Worker |->
                IF wk[w].job.srv = s THEN [wk[w] EXCEPT !.job.srv = None] ELSE wk[w]]
    /\ req' = [req EXCEPT ![s] = NoReq]

\* "leader timeout", or the connection broke.
Timeout(s) ==
    /\ req[s].st = "wait" /\ Orphans < MaxOrphans
    /\ Forget(s)
    /\ UNCHANGED <<sess, files, up, mode, engine_lock, engine>>

-----------------------------------------------------------------------------
(* handle_infer_cache on a work thread.                                    *)

Answer(j, st, gen) ==
    IF j.srv = None THEN UNCHANGED req
    ELSE req' = [req EXCEPT ![j.srv].st = st, ![j.srv].gen = gen]

\* The key changes: the old KV is saved, whatever its length.
SavedUnderNew(k) ==                   \* mutant: saved after cache_key is replaced
    IF mode.cacheDir /\ cache_key # None /\ cache_key # k
    THEN [kvFile EXCEPT ![FileName[k]] = kv] ELSE kvFile
Saved(k) ==
    IF mode.cacheDir /\ cache_key # None /\ cache_key # k
    THEN [kvFile EXCEPT ![FileName[cache_key]] = kv] ELSE kvFile

\* The KV to start from: the engine's own or, when the key changes, the file's.
Loaded(j) ==
    IF j.key = cache_key THEN kv
    ELSE IF mode.cacheDir /\ j.resume > 0 /\ IsFile(Saved(j.key)[FileName[j.key]])
         THEN LET f == Saved(j.key)[FileName[j.key]]
              IN  IF Len(f) >= j.resume THEN Take(f, j.resume) ELSE <<>>
         ELSE <<>>

\* The KV is cut back to the point where the delta goes on.
CutBackNot(j) == Loaded(j)            \* mutant: rows behind resume are kept
CutBack(j) == Take(Loaded(j), j.resume)

\* The bookkeeping before engine_lock is taken: switch session, check resume.
Begin(w) ==
    LET j == Head(jobs) IN
    /\ up /\ jobs # <<>> /\ wk[w].pc = "idle"
    /\ jobs' = Tail(jobs)
    /\ cache_key' = j.key
    /\ IF j.resume > Len(Loaded(j))
       THEN /\ kv' = <<>>
            /\ kvFile' = IF mode.cacheDir
                         THEN [Saved(j.key) EXCEPT ![FileName[j.key]] = None] ELSE kvFile
            /\ Answer(j, "rebuild", <<>>)
            /\ UNCHANGED wk
       ELSE /\ kv' = CutBack(j)
            /\ kvFile' = Saved(j.key)
            /\ IF Len(CutBack(j)) + Len(j.delta) > mode.maxSeq
               THEN Answer(j, "err", <<>>) /\ UNCHANGED wk
               ELSE UNCHANGED req /\ wk' = [wk EXCEPT ![w].pc = "engine", ![w].job = j]
    /\ UNCHANGED <<sess, sessFile, up, mode, engine_lock>>

\* Prefill and decode from cache_pos on; an eos is added if there is room.
RunWith(w, gen) ==
    LET ctx == kv \o wk[w].job.delta
        out == Take(gen, Least(Len(gen), mode.maxSeq - Len(ctx)))
    IN  /\ up /\ wk[w].pc = "engine" /\ engine_lock = None
        /\ engine_lock' = w
        /\ kv' = Take(ctx \o out \o <<Eos>>, Least(Len(ctx \o out) + 1, mode.maxSeq))
        /\ wk' = [wk EXCEPT ![w].pc = "save", ![w].ctx = ctx, ![w].gen = out]
        /\ UNCHANGED <<sess, req, files, up, mode, jobs, cache_key>>
Run(w) == \E gen \in Gens : RunWith(w, gen)

\* rank_save_sess_kv, then DONE.
Save(w) ==
    /\ up /\ wk[w].pc = "save"
    /\ kvFile' = IF mode.cacheDir /\ kv # <<>>
                 THEN [kvFile EXCEPT ![FileName[cache_key]] = kv] ELSE kvFile
    /\ engine_lock' = None
    /\ Answer(wk[w].job, "done", wk[w].gen)
    /\ wk' = [wk EXCEPT ![w] = Idle]
    /\ UNCHANGED <<sess, sessFile, up, mode, jobs, engine>>

\* An INFER without a session, or with an image: engine_generate writes the
\* cache from row 0 on and leaves cache_key and cache_pos alone.
PlainInfer ==
    \E p \in Prompts, gen \in Gens :
        /\ mode.plain /\ up /\ engine_lock = None
        /\ \E w \in Worker : wk[w].pc = "idle"
        /\ kv' = [i \in 1 .. Len(kv) |->
                    IF i <= Len(p \o gen) THEN (p \o gen)[i] ELSE kv[i]]
        /\ UNCHANGED <<server, files, up, mode, jobs, wk, engine_lock, cache_key>>

-----------------------------------------------------------------------------
(* Crashes.                                                                *)

\* The rank dies, perhaps while it writes the file of the session it saves.
RankDies ==
    /\ mode.rankCrash /\ up
    /\ up' = FALSE
    /\ jobs' = <<>> /\ wk' = [w \in Worker |-> Idle] /\ engine_lock' = None
    /\ cache_key' = None /\ kv' = <<>>
    /\ req' = [s \in Srv |-> IF req[s].st = "wait" THEN NoReq ELSE req[s]]
    /\ \/ UNCHANGED kvFile
       \/ /\ mode.cacheDir /\ cache_key # None
          /\ \/ \E w \in Worker : wk[w].pc = "save"
             \/ jobs # <<>> /\ Head(jobs).key # cache_key
          /\ kvFile' = [kvFile EXCEPT ![FileName[cache_key]] = Bad]
    /\ UNCHANGED <<mode, sess, sessFile>>

RankStarts ==
    /\ ~up /\ up' = TRUE
    /\ UNCHANGED <<mode, server, files, jobs, wk, engine_lock, engine>>

\* A server dies, perhaps while it writes the .sess file, and starts again:
\* sess_load_dir fills the table, in some order, with the names for keys.
SrvDies(s) ==
    /\ mode.srvCrash
    /\ Forget(s)
    /\ \/ UNCHANGED sessFile
       \/ /\ mode.cacheDir /\ req[s].st = "done"
          /\ sessFile' = [sessFile EXCEPT ![SessName(req[s].key)] = Bad]
    /\ LET onDisk == {k \in Keys : IsFile(sessFile'[k]) /\ sessFile'[k] # <<>>}
           n == Least(SessCap, Cardinality(onDisk))
       IN  \E order \in [1 .. n -> onDisk] :
              /\ \A i, j \in 1 .. n : i # j => order[i] # order[j]
              /\ sess' = [sess EXCEPT ![s] =
                            [i \in 1 .. n |-> <<order[i], sessFile'[order[i]]>>]]
    /\ UNCHANGED <<kvFile, up, mode, engine_lock, engine>>

SrvStep(s) == Done(s) \/ Resend(s) \/ Refuse(s)
RankStep == \E w \in Worker : Begin(w) \/ Run(w) \/ Save(w)

Next ==
    \/ \E s \in Srv : \/ WithKey(s) \/ WithoutKey(s)
                      \/ SrvStep(s) \/ Timeout(s) \/ SrvDies(s)
    \/ RankStep \/ PlainInfer
    \/ RankDies \/ RankStarts

Spec == Init /\ [][Next]_vars

\* Every inference ends, and the server handles every answer.
FairSpec ==
    /\ Spec /\ WF_vars(RankStep)
    /\ \A s \in Srv : WF_vars(SrvStep(s))

-----------------------------------------------------------------------------
(* Properties.                                                             *)

\* Type invariant of the session tables, the request and the rank's cache.
TypeOK ==
    /\ \A s \in Srv :
          /\ Len(sess[s]) <= SessCap
          /\ \A i, j \in 1 .. Len(sess[s]) : sess[s][i][1] = sess[s][j][1] => i = j
          /\ req[s].st \in {"idle", "wait", "err", "rebuild", "done"}
          /\ req[s].retry \in 0 .. MaxRetry
          /\ req[s].st # "idle" => Known(s, req[s].key)
    /\ Len(jobs) <= mode.jobCap /\ Len(kv) <= mode.maxSeq
    /\ cache_key \in Keys \cup {None} /\ engine_lock \in Worker \cup {None}

\* The model answers what the client asked: whatever was cached, reloaded, cut
\* back or sent again, an answer is computed from exactly the rendered prompt
\* (handle_infer_cache, "KV of the old tokens is in this engine's cache").
AnswersThePrompt ==
    \A w \in Worker : wk[w].pc = "save" => wk[w].ctx = wk[w].job.prompt

\* The same, as long as every request has a session: one without overwrites the
\* rows of the session it interrupts (handle_infer).
SessionAnswers == mode.plain \/ AnswersThePrompt

\* Two token sequences with a common continuation.
Agree(u, v) ==
    LET n == Least(Len(u), Len(v)) IN Take(u, n) = Take(v, n)

\* What a server remembers of a session agrees with the cached KV of that
\* session, in the engine and in its file, as far as both go
\* (if every request has one).
KVAligned ==
    mode.plain \/ \A s \in Srv : \A i \in 1 .. Len(sess[s]) :
        LET k == sess[s][i][1] IN
        /\ cache_key = RankKey[k] => Agree(sess[s][i][2], kv)
        /\ IsFile(kvFile[KvName(k)]) => Agree(sess[s][i][2], kvFile[KvName(k)])

\* A full resend (resume = 0) is never refused with a "rebuild" error, so it
\* needs no further fallback (server.c, rebuild && sent && !fresh).
FullResendTaken == \A s \in Srv : req[s].st = "rebuild" => ~req[s].sent

\* Every request leaves infer_lock, with DONE, ERR or a timeout.
RequestEnds == \A s \in Srv : (req[s].st # "idle") ~> (req[s].st = "idle")
=============================================================================
