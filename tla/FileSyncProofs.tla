--------------------------- MODULE FileSyncProofs ---------------------------
(***************************************************************************)
(* Proofs about FileSync, for files of any size, any number of versions    *)
(* and any length of the run.                                              *)
(***************************************************************************)
EXTENDS FileSync, TLAPS

\* Every block of f is of version v.
Of(f, v) == \A i \in 1 .. Len(f) : f[i] = v

\* The types of the files and of the progress of a download.
TypeOK ==
    /\ second \in Nat
    /\ src \in [ver : Nat, data : Seq(Nat), mtime : Nat]
    /\ dest \in [data : Seq(Nat), mtime : Nat, stamped : BOOLEAN]
    /\ tmp \in Seq(Nat)
    /\ fetch \in [pc : {"idle", "get", "open", "body", "utime"}, rsize : Nat, rmtime : Nat,
                  left : Nat, lost : BOOLEAN,
                  result : {"none", "up-to-date", "downloaded", "error"}]
    /\ sent \in [open : BOOLEAN, old : Seq(Nat), own : BOOLEAN, at : Nat]

\* The mtime of the source belongs to one version and never goes back; what a
\* sync has seen or stamped is that mtime or an older one.
ClockInv ==
    /\ Of(src.data, src.ver)
    /\ 0 < src.mtime /\ src.mtime <= second
    /\ fetch.rmtime <= src.mtime
    /\ dest.stamped => dest.mtime <= src.mtime

\* As long as the source is the one HEAD saw, a download holds its blocks only,
\* and all of them unless a write failed.
DownloadInv ==
    fetch.rmtime = src.mtime =>
        /\ fetch.pc = "open" => fetch.left = Len(src.data)
        /\ fetch.pc = "body" =>
              /\ ~sent.own /\ Of(tmp, src.ver)
              /\ sent.at + fetch.left = Len(src.data)
              /\ ~fetch.lost => Len(tmp) = sent.at
        /\ fetch.pc = "utime" =>
              /\ Of(dest.data, src.ver)
              /\ ~fetch.lost => Len(dest.data) = Len(src.data)

\* A stamped file with the mtime of the source has no block of another version:
\* with the size of the source it is the source.
StampInv == dest.stamped /\ dest.mtime = src.mtime => Of(dest.data, src.ver)

\* A result is that of the last call only, and a file renamed is not stamped yet.
ResultInv ==
    /\ fetch.pc # "idle" => fetch.result = "none"
    /\ fetch.pc \in {"get", "open"} => ~fetch.lost
    /\ fetch.pc = "utime" => ~dest.stamped

IInv == TypeOK /\ ClockInv /\ DownloadInv /\ StampInv /\ ResultInv /\ SyncedIsCurrent

-----------------------------------------------------------------------------
\* Two files of the same version and size are equal.
LEMMA SameFile ==
    ASSUME NEW f \in Seq(Nat), NEW g \in Seq(Nat), NEW v, Of(f, v), Of(g, v), Len(f) = Len(g)
    PROVE  f = g
  BY DEF Of

\* A file without blocks.
LEMMA NoBlocks == <<>> \in Seq(Nat) /\ Len(<<>>) = 0 /\ \A v : Of(<<>>, v)
  BY DEF Of

\* A file all of one version, as the owner of the source writes it.
LEMMA NewFile ==
    ASSUME NEW v \in Nat, NEW n \in Nat
    PROVE  File(v, n) \in Seq(Nat) /\ Len(File(v, n)) = n /\ Of(File(v, n), v)
  BY DEF File, Of

\* Nothing is synchronised at the start.
LEMMA SyncInit == Init => IInv
<1> SUFFICES ASSUME Init PROVE IInv
  OBVIOUS
<1>1. PICK n \in 1 .. MaxBlocks : src = [ver |-> 1, data |-> File(1, n), mtime |-> 1]
  BY DEF Init
<1>2. n \in Nat
  OBVIOUS
<1>3. src.data \in Seq(Nat) /\ Len(src.data) = n /\ Of(src.data, 1)
  BY <1>1, <1>2 DEF File, Of
<1>4. QED
  BY <1>1, <1>3 DEF Init, None, Rest, NoReader, IInv, TypeOK, ClockInv, DownloadInv,
                    StampInv, ResultInv, SyncedIsCurrent

\* Replacing or overwriting the source gives it a new mtime, so nothing that was
\* fetched or stamped before is current any more.
LEMMA PublishKeeps ==
    ASSUME IInv, NEW n \in 1 .. MaxBlocks, NEW inPlace \in BOOLEAN, Publish(n, inPlace)
    PROVE  IInv'
<1> USE DEF IInv, TypeOK
<1>1. n \in Nat /\ src.ver + 1 \in Nat
  OBVIOUS
<1>2. src'.data \in Seq(Nat) /\ Of(src'.data, src'.ver)
  <2>1. src'.data = File(src.ver + 1, n) /\ src'.ver = src.ver + 1
    BY DEF Publish
  <2>2. QED
    BY <1>1, <2>1, NewFile
<1>3. src'.mtime = second /\ src.mtime < second /\ UNCHANGED <<second, dest, tmp, fetch>>
  BY DEF Publish
<1>4. TypeOK'
  <2>1. src' \in [ver : Nat, data : Seq(Nat), mtime : Nat]
    BY <1>1, <1>2 DEF Publish
  <2>2. sent' \in [open : BOOLEAN, old : Seq(Nat), own : BOOLEAN, at : Nat]
    BY DEF Publish
  <2>3. QED
    BY <1>3, <2>1, <2>2
<1>5. fetch'.rmtime # src'.mtime /\ (dest'.stamped => dest'.mtime # src'.mtime)
  BY <1>3 DEF ClockInv
<1>6. ClockInv'
  BY <1>2, <1>3 DEF ClockInv
<1>7. QED
  BY <1>3, <1>4, <1>5, <1>6 DEF DownloadInv, StampInv, ResultInv, SyncedIsCurrent

\* The answer to HEAD: a destination with the mtime and the size of the source
\* has its content.
LEMMA AskHeadKeeps == IInv /\ AskHead => IInv'
<1> SUFFICES ASSUME IInv, AskHead PROVE IInv'
  OBVIOUS
<1> USE DEF IInv, TypeOK
<1>1. UNCHANGED <<second, src, dest, tmp, sent>> /\ Len(src.data) \in Nat
  BY DEF AskHead
<1>2. CASE UpToDate
  <2>1. fetch' = [pc |-> "idle", rsize |-> Len(src.data), rmtime |-> src.mtime, left |-> 0,
                  lost |-> FALSE, result |-> "up-to-date"]
    BY <1>2 DEF AskHead, Start, Rest
  <2>2. dest.stamped => dest.data = src.data
    BY <1>2, SameFile DEF UpToDate, StampInv, ClockInv
  <2>3. QED
    BY <1>1, <2>1, <2>2 DEF ClockInv, DownloadInv, StampInv, ResultInv, SyncedIsCurrent
<1>3. CASE ~UpToDate
  <2>1. fetch' = [pc |-> "get", rsize |-> Len(src.data), rmtime |-> src.mtime, left |-> 0,
                  lost |-> FALSE, result |-> "none"]
    BY <1>3 DEF AskHead, Start, Rest
  <2>2. QED
    BY <1>1, <2>1 DEF ClockInv, DownloadInv, StampInv, ResultInv, SyncedIsCurrent
<1>4. QED
  BY <1>2, <1>3

\* The announced size, and a dest.tmp that starts empty whatever a crash left.
LEMMA OpeningKeeps == IInv /\ (Get \/ Open) => IInv'
<1> SUFFICES ASSUME IInv, Get \/ Open PROVE IInv'
  OBVIOUS
<1> USE DEF IInv, TypeOK
<1>1. CASE Get
  <2>1. fetch.pc = "get" /\ fetch' = [fetch EXCEPT !.pc = "open", !.left = Len(src.data)]
    BY <1>1 DEF Get
  <2>2. Len(src.data) \in Nat /\ UNCHANGED <<second, src, dest, tmp, sent>>
    BY <1>1 DEF Get
  <2>3. QED
    BY <2>1, <2>2 DEF ClockInv, DownloadInv, StampInv, ResultInv, SyncedIsCurrent
<1>2. CASE Open
  <2>1. /\ fetch.pc = "open" /\ fetch' = [fetch EXCEPT !.pc = "body"]
        /\ UNCHANGED <<second, src, dest>>
    BY <1>2 DEF Open
  <2>2. /\ tmp' = <<>> /\ Len(tmp') = 0 /\ tmp' \in Seq(Nat)
        /\ sent' = [open |-> TRUE, old |-> <<>>, own |-> FALSE, at |-> 0]
    BY <1>2, NoBlocks DEF Open, NoReader
  <2>3. TypeOK'
    BY <2>1, <2>2, NoBlocks
  <2>4. DownloadInv'
    BY <2>1, <2>2, NoBlocks DEF DownloadInv
  <2>5. QED
    BY <2>1, <2>3, <2>4 DEF ClockInv, StampInv, ResultInv, SyncedIsCurrent
<1>3. QED
  BY <1>1, <1>2

\* A block comes from the file the server has open, which is the source itself
\* as long as that has the mtime of HEAD.
LEMMA BlockKeeps == ASSUME IInv, NEW fails \in BOOLEAN, Block(fails) PROVE IInv'
<1> USE DEF IInv, TypeOK
<1>1. /\ fetch.pc = "body" /\ fetch.left > 0 /\ sent.at < Len(Source)
      /\ UNCHANGED <<second, src, dest>>
      /\ sent' = [sent EXCEPT !.at = sent.at + 1]
      /\ fetch' = [fetch EXCEPT !.left = fetch.left - 1, !.lost = fetch.lost \/ fails]
  BY DEF Block
<1>2. Source \in Seq(Nat) /\ sent.at + 1 \in 1 .. Len(Source)
  BY <1>1 DEF Source
<1>3. Source[sent.at + 1] \in Nat
  BY <1>2
<1> DEFINE b == Source[sent.at + 1]
<1>4. tmp' = IF fails THEN tmp ELSE Append(tmp, b)
  BY DEF Block
<1>5. fetch.rmtime = src.mtime => b = src.ver
  BY <1>1, <1>2 DEF DownloadInv, ClockInv, Source, Of
<1> HIDE DEF b
<1>6. tmp' \in Seq(Nat) /\ Len(tmp') = IF fails THEN Len(tmp) ELSE Len(tmp) + 1
  BY <1>3, <1>4 DEF b
<1>7. ASSUME fetch.rmtime = src.mtime PROVE Of(tmp', src.ver)
  <2>1. Of(tmp, src.ver) /\ b = src.ver
    BY <1>1, <1>5, <1>7 DEF DownloadInv
  <2>2. QED
    BY <1>3, <1>4, <2>1 DEF Of, b
<1>8. TypeOK'
  <2>1. fetch.left - 1 \in Nat /\ sent.at + 1 \in Nat /\ (fetch.lost \/ fails) \in BOOLEAN
    BY <1>1
  <2>2. /\ fetch' \in [pc : {"idle", "get", "open", "body", "utime"}, rsize : Nat, rmtime : Nat,
                       left : Nat, lost : BOOLEAN,
                       result : {"none", "up-to-date", "downloaded", "error"}]
        /\ sent' \in [open : BOOLEAN, old : Seq(Nat), own : BOOLEAN, at : Nat]
    BY <1>1, <2>1
  <2>3. QED
    BY <1>1, <1>6, <2>2
<1>9. DownloadInv'
  <2>1. fetch'.pc = "body" /\ fetch'.left = fetch.left - 1 /\ sent'.at = sent.at + 1
    BY <1>1
  <2>2. /\ sent'.own = sent.own /\ fetch'.lost = (fetch.lost \/ fails)
        /\ fetch'.rmtime = fetch.rmtime
    BY <1>1
  <2>3. Len(tmp) \in Nat
    OBVIOUS
  <2>4. CASE fetch.rmtime = src.mtime
    <3>1. /\ ~sent.own /\ sent.at + fetch.left = Len(src.data)
          /\ ~fetch.lost => Len(tmp) = sent.at
      BY <1>1, <2>4 DEF DownloadInv
    <3>2. sent'.at + fetch'.left = Len(src.data)
      BY <2>1, <3>1
    <3>3. ~fetch'.lost => Len(tmp') = sent'.at
      BY <1>6, <2>1, <2>2, <3>1
    <3>4. QED
      BY <1>1, <1>7, <2>1, <2>2, <2>4, <3>1, <3>2, <3>3 DEF DownloadInv
  <2>5. QED
    BY <1>1, <2>2, <2>4 DEF DownloadInv
<1>10. QED
  BY <1>1, <1>8, <1>9 DEF ClockInv, StampInv, ResultInv, SyncedIsCurrent

\* dest.tmp takes the place of the destination, and then gets the mtime that
\* HEAD reported.
LEMMA FinishKeeps == IInv /\ (Rename \/ Utime) => IInv'
<1> SUFFICES ASSUME IInv, Rename \/ Utime PROVE IInv'
  OBVIOUS
<1> USE DEF IInv, TypeOK
<1>1. CASE Rename
  <2>1. /\ fetch.pc = "body" /\ fetch.left = 0 /\ UNCHANGED <<second, src>>
        /\ dest' = [data |-> tmp, mtime |-> second, stamped |-> FALSE]
        /\ tmp' = <<>> /\ tmp' \in Seq(Nat)
        /\ sent' = [open |-> FALSE, old |-> <<>>, own |-> FALSE, at |-> 0]
        /\ fetch' = [fetch EXCEPT !.pc = "utime"]
    BY <1>1 DEF Rename, NoReader
  <2>2. TypeOK'
    BY <2>1
  <2>3. DownloadInv'
    BY <2>1 DEF DownloadInv
  <2>4. QED
    BY <2>1, <2>2, <2>3 DEF ClockInv, StampInv, ResultInv, SyncedIsCurrent
<1>2. CASE Utime
  <2>1. /\ fetch.pc = "utime" /\ UNCHANGED <<second, src, tmp, sent>>
        /\ dest' = [dest EXCEPT !.mtime = fetch.rmtime, !.stamped = TRUE]
        /\ fetch' = [fetch EXCEPT !.pc = "idle", !.result = "downloaded"]
    BY <1>2 DEF Utime, Return
  <2>2. fetch.rmtime = src.mtime /\ ~fetch.lost => dest.data = src.data
    BY <2>1, SameFile DEF DownloadInv, ClockInv
  <2>3. fetch.rmtime = src.mtime => Of(dest.data, src.ver)
    BY <2>1 DEF DownloadInv
  <2>4. TypeOK'
    BY <2>1
  <2>5. QED
    BY <2>1, <2>2, <2>3, <2>4 DEF ClockInv, DownloadInv, StampInv, ResultInv, SyncedIsCurrent
<1>3. QED
  BY <1>1, <1>2

\* A connection that breaks, a daemon that dies and the clock leave the
\* destination as it is.
LEMMA InterruptedKeeps == IInv /\ (Break \/ Crash \/ Tick) => IInv'
<1> SUFFICES ASSUME IInv, Break \/ Crash \/ Tick PROVE IInv'
  OBVIOUS
<1> USE DEF IInv, TypeOK
<1>1. CASE Break
  <2>1. /\ fetch' = [fetch EXCEPT !.pc = "idle", !.result = "error"]
        /\ UNCHANGED <<second, src, dest>>
        /\ sent' = [open |-> FALSE, old |-> <<>>, own |-> FALSE, at |-> 0]
        /\ tmp' \in Seq(Nat)
    BY <1>1, NoBlocks DEF Break, Return, NoReader
  <2>2. TypeOK'
    BY <2>1, NoBlocks
  <2>3. QED
    BY <2>1, <2>2 DEF ClockInv, DownloadInv, StampInv, ResultInv, SyncedIsCurrent
<1>2. CASE Crash
  <2>1. /\ fetch' = [pc |-> "idle", rsize |-> 0, rmtime |-> 0, left |-> 0, lost |-> FALSE,
                     result |-> "none"]
        /\ UNCHANGED <<second, src, dest, tmp>>
        /\ sent' = [open |-> FALSE, old |-> <<>>, own |-> FALSE, at |-> 0]
    BY <1>2 DEF Crash, Rest, NoReader
  <2>2. TypeOK'
    BY <2>1, NoBlocks
  <2>3. QED
    BY <2>1, <2>2 DEF ClockInv, DownloadInv, StampInv, ResultInv, SyncedIsCurrent
<1>3. CASE Tick
  BY <1>3 DEF Tick, ClockInv, DownloadInv, StampInv, ResultInv, SyncedIsCurrent
<1>4. QED
  BY <1>1, <1>2, <1>3

\* Every step of owner, file server and client keeps the invariant.
LEMMA SyncStep == IInv /\ [Next]_vars => IInv'
<1> SUFFICES ASSUME IInv, [Next]_vars PROVE IInv'
  OBVIOUS
<1>1. CASE UNCHANGED vars
  BY <1>1 DEF vars, IInv, TypeOK, ClockInv, DownloadInv, StampInv, ResultInv,
              SyncedIsCurrent
<1>2. QED
  BY <1>1, PublishKeeps, AskHeadKeeps, OpeningKeeps, BlockKeeps, FinishKeeps,
     InterruptedKeeps DEF Next

\* For files of any size, however often the source is replaced or overwritten
\* while it is read, connections break, writes fail and the daemon dies: a file
\* that sync_file reports "up-to-date" or "downloaded" is the source's, as far
\* as SyncedIsCurrent says (serve/dist_worker.c, sync_file against serve_conn).
THEOREM SyncIsCurrent == Spec => []SyncedIsCurrent
<1>1. IInv => SyncedIsCurrent
  BY DEF IInv
<1>2. QED
  BY <1>1, SyncInit, SyncStep, PTL DEF Spec
=============================================================================
