------------------------------ MODULE FileSync ------------------------------
(***************************************************************************)
(* Model files are pulled from another host (serve/dist_worker.c): the     *)
(* "sync" command runs sync_file, which asks the file server (serve_conn)  *)
(* for size and mtime (HEAD), compares them with the local file, and       *)
(* otherwise downloads (GET) into dest.tmp, renames it and sets the mtime. *)
(*                                                                         *)
(* A file is a sequence of blocks, each tagged with the version it belongs *)
(* to.  The owner of the source replaces it (a new file under the name) or *)
(* overwrites it in place, at most once a second and never with an mtime   *)
(* that goes back.  A connection may break, a write may fail (fwrite's     *)
(* result is ignored), and the daemon may be killed between any two steps. *)
(* This is the POSIX build: rename replaces the destination.               *)
(***************************************************************************)
EXTENDS Naturals, Sequences

CONSTANTS
    MaxBlocks,   \* bound: blocks of a file
    MaxVersion,  \* bound: versions of the source
    LastSecond   \* bound: the clock

VARIABLES
    second,   \* the clock, in seconds
    src,      \* the source: version, content, mtime
    dest,     \* the local file: content, mtime, and whether utime set the mtime
    tmp,      \* dest.tmp, which survives a crash
    fetch,    \* the progress of sync_file
    sent      \* the open file of serve_conn: the old content once it was replaced

vars == <<second, src, dest, tmp, fetch, sent>>

File(v, n) == [i \in 1..n |-> v]
None == [data |-> <<>>, mtime |-> 0, stamped |-> FALSE]   \* no file; a clock never shows 0
NoReader == [open |-> FALSE, old |-> <<>>, own |-> FALSE, at |-> 0]
Rest == [pc |-> "idle", rsize |-> 0, rmtime |-> 0, left |-> 0, lost |-> FALSE,
         result |-> "none"]

Init ==
    /\ second = 1
    /\ \E n \in 1..MaxBlocks : src = [ver |-> 1, data |-> File(1, n), mtime |-> 1]
    /\ dest = None /\ tmp = <<>> /\ fetch = Rest /\ sent = NoReader

-----------------------------------------------------------------------------
(* The owner of the source.                                                *)

Publish(n, inPlace) ==
    /\ src.mtime < second /\ src.ver < MaxVersion
    /\ src' = [ver |-> src.ver + 1, data |-> File(src.ver + 1, n), mtime |-> second]
    /\ sent' = IF sent.open /\ ~sent.own /\ ~inPlace
               THEN [sent EXCEPT !.own = TRUE, !.old = src.data] ELSE sent
    /\ UNCHANGED <<second, dest, tmp, fetch>>

Tick == /\ second < LastSecond /\ second' = second + 1
        /\ UNCHANGED <<src, dest, tmp, fetch, sent>>

-----------------------------------------------------------------------------
(* sync_file.                                                              *)

Return(r) == [fetch EXCEPT !.pc = "idle", !.result = r]
Start(pc) == [Rest EXCEPT !.pc = pc, !.rsize = Len(src.data), !.rmtime = src.mtime]

UpToDateBySize == Len(dest.data) = Len(src.data)                     \* mutant
UpToDate == dest.mtime = src.mtime /\ Len(dest.data) = Len(src.data)

\* HEAD: serve_conn's stat of the source against the stat of the destination.
AskHead ==
    /\ fetch.pc = "idle"
    /\ fetch' = IF UpToDate THEN [Start("idle") EXCEPT !.result = "up-to-date"]
                ELSE Start("get")
    /\ UNCHANGED <<second, src, dest, tmp, sent>>

\* GET: serve_conn announces the size ...
Get ==
    /\ fetch.pc = "get"
    /\ fetch' = [fetch EXCEPT !.pc = "open", !.left = Len(src.data)]
    /\ UNCHANGED <<second, src, dest, tmp, sent>>

\* ... and opens the file afterwards; the client truncates dest.tmp.
Open ==
    /\ fetch.pc = "open"
    /\ sent' = [NoReader EXCEPT !.open = TRUE]
    /\ tmp' = <<>>
    /\ fetch' = [fetch EXCEPT !.pc = "body"]
    /\ UNCHANGED <<second, src, dest>>

Source == IF sent.own THEN sent.old ELSE src.data

\* One block: read by the server, received and written by the client.
Block(fails) ==
    /\ fetch.pc = "body" /\ fetch.left > 0 /\ sent.at < Len(Source)
    /\ sent' = [sent EXCEPT !.at = @ + 1]
    /\ tmp' = IF fails THEN tmp ELSE Append(tmp, Source[sent.at + 1])
    /\ fetch' = [fetch EXCEPT !.left = @ - 1, !.lost = @ \/ fails]
    /\ UNCHANGED <<second, src, dest>>

\* A connection fails or breaks, the file has become shorter than announced, or
\* the rename fails: dest.tmp is removed.
Break ==
    /\ fetch.pc # "utime"
    /\ fetch' = Return("error")
    /\ tmp' = IF fetch.pc = "body" THEN <<>> ELSE tmp
    /\ sent' = NoReader
    /\ UNCHANGED <<second, src, dest>>

\* rename; the file carries the time of its last write until utime.
Rename ==
    /\ fetch.pc = "body" /\ fetch.left = 0
    /\ dest' = [data |-> tmp, mtime |-> second, stamped |-> FALSE]
    /\ tmp' = <<>> /\ sent' = NoReader
    /\ fetch' = [fetch EXCEPT !.pc = "utime"]
    /\ UNCHANGED <<second, src>>

\* The mtime that HEAD reported, not that of the GET.
Utime ==
    /\ fetch.pc = "utime"
    /\ dest' = [dest EXCEPT !.mtime = fetch.rmtime, !.stamped = TRUE]
    /\ fetch' = Return("downloaded")
    /\ UNCHANGED <<second, src, tmp, sent>>

\* The daemon dies; the files stay as they are.
Crash ==
    /\ fetch.pc # "idle"
    /\ fetch' = Rest /\ sent' = NoReader
    /\ UNCHANGED <<second, src, dest, tmp>>

Next ==
    \/ \E n \in 1..MaxBlocks, inPlace \in BOOLEAN : Publish(n, inPlace)
    \/ Tick \/ AskHead \/ Get \/ Open \/ (\E fails \in BOOLEAN : Block(fails))
    \/ Break \/ Rename \/ Utime \/ Crash

Spec == Init /\ [][Next]_vars

-----------------------------------------------------------------------------
\* When sync_file reports "up-to-date" or "downloaded" and the source has not
\* changed since the HEAD, the destination has the content of the source: no
\* block of an older version, of a torn download, of a dest.tmp left by a crash,
\* or missing after an earlier write error that nobody noticed.  Excepted are a
\* write error in this very call, and a file whose mtime was never set because
\* the daemon died between rename and utime.
SyncedIsCurrent ==
    /\ fetch.result \in {"up-to-date", "downloaded"} /\ fetch.rmtime = src.mtime
    /\ ~fetch.lost /\ dest.stamped
    => dest.data = src.data
=============================================================================
