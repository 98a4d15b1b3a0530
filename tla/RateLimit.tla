----------------------------- MODULE RateLimit -----------------------------
(***************************************************************************)
(* The admission limits of the HTTP front end (serve/router_http.c): a     *)
(* ring of one-second slots counts the requests and tokens of the last     *)
(* RL_WIN seconds; a request over a limit is answered 429.                 *)
(*                                                                         *)
(* Every HTTP connection is a thread.  A slot operation reads the clock,   *)
(* then takes g_rl_lock: these are two steps, and the clock may tick in    *)
(* between.  The scan that decides and the count of the admitted request   *)
(* are two critical sections.                                              *)
(***************************************************************************)
EXTENDS Integers, FiniteSets, Functions

CONSTANTS
    Thread,    \* HTTP connection threads
    Win,       \* RL_WIN
    Rpm, Tpm,  \* g_rpm_limit and g_tpm_limit, 0 = off
    MaxTok,    \* bound: tokens of a request
    MaxTime    \* bound: the clock

ASSUME RateAssumption ==
    /\ {Win, MaxTime} \subseteq Nat \ {0} /\ {Rpm, Tpm, MaxTok} \subseteq Nat
    /\ IsFiniteSet(Thread)

VARIABLES
    g_rl,      \* the slots
    now,       \* time(NULL)
    thr,       \* the threads: where they are, the clock they read, their tokens
    admitted,  \* history: requests admitted in each second
    charged    \* history: tokens charged in each second

vars == <<g_rl, now, thr, admitted, charged>>
hist == <<admitted, charged>>

Empty == [sec |-> 0, req |-> 0, tok |-> 0]
Idle == [pc |-> "idle", clk |-> 0, tok |-> 0]

Init ==
    /\ g_rl = [i \in 0..(Win - 1) |-> Empty]
    /\ now = 1
    /\ thr = [t \in Thread |-> Idle]
    /\ admitted = [s \in 1..MaxTime |-> 0] /\ charged = [s \in 1..MaxTime |-> 0]

-----------------------------------------------------------------------------
\* rl_scan with the clock reading c clears the slots that have left the window
\* and adds up the others.
Expired(slot, c) == slot.sec # 0 /\ c - slot.sec >= Win
Scanned(c) == [i \in DOMAIN g_rl |-> IF Expired(g_rl[i], c) THEN Empty ELSE g_rl[i]]
Reqs(c) == SumFunction([i \in DOMAIN g_rl |-> Scanned(c)[i].req])
Toks(c) == SumFunction([i \in DOMAIN g_rl |-> Scanned(c)[i].tok])

\* The slot of second c.
Index(c) == c % Win

\* rl_slot_reset: the slot of second c, emptied if it holds another second.
SlotKept(c) == [g_rl[Index(c)] EXCEPT !.sec = c]                    \* mutant: no reset
Slot(c) == IF g_rl[Index(c)].sec = c THEN g_rl[Index(c)] ELSE [Empty EXCEPT !.sec = c]

\* http_reject_if_rate_limited.
OverLate(c) == \/ Rpm > 0 /\ Reqs(c) > Rpm                          \* mutant: > for >=
               \/ Tpm > 0 /\ Toks(c) >= Tpm
Over(c) == \/ Rpm > 0 /\ Reqs(c) >= Rpm
           \/ Tpm > 0 /\ Toks(c) >= Tpm

ReadClock(t, l) == thr' = [thr EXCEPT ![t].pc = l, ![t].clk = now]

Arrive(t) ==
    /\ thr[t].pc = "idle" /\ (Rpm > 0 \/ Tpm > 0)
    /\ ReadClock(t, "scan")
    /\ UNCHANGED <<g_rl, now, hist>>

Scan(t) ==
    /\ thr[t].pc = "scan"
    /\ g_rl' = Scanned(thr[t].clk)
    /\ thr' = [thr EXCEPT ![t] = IF Over(thr[t].clk) THEN Idle ELSE [Idle EXCEPT !.pc = "pass"]]
    /\ UNCHANGED <<now, hist>>

\* rl_bump_req: the request is admitted.
BumpReqClock(t) ==
    /\ thr[t].pc = "pass"
    /\ ReadClock(t, "bump")
    /\ UNCHANGED <<g_rl, now, hist>>

BumpReq(t) ==
    LET c == thr[t].clk
    IN  /\ thr[t].pc = "bump"
        /\ g_rl' = [g_rl EXCEPT ![Index(c)] = [Slot(c) EXCEPT !.req = @ + 1]]
        /\ admitted' = [admitted EXCEPT ![c] = @ + 1]
        /\ thr' = [thr EXCEPT ![t] = [Idle EXCEPT !.pc = "infer"]]
        /\ UNCHANGED <<now, charged>>

\* A request that fails (or that http_reject_if_busy turns away) is not charged.
Fail(t) ==
    /\ thr[t].pc = "infer"
    /\ thr' = [thr EXCEPT ![t] = Idle]
    /\ UNCHANGED <<g_rl, now, hist>>

\* rl_bump_tokens when the answer is complete.
BumpTokensClock(t, n) ==
    /\ thr[t].pc = "infer"
    /\ thr' = [thr EXCEPT ![t] = [pc |-> "charge", clk |-> now, tok |-> n]]
    /\ UNCHANGED <<g_rl, now, hist>>

BumpTokens(t) ==
    LET c == thr[t].clk
    IN  /\ thr[t].pc = "charge"
        /\ g_rl' = [g_rl EXCEPT ![Index(c)] = [Slot(c) EXCEPT !.tok = @ + thr[t].tok]]
        /\ charged' = [charged EXCEPT ![c] = @ + thr[t].tok]
        /\ thr' = [thr EXCEPT ![t] = Idle]
        /\ UNCHANGED <<now, admitted>>

\* The clock ticks; no thread is held between time() and g_rl_lock for as long
\* as the window.
Tick ==
    /\ now < MaxTime
    /\ \A t \in Thread : thr[t].pc \in {"scan", "bump", "charge"} => now + 1 - thr[t].clk < Win
    /\ now' = now + 1
    /\ UNCHANGED <<g_rl, thr, hist>>

Next ==
    \/ \E t \in Thread :
        \/ Arrive(t) \/ Scan(t) \/ BumpReqClock(t) \/ BumpReq(t) \/ Fail(t)
        \/ (\E n \in 1..MaxTok : BumpTokensClock(t, n)) \/ BumpTokens(t)
    \/ Tick

Spec == Init /\ [][Next]_vars

-----------------------------------------------------------------------------
(* Properties.                                                             *)

Recent(f) == SumFunctionOnSet(f, {s \in 1..now : now - s < Win})

\* The type invariant; a slot holds the second its index says.
TypeOK ==
    /\ now \in 1..MaxTime
    /\ g_rl \in [0..(Win - 1) -> [sec : 0..now, req : Nat, tok : Nat]]
    /\ \A i \in DOMAIN g_rl : g_rl[i].sec # 0 => g_rl[i].sec % Win = i
    /\ thr \in [Thread -> [pc : {"idle", "scan", "pass", "bump", "infer", "charge"},
                           clk : 0..now, tok : 0..MaxTok]]

\* What rl_scan adds up now is exactly what was admitted and charged in the last
\* RL_WIN seconds, second by second, although slots are reused every RL_WIN
\* seconds and threads write with clock readings that are out of date: the slot of
\* a second of the window has its counts, or is another's and there is nothing to
\* count, and a slot the scan keeps is that of a second of the window.
SlotsExact ==
    /\ \A s \in 1..now : now - s < Win =>
          LET slot == g_rl[Index(s)]
          IN  IF slot.sec = s THEN slot.req = admitted[s] /\ slot.tok = charged[s]
                              ELSE admitted[s] = 0 /\ charged[s] = 0
    /\ \A i \in DOMAIN g_rl : Scanned(now)[i] # Empty =>
          \E s \in 1..now : now - s < Win /\ Index(s) = i /\ g_rl[i].sec = s

\* Concurrent threads may pass the scan together and tokens are charged after the
\* fact, but the window exceeds the limits by less than one request, and one
\* answer, per thread.
OverrunBounded ==
    /\ Rpm > 0 => Recent(admitted) <= Rpm + Cardinality(Thread) - 1
    /\ Tpm > 0 => Recent(charged) <= Tpm - 1 + Cardinality(Thread) * MaxTok
============================================================================
