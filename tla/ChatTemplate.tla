---------------------------- MODULE ChatTemplate ----------------------------
(***************************************************************************)
(* The chat template of a vocabulary is rendered to token ids by           *)
(* vocab_chat_ids_multi (inference/core/tokenizer.c).  The template is cut *)
(* into a flat list of statements; the list is executed once per message   *)
(* with a stack that holds, for every open if, what becomes of the         *)
(* statements below it.                                                    *)
(*                                                                         *)
(* A statement is a record: its kind and, for an if or elif, the clauses   *)
(* its condition is the disjunction of.  An expression stands for the      *)
(* tokens it yields: the message and the statement it came from.           *)
(***************************************************************************)
EXTENDS Integers, Sequences, FiniteSets, SequencesExt

CONSTANTS
    Templates,  \* templates: sequences of statements, and Unsupported
    Dialogs,    \* conversations: sequences of roles
    IdCap         \* capacity of ids, in expressions

VARIABLES
    tpl,    \* the template
    msgs,   \* the conversation
    mi,     \* the message being rendered
    si,     \* the statement to execute next
    stk,    \* the if stack
    ids     \* the rendered output

vars == <<tpl, msgs, mi, si, stk, ids>>

\* What chat_template_unsupported recognises: rendered by chat_render_generic,
\* or by chat_render_gemma4 for its vocabulary.
Unsupported == <<[kind |-> "macro", cond |-> {}]>>

Unmatched == 1   \* no branch of the chain was taken yet
Matched   == 2   \* the branch is rendered
Dead      == 3   \* the chain lies in a part that is skipped

Init ==
    /\ tpl \in Templates /\ msgs \in Dialogs
    /\ mi = 1 /\ si = 1 /\ stk = <<>> /\ ids = <<>>

-----------------------------------------------------------------------------
\* chat_clause_true and chat_eval_cond: a role compares with the message's.
ClauseTrue(c, m) == c = "always" \/ c = msgs[m]
EvalCond(cond, m) == \E c \in cond : ClauseTrue(c, m)
IsLast(m) == m = Len(msgs)
Holds(st, m) == IF st.kind = "if_last" THEN IsLast(m) ELSE EvalCond(st.cond, m)

Verdict(st) == IF Holds(st, mi) THEN Matched ELSE Unmatched
Skipping == stk # <<>> /\ Last(stk) # Matched
SetTop(x) == [stk EXCEPT ![Len(stk)] = x]

Execute(kinds) ==
    /\ tpl # Unsupported /\ mi <= Len(msgs)
    /\ si <= Len(tpl) /\ Len(ids) < IdCap
    /\ tpl[si].kind \in kinds
    /\ si' = si + 1
    /\ UNCHANGED <<tpl, msgs, mi>>

\* ST_FOR and ST_END_FOR do nothing: what stands before or after the loop is
\* executed for every message.
Loop == Execute({"for", "endfor"}) /\ UNCHANGED <<stk, ids>>

\* ST_IF and ST_IF_LAST.
PushedReviving == Append(stk, IF Skipping THEN Unmatched ELSE Verdict(tpl[si]))   \* mutant
Pushed == Append(stk, IF Skipping THEN Dead ELSE Verdict(tpl[si]))
If == Execute({"if", "if_last"}) /\ stk' = Pushed /\ UNCHANGED ids

\* ST_ELIF, also for else, whose condition is "True".  A matched chain becomes an
\* unmatched one again.
SwitchedOn == IF stk = <<>> \/ Last(stk) = Dead THEN stk             \* mutant
              ELSE SetTop(Verdict(tpl[si]))
Switched ==
    IF stk = <<>> THEN stk
    ELSE CASE Last(stk) = Unmatched -> SetTop(Verdict(tpl[si]))
           [] Last(stk) = Matched   -> SetTop(Unmatched)
           [] OTHER                 -> stk
Elif == Execute({"elif"}) /\ stk' = Switched /\ UNCHANGED ids

EndIf == /\ Execute({"endif"})
         /\ stk' = IF stk = <<>> THEN stk ELSE Front(stk)
         /\ UNCHANGED ids

\* ST_EXPR: chat_eval_expr, then chat_append_ids.
Expr == /\ Execute({"expr"})
        /\ ids' = IF Skipping THEN ids ELSE Append(ids, <<mi, si>>)
        /\ UNCHANGED stk

\* The end of the list, or of ids: the next message, with an empty stack.
NextMessage ==
    /\ tpl # Unsupported /\ mi <= Len(msgs)
    /\ si > Len(tpl) \/ Len(ids) >= IdCap
    /\ mi' = mi + 1 /\ si' = 1 /\ stk' = <<>>
    /\ UNCHANGED <<tpl, msgs, ids>>

\* chat_render_generic and chat_render_gemma4: every message in turn, then the
\* header of the answer, in one go.
Fallback ==
    /\ tpl = Unsupported /\ mi = 1
    /\ ids' = SubSeq([m \in 1..Len(msgs) |-> <<m, 0>>] \o <<<<"answer", 0>>>>, 1,
                     IF Len(msgs) < IdCap THEN Len(msgs) + 1 ELSE IdCap)
    /\ mi' = Len(msgs) + 1
    /\ UNCHANGED <<tpl, msgs, si, stk>>

Next == Loop \/ If \/ Elif \/ EndIf \/ Expr \/ NextMessage \/ Fallback

Spec == Init /\ [][Next]_vars

-----------------------------------------------------------------------------
(* The chains a statement stands in, read off the nested template.         *)

Opens == {"if", "if_last"}
Positions(kinds, from, to) == {s \in from..to : tpl[s].kind \in kinds}
\* The number of ifs open before statement s.
Level(s) == Cardinality(Positions(Opens, 1, s - 1)) - Cardinality(Positions({"endif"}, 1, s - 1))

Closed(o, s) == \E e \in Positions({"endif"}, o + 1, s - 1) : Level(e) = Level(o) + 1
Enclosing(s) == {o \in Positions(Opens, 1, s - 1) : ~Closed(o, s)}
\* The branches of the chain opened at o that start before s; s is in the last.
Branches(o, s) == {o} \cup {e \in Positions({"elif"}, o + 1, s - 1) : Level(e) = Level(o) + 1}
Branch(o, s) == CHOOSE b \in Branches(o, s) : \A x \in Branches(o, s) : x <= b

Rendered == tpl # Unsupported /\ mi > Len(msgs)

\* Whatever has been rendered stands, in every chain around it, in a branch whose
\* condition is true of the message: an else or elif inside a skipped branch
\* does not come back to life.
TrueBranchesOnly ==
    Rendered => \A r \in ToSet(ids) :
        \A o \in Enclosing(r[2]) : Holds(tpl[Branch(o, r[2])], r[1])

\* The branch behind the first true one of a chain is skipped, true or not.  The
\* comment in ST_ELIF says so of all that remain, which the code does not do: the
\* branch after the next is looked at again.
NextBranchSkipped ==
    Rendered => \A r \in ToSet(ids) : \A o \in Enclosing(r[2]) :
        LET first == Min({b \in Branches(o, r[2]) : Holds(tpl[b], r[1])})
        IN  first = Branch(o, r[2]) \/ \E x \in Branches(o, r[2]) : first < x /\ x < Branch(o, r[2])

\* An expression that stands in the first true branch of every chain around it
\* has been rendered, once, for every message.
FirstTrueRendered ==
    Rendered /\ Len(ids) < IdCap =>
        \A s \in Positions({"expr"}, 1, Len(tpl)), m \in 1..Len(msgs) :
            (\A o \in Enclosing(s) :
                /\ Holds(tpl[Branch(o, s)], m)
                /\ \A b \in Branches(o, s) \ {Branch(o, s)} : ~Holds(tpl[b], m))
            => Cardinality({k \in DOMAIN ids : ids[k] = <<m, s>>}) = 1

\* The rendered prompt is what the chains of the template say, except that in a
\* chain with a true branch, the second one behind it and those after that may be
\* rendered as well if their condition is true.
BranchesRendered == TrueBranchesOnly /\ NextBranchSkipped /\ FirstTrueRendered
=============================================================================
