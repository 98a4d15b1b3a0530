----------------------------- MODULE Completion -----------------------------
(* What the engine promises its callers, whatever the model architecture, the  *)
(* device and the number of segments: a call keeps a prefix of the text in the *)
(* cache, appends tokens, and in the end the logits are those of the new text. *)
EXTENDS Naturals, Sequences

CONSTANTS Inputs,       \* the token sequences of one call
          MaxLen        \* max_seq

VARIABLES text, answer  \* the tokens in the cache; the text the logits belong to

Busy == <<"busy">>

Start == text = <<>> /\ answer = <<>>

Ask(start, toks) ==
    /\ answer # Busy
    /\ start + Len(toks) <= MaxLen
    /\ text' = SubSeq(text, 1, start) \o toks
    /\ answer' = Busy

Answer ==
    /\ answer = Busy
    /\ answer' = text
    /\ UNCHANGED text

Step == Answer \/ \E toks \in Inputs : \E start \in 0..Len(text) : Ask(start, toks)

Spec == Start /\ [][Step]_<<text, answer>> /\ WF_<<text, answer>>(Answer)
=============================================================================
