------------------------------ MODULE Tokenizer ------------------------------
(***************************************************************************)
(* From text to token ids and back (inference/core/tokenizer.c):           *)
(* vocab_encode with its three kinds of vocabulary, and vocab_decode.      *)
(*                                                                         *)
(* A text is a sequence of bytes.  A piece of a "merges" vocabulary        *)
(* (byte-level BPE) is spelled with one character per byte, by the one to  *)
(* one mapping of gpt2_byte_str, and is given here as those bytes.  A      *)
(* piece of a "scores" (SentencePiece) or "greedy" vocabulary is its text; *)
(* the piece "<0x41>" of a single byte is <<"byte", 41>>, and a piece such *)
(* as "<unk>" is <<"special">>.                                            *)
(***************************************************************************)
EXTENDS Integers, Sequences, FiniteSets, SequencesExt

CONSTANTS
    Vocabs,    \* vocabularies: kind, pieces, merges, scores, unk
    Texts,     \* the texts to encode
    Width,     \* utf8_clen: length of a character, by its first byte
    Specials,  \* k_qwen_specials: texts that a "merges" vocabulary may have as one piece
    Latin,     \* the byte that a two-byte character spells in a "merges" vocabulary
    OutCap     \* max: room for ids

VARIABLES
    vocab,  \* the vocabulary in use
    text,   \* what vocab_encode works on: for "scores" with a space in front
    at,     \* bytes consumed
    syms,   \* the symbols, piece numbers
    phase   \* "scan", "merge" or "done"

vars == <<vocab, text, at, syms, phase>>

Space == "_"     \* a blank in a text, and the character U+2581 in a piece
Byte(b) == <<"byte", b>>

Normalized(v, t) == IF v.kind = "scores" THEN <<Space>> \o t ELSE t

Init ==
    /\ vocab \in Vocabs /\ \E t \in Texts : text = Normalized(vocab, t)
    /\ at = 0 /\ syms = <<>> /\ phase = "scan"

-----------------------------------------------------------------------------
Ids == DOMAIN vocab.pieces
Find(p) == {i \in Ids : vocab.pieces[i] = p}       \* vocab_bsearch_sorted
Fallback(p) == IF Find(p) # {} THEN Find(p) ELSE vocab.unk

\* The character at the next byte, cut off at the end of the text.
Char == SubSeq(text, at + 1, at + IF Width[text[at + 1]] <= Len(text) - at
                                  THEN Width[text[at + 1]] ELSE Len(text) - at)

\* A set of at most one id: nothing is appended for a byte without a piece when
\* the vocabulary has no <unk>.
Appended(s, id) == IF id = {} THEN s ELSE Append(s, CHOOSE i \in id : TRUE)

Scanning(kind) == phase = "scan" /\ vocab.kind = kind /\ at < Len(text)
Room == Len(syms) < OutCap
Take(n) == at' = at + n /\ UNCHANGED <<vocab, text, phase>>

\* vocab_encode_merges: the longest special text that starts here and is a piece.
Special == {w \in Specials : Find(w) # {} /\ IsPrefix(w, SubSeq(text, at + 1, Len(text)))}

ScanSpecial ==
    /\ Scanning("merges")
    /\ \E w \in Special :
          /\ \A x \in Special : Len(x) <= Len(w)
          /\ syms' = IF Room THEN Appended(syms, Find(w)) ELSE syms
          /\ Take(Len(w))

\* A character of several bytes is looked up as it stands ...
Direct == IF Len(Char) > 1 /\ Char \in DOMAIN Latin THEN Find(<<Latin[Char]>>) ELSE {}

ScanDirect ==
    /\ Scanning("merges") /\ Special = {} /\ Direct # {}
    /\ syms' = IF Room THEN Appended(syms, Direct) ELSE syms
    /\ Take(Len(Char))

\* ... or else its first byte by itself.
ScanByte ==
    /\ Scanning("merges") /\ Special = {} /\ Direct = {}
    /\ syms' = IF Room THEN Appended(syms, Fallback(<<text[at + 1]>>)) ELSE syms
    /\ Take(1)

\* vocab_encode, "scores": a whole character, or a byte piece for each byte; the
\* room is not looked at.
ScanChar ==
    /\ Scanning("scores")
    /\ syms' = IF Find(Char) # {} THEN Appended(syms, Find(Char))
               ELSE FoldLeft(LAMBDA s, b : Appended(s, Fallback(Byte(b))), syms, Char)
    /\ Take(Len(Char))

\* vocab_encode_greedy: the longest piece that starts here.
Starting == {i \in Ids : vocab.pieces[i] \in Seq(DOMAIN Width)
                         /\ IsPrefix(vocab.pieces[i], SubSeq(text, at + 1, Len(text)))}
Longest == {i \in Starting : \A j \in Starting : Len(vocab.pieces[i]) >= Len(vocab.pieces[j])}

ScanGreedy ==
    /\ Scanning("greedy") /\ Room
    /\ syms' = Appended(syms, IF Starting # {} THEN Longest ELSE Fallback(Byte(text[at + 1])))
    /\ Take(IF Starting # {} THEN Len(vocab.pieces[CHOOSE i \in Longest : TRUE]) ELSE 1)

ScanEnd ==
    /\ phase = "scan" /\ (at = Len(text) \/ (vocab.kind = "greedy" /\ ~Room))
    /\ phase' = IF vocab.kind = "greedy" THEN "done" ELSE "merge"
    /\ UNCHANGED <<vocab, text, at, syms>>

-----------------------------------------------------------------------------
(* Merging.  A candidate is a position and the piece the pair there makes. *)

Makes(j) == vocab.pieces[syms[j]] \o vocab.pieces[syms[j + 1]]
Ranks(j) == {r \in DOMAIN vocab.merges :
                vocab.merges[r] = <<vocab.pieces[syms[j]], vocab.pieces[syms[j + 1]]>>}
Plain(i) == vocab.pieces[i] \in Seq(DOMAIN Width)
Pairs ==
    IF vocab.kind = "merges"
    THEN {j \in 1..(Len(syms) - 1) : Ranks(j) # {}}
    ELSE {j \in 1..(Len(syms) - 1) : Plain(syms[j]) /\ Plain(syms[j + 1]) /\ Find(Makes(j)) # {}}

\* The merge that comes first in the list, or the piece with the highest score;
\* of several places the leftmost.
Worth(j) == IF vocab.kind = "merges" THEN 0 - CHOOSE r \in Ranks(j) : TRUE
            ELSE vocab.scores[CHOOSE i \in Find(Makes(j)) : TRUE]
BestRightmost == CHOOSE j \in Pairs : \A k \in Pairs :                  \* mutant
                    Worth(j) > Worth(k) \/ (Worth(j) = Worth(k) /\ j >= k)
Best == CHOOSE j \in Pairs : \A k \in Pairs :
            Worth(j) > Worth(k) \/ (Worth(j) = Worth(k) /\ j <= k)

Merge ==
    /\ phase = "merge" /\ Pairs # {} /\ Room
    /\ syms' = SubSeq(syms, 1, Best - 1) \o Appended(<<>>, Find(Makes(Best)))
               \o SubSeq(syms, Best + 2, Len(syms))
    /\ UNCHANGED <<vocab, text, at, phase>>

MergeEnd ==
    /\ phase = "merge" /\ (Pairs = {} \/ ~Room)
    /\ syms' = SubSeq(syms, 1, IF Room THEN Len(syms) ELSE OutCap)
    /\ phase' = "done"
    /\ UNCHANGED <<vocab, text, at>>

Next == ScanSpecial \/ ScanDirect \/ ScanByte \/ ScanChar \/ ScanGreedy \/ ScanEnd
        \/ Merge \/ MergeEnd

Spec == Init /\ [][Next]_vars

-----------------------------------------------------------------------------
\* vocab_decode; <unk> and the like are skipped.
Spelled(p) == IF p[1] = "byte" THEN <<p[2]>> ELSE IF p = <<"special">> THEN <<>> ELSE p
Decode(s) == FlattenSeq([k \in DOMAIN s |-> Spelled(vocab.pieces[s[k]])])

\* The usual definition of BPE: the merges are applied to the whole text one
\* after the other, each from left to right.
ApplyMerge(m, ps) ==
    FoldLeft(LAMBDA acc, p : IF acc # <<>> /\ p = m[2] /\ Last(acc) = m[1]
                             THEN Append(Front(acc), m[1] \o m[2]) ELSE Append(acc, p), <<>>, ps)
ByteLevelBPE(t) ==
    FoldLeft(LAMBDA ps, m : ApplyMerge(m, ps), [k \in DOMAIN t |-> <<t[k]>>], vocab.merges)

\* No character of the text is one the vocabulary has under another meaning, and
\* every byte has a piece.
Covered ==
    /\ vocab.kind = "merges" => \A k \in 1..Len(text), c \in DOMAIN Latin :
           ~IsPrefix(c, SubSeq(text, k, Len(text)))
    /\ \A k \in 1..Len(text) : Find(<<text[k]>>) \cup Find(Byte(text[k])) # {}

HasSpecial == \E w \in Specials, k \in 1..Len(text) : IsPrefix(w, SubSeq(text, k, Len(text)))

\* A text that has fewer bytes than there is room for ids is encoded without loss:
\* decoding the ids gives the text back, and a byte-level vocabulary yields the
\* pieces of the usual definition of BPE.
EncodesTheText ==
    phase = "done" /\ Covered /\ Len(text) < OutCap =>
        /\ Decode(syms) = text
        /\ vocab.kind = "merges" /\ ~HasSpecial =>
             [k \in DOMAIN syms |-> vocab.pieces[syms[k]]] = ByteLevelBPE(text)
=============================================================================
