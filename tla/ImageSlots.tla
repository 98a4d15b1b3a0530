----------------------------- MODULE ImageSlots -----------------------------
(***************************************************************************)
(* The places of image embeddings in a prompt (inference/core/tokenizer.c):*)
(* the rendered prompt holds an opening and a closing marker for the image *)
(* and for every slice of it; chat_expand_image_slots (one image) and      *)
(* chat_expand_mcpv_slots (image and slices) fill each pair of markers     *)
(* with n_pad padding ids and report where they begin.                     *)
(***************************************************************************)
EXTENDS Naturals, Sequences, FiniteSets, SequencesExt

CONSTANTS
    Prompts,   \* rendered prompts: sequences of ids
    PadCounts, \* numbers of embeddings of an image
    IdRoom,    \* max: room in ids
    MaxPlaces  \* n_pos_max: room in vis_pos

VARIABLES
    prompt,  \* the prompt before the expansion
    grid,    \* TRUE: image and slices; FALSE: one image
    nPad,    \* embeddings per image or slice
    slots,   \* ids
    scan,    \* i: the next position to look at
    place,   \* vis_pos
    outcome  \* "open", "filled" or "error"

vars == <<prompt, grid, nPad, slots, scan, place, outcome>>

Pad == "<pad>"
Closing == [m \in {"<image>", "<slice>"} |-> IF m = "<image>" THEN "</image>" ELSE "</slice>"]
Markers == IF grid THEN DOMAIN Closing ELSE {"<image>"}

Init ==
    /\ prompt \in Prompts /\ grid \in BOOLEAN /\ nPad \in PadCounts
    /\ slots = prompt /\ scan = 1 /\ place = <<>> /\ outcome = "open"

-----------------------------------------------------------------------------
Ends(i) == {j \in (i + 1)..Len(slots) : slots[j] = Closing[slots[i]]}
End(i) == CHOOSE j \in Ends(i) : \A k \in Ends(i) : j <= k
FilledKeeping(i) == SubSeq(slots, 1, i) \o [k \in 1..nPad |-> Pad]       \* mutant: no memmove
                    \o SubSeq(slots, End(i) + nPad - (End(i) - i - 1), Len(slots))
Filled(i) == SubSeq(slots, 1, i) \o [k \in 1..nPad |-> Pad] \o SubSeq(slots, End(i), Len(slots))

AtMarker == outcome = "open" /\ scan <= Len(slots) /\ slots[scan] \in Markers
Fits == /\ Ends(scan) # {}
        /\ Len(slots) + nPad - (End(scan) - scan - 1) <= IdRoom
        /\ grid => Len(place) < MaxPlaces

Skip ==
    /\ outcome = "open" /\ scan <= Len(slots) /\ slots[scan] \notin Markers
    /\ scan' = scan + 1
    /\ UNCHANGED <<prompt, grid, nPad, slots, place, outcome>>

\* One image is the end of it; with slices the search goes on behind the closing
\* marker.
Fill ==
    /\ AtMarker /\ Fits
    /\ slots' = Filled(scan)
    /\ place' = Append(place, scan + 1)
    /\ scan' = scan + nPad + 2
    /\ outcome' = IF grid THEN "open" ELSE "filled"
    /\ UNCHANGED <<prompt, grid, nPad>>

\* No closing marker, or no room.  (The order of the memmove and the test for
\* room in vis_pos does not matter: the caller drops the ids.)
Refuse ==
    /\ AtMarker /\ ~Fits
    /\ outcome' = "error"
    /\ UNCHANGED <<prompt, grid, nPad, slots, scan, place>>

Finish ==
    /\ outcome = "open" /\ scan > Len(slots)
    /\ outcome' = IF place = <<>> THEN "error" ELSE "filled"
    /\ UNCHANGED <<prompt, grid, nPad, slots, scan, place>>

Next == Skip \/ Fill \/ Refuse \/ Finish

Spec == Init /\ [][Next]_vars

-----------------------------------------------------------------------------
\* A pair of markers at positions b and e of the prompt that is to be filled.
Pair(b, e) ==
    /\ prompt[b] \in Markers /\ prompt[e] = Closing[prompt[b]]
    /\ \A k \in (b + 1)..(e - 1) : prompt[k] # prompt[e]

\* What is left when the slots are cut out.
Outside == SelectSeq(slots, LAMBDA x : x # Pad)

\* When the markers have been filled, every slot is nPad paddings right between an
\* opening marker and its closing one, slots do not overlap, and, if there was
\* nothing between a pair of markers, all other ids of the prompt are there in
\* their order: with or without slices, whatever markers the user's own text
\* brings along, the paddings move with the ids in front of them.
SlotsFilled ==
    outcome = "filled" =>
        /\ \A k \in DOMAIN place :
              /\ place[k] + nPad <= Len(slots)
              /\ \A n \in 0..(nPad - 1) : slots[place[k] + n] = Pad
              /\ slots[place[k] - 1] \in Markers
              /\ slots[place[k] + nPad] = Closing[slots[place[k] - 1]]
              /\ k > 1 => place[k] > place[k - 1] + nPad
        /\ (\A b, e \in DOMAIN prompt : b < e /\ Pair(b, e) => e = b + 1) => Outside = prompt
=============================================================================
