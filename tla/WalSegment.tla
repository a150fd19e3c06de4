----------------------------- MODULE WalSegment -----------------------------
(***************************************************************************)
(* A WAL segment on disk and how recovery reads it.  An entry is a length, *)
(* a body and a CRC; a cut inside one of these cells is a cut before it    *)
(* to the reader, and Zero stands for a cell of which a part was never     *)
(* written back.  The CRC is that of the body exactly when both are whole. *)
(***************************************************************************)
EXTENDS Integers, SequencesExt

Zero == [cell |-> "zero"]

\* WalEntry::encode_into
encode(e) == <<[cell |-> "length", of |-> e], [cell |-> "body", of |-> e],
               [cell |-> "crc", of |-> e]>>

Cells(entries) == FlattenSeq([i \in DOMAIN entries |-> encode(entries[i])])

\* is_tail_corruption: nothing, zeros or too little for an entry follow.
is_tail_corruption(image, from) ==
    \/ Len(image) - from + 1 < 2
    \/ \A i \in from .. Len(image) : image[i] = Zero

\* WalEntry::decode_body of a body whose CRC is right.
decode_body(body) == body.of

validate_crc(body, crc) == body.cell = "body" /\ crc.cell = "crc"

\* What a failing CRC means, by what follows.
Damaged(image, pos) == IF is_tail_corruption(image, pos + 3) THEN "end" ELSE "error"

\* Mutant: an entry that is not all there is an error.
next_entry_strict(image, pos) ==
    IF pos > Len(image) \/ image[pos] = Zero THEN "end"
    ELSE IF pos + 2 > Len(image) THEN "error"
    ELSE IF validate_crc(image[pos + 1], image[pos + 2]) THEN "entry"
    ELSE Damaged(image, pos)

\* SegmentReader::next_entry at a position: an entry, the end or an error.
next_entry(image, pos) ==
    IF \/ pos > Len(image)          \* no length
       \/ image[pos] = Zero         \* padding
       \/ pos + 2 > Len(image)      \* tail truncation
    THEN "end"
    ELSE IF validate_crc(image[pos + 1], image[pos + 2]) THEN "entry"
    ELSE Damaged(image, pos)

\* The entries of a segment up to the end or an error.
entries_of(image) ==
    LET read[pos \in 1 .. Len(image) + 1] ==
            LET next == next_entry(image, pos)
            IN  IF next = "entry"
                THEN [read[pos + 3] EXCEPT !.entries = <<decode_body(image[pos + 1])>> \o @]
                ELSE [ok |-> next = "end", entries |-> <<>>]
    IN  read[1]

\* SegmentReader::open: the header is there and says what it should.
open(segment) == segment.header

\* WalReader::replay_all over segments [header, cells]: one that cannot be
\* read makes the whole replay fail.
replay_all(segments) ==
    LET parts == [i \in DOMAIN segments |-> entries_of(segments[i].cells)]
    IN  [ok |-> \A i \in DOMAIN segments : open(segments[i]) /\ parts[i].ok,
         entries |-> FlattenSeq([i \in DOMAIN segments |-> parts[i].entries])]

-----------------------------------------------------------------------------
(* What a crash leaves of a segment *)

\* The process is killed in the middle of a write: a prefix of its cells.
Torn(cells, from) == {SubSeq(cells, 1, n) : n \in from .. Len(cells)}

\* The cells from the a-th to the b-th were never written back.
Zeroed(cells, a, b) ==
    [i \in DOMAIN cells |-> IF a <= i /\ i <= b THEN Zero ELSE cells[i]]

\* Power is lost: cells after the fsynced ones are there or not in any order;
\* one stretch of them was not written back, and the file may be shorter.
Damage(cells, from) ==
    Torn(cells, from) \cup
    UNION {{Zeroed(t, a, b) :
               a \in (from + 1) .. (Len(t) + 1), b \in (from + 1) .. Len(t)} :
           t \in Torn(cells, from)}

=============================================================================
