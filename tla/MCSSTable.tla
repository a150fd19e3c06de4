------------------------------ MODULE MCSSTable ------------------------------
(* Instances of SSTable for TLC. *)
EXTENDS SSTable

\* A record id that is a prefix of the other, items that hold the separator
\* byte and the prefix of range tombstones.
MCRecords == {<<1>>, <<1, 1>>}
MCItems == {<<0>>, <<255>>}

\* The second record's bits are among the first one's in a filter of 64 bits.
MCHash(r) == IF r = <<1>> THEN <<3, 5>> ELSE <<67, 69>>

=============================================================================
