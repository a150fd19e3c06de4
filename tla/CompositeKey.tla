----------------------------- MODULE CompositeKey -----------------------------
(***************************************************************************)
(* Composite keys: [record_id][0x00][item_key] as one string of bytes that *)
(* is compared byte by byte.  A byte string is a sequence of numbers.      *)
(***************************************************************************)
EXTENDS Integers, Sequences

SEPARATOR == 0
RANGE_TOMBSTONE_PREFIX == 255

valid_record_id(record) ==
    record # <<>> /\ \A i \in 1..Len(record) : record[i] # SEPARATOR

encode(record, item) == record \o <<SEPARATOR>> \o item

\* The first separator ends the record id; items may contain the byte too.
SeparatorPos(key) ==
    CHOOSE i \in 1..Len(key) :
        key[i] = SEPARATOR /\ \A j \in 1..(i - 1) : key[j] # SEPARATOR
record_id(key) == SubSeq(key, 1, SeparatorPos(key) - 1)
item_key(key) == SubSeq(key, SeparatorPos(key) + 1, Len(key))

min_key_for_record(record) == encode(record, <<>>)
\* Mutant: the boundary is the successor of the record's prefix.
max_key_for_record_successor(record) == record \o <<SEPARATOR + 1>>
max_key_for_record(record) == encode(record, <<RANGE_TOMBSTONE_PREFIX>>)

is_range_tombstone(key) ==
    item_key(key) # <<>> /\ item_key(key)[1] = RANGE_TOMBSTONE_PREFIX

\* Byte order: a proper prefix comes first.
Below(a, b) ==
    \E i \in 1..Len(b) :
        /\ i <= Len(a) + 1
        /\ \A j \in 1..(i - 1) : a[j] = b[j]
        /\ i <= Len(a) => a[i] < b[i]
AtMost(a, b) == a = b \/ Below(a, b)

=============================================================================
