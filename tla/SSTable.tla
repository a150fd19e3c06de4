------------------------------- MODULE SSTable -------------------------------
(***************************************************************************)
(* One SSTable: the writer that cuts sorted entries into blocks, and the   *)
(* readers that find them again through filter, footer, index and blocks,  *)
(* with the block cache and the coalescing fetcher in between.             *)
(*                                                                         *)
(* The file is a sequence of cells: a header cell, and per block one cell  *)
(* per encoded entry and one for its checksum.  Offsets and sizes are      *)
(* counted in cells.  A checksum is taken to tell any damage.              *)
(***************************************************************************)
EXTENDS CompositeKey, FiniteSets, SequencesExt

CONSTANTS
    Records,      \* record ids, as byte strings
    Items,        \* item keys, as byte strings
    Seqs,         \* sequence numbers, as ranks among the versions of a key
    NoToken,      \* IdempotencyToken::none()
    Targets,      \* the values block_size_target may have
    BitsPerKey,   \* bloom_bits_per_key
    Hash(_),      \* murmurhash3_x64_128 of a record id: a pair of words
    KeyPrefix,    \* MIN_MAX_KEY_TRUNCATION_LEN
    MaxEntries,   \* bound: entries written
    MaxFetches    \* bound: coalesced fetches

ASSUME SSTableAssumption ==
    /\ Records \subseteq Seq(0..255) /\ Items \subseteq Seq(0..255)
    /\ \A r \in Records : valid_record_id(r)
    /\ Seqs \subseteq Nat
    /\ Targets \subseteq Nat \ {0}
    /\ BitsPerKey \in Nat \ {0} /\ KeyPrefix \in Nat \ {0}
    /\ MaxEntries \in Nat /\ MaxFetches \in Nat

VARIABLES
    config,    \* [target, source]: block_size_target; a memtable or a merge
    written,   \* history: the entries given to the writer
    builder,   \* the BlockBuilder: the block being filled
    out,       \* the rest of WriteState: [data, index, records, tokens]
    pc,        \* "writing", "written" or "failed"
    file,      \* the object in storage
    cache,     \* the block cache: block offset -> entries
    fetched,   \* what the last coalesced fetch returned: block -> entries
    fetches

vars == <<config, written, builder, out, pc, file, cache, fetched, fetches>>

Keys == {encode(r, i) : r \in Records, i \in Items}
Garbage == [garbage |-> TRUE]
Error == <<Garbage>>          \* CrcMismatch or CorruptedData
NoEntry == [none |-> TRUE]

-----------------------------------------------------------------------------
(* The writer *)

EmptyBlock == [cells |-> <<>>, size |-> 0, last |-> <<>>, first |-> <<>>,
               records |-> {}, tokens |-> {}]

\* The record id is written once for consecutive entries of one record.
\* The size counts the bytes of the keys and one for the rest.
add_entry(b, e) ==
    LET rid == record_id(e.key)
        dedup == b.cells # <<>> /\ b.last = rid
        cell == [rid |-> IF dedup THEN <<>> ELSE rid,
                 item |-> item_key(e.key), seq |-> e.seq]
    IN  [cells |-> Append(b.cells, cell),
         size |-> b.size + Len(cell.rid) + Len(cell.item) + 1,
         last |-> rid,
         first |-> IF b.cells = <<>> THEN e.key ELSE b.first,
         records |-> b.records \cup {rid},
         tokens |-> b.tokens \cup ({e.token} \ {NoToken})]

is_full(b) == b.size >= config.target

\* BlockBuilder::finish appends the checksum.
finish(b) == Append(b.cells, [crc |-> b.cells])

\* IndexBlockBuilder::add
IndexEntry(b, offset) ==
    [first_key |-> b.first, offset |-> offset, size |-> Len(finish(b))]

flush_block(o, b) ==
    [data |-> o.data \o finish(b),
     index |-> Append(o.index, IndexEntry(b, Len(o.data))),
     records |-> o.records \cup b.records,
     tokens |-> o.tokens \cup b.tokens]

truncate_key(key) ==
    [i \in 1..KeyPrefix |-> IF i <= Len(key) THEN key[i] ELSE 0]

\* BloomFilterBuilder::build
NumBits(n) == LET m == Max({n * BitsPerKey, 64}) IN ((m + 7) \div 8) * 8
\* ln 2 to two decimals
NumHashes(n) == Max({((NumBits(n) \div n) * 69) \div 100, 1})
BitsOf(r, n) ==
    {(Hash(r)[1] + k * Hash(r)[2]) % NumBits(n) : k \in 0..(NumHashes(n) - 1)}
bloom(records) ==
    LET n == Cardinality(records)
    IN  [bits |-> UNION {BitsOf(r, n) : r \in records}, num_keys |-> n]

Init ==
    /\ config \in [target : Targets, source : {"memtable", "merge"}]
    /\ written = <<>>
    /\ builder = EmptyBlock
    /\ out = [data |-> <<Garbage>>, index |-> <<>>, records |-> {}, tokens |-> {}]
    /\ pc = "writing"
    /\ file = [data |-> <<>>, index |-> <<>>]
    /\ cache = <<>>
    /\ fetched = <<>>
    /\ fetches = 0

\* Sources yield keys in ascending order, the newest version first; a merge
\* keeps one version of a key.
Follows(e) ==
    written # <<>> =>
        LET l == Last(written)
        IN  \/ Below(l.key, e.key)
            \/ config.source = "memtable" /\ l.key = e.key /\ e.seq < l.seq

\* Every write of a memtable came with a token of its own; write_entries
\* passes none on.
Token(k, s) == IF config.source = "memtable" THEN <<k, s>> ELSE NoToken

\* An iteration of write and of write_entries.
AddEntry(e) ==
    /\ pc = "writing"
    /\ Len(written) < MaxEntries
    /\ Follows(e)
    /\ written' = Append(written, e)
    /\ LET b == add_entry(builder, e)
       IN  IF is_full(b)
           THEN builder' = EmptyBlock /\ out' = flush_block(out, b)
           ELSE builder' = b /\ out' = out
    /\ UNCHANGED <<config, pc, file, cache, fetched, fetches>>

\* The object as finish puts it into storage.
Finished ==
    LET o == IF builder.cells = <<>> THEN out ELSE flush_block(out, builder)
    IN  [data |-> o.data, index |-> o.index, filter |-> bloom(o.records),
         dedup |-> o.tokens,
         footer |-> [min_key |-> truncate_key(written[1].key),
                     max_key |-> truncate_key(Last(written).key)]]

Finish ==
    /\ pc = "writing"
    /\ written # <<>>
    /\ pc' = "written"
    /\ file' = Finished
    /\ builder' = EmptyBlock
    /\ UNCHANGED <<config, written, out, cache, fetched, fetches>>

\* An empty table is refused, and the storage call may fail.
FinishError ==
    /\ pc = "writing"
    /\ pc' = "failed"
    /\ UNCHANGED <<config, written, builder, out, file, cache, fetched, fetches>>

\* A cell of a stored block is damaged.
Damage(i) ==
    /\ pc = "written"
    /\ Garbage \notin {file.data[j] : j \in 2..Len(file.data)}
    /\ file' = [file EXCEPT !.data[i] = Garbage]
    /\ UNCHANGED <<config, written, builder, out, pc, cache, fetched, fetches>>

-----------------------------------------------------------------------------
(* The readers *)

get_range(offset, size) == SubSeq(file.data, offset + 1, offset + size)

\* An entry without record id has the one of the entry before it.
decode_block(bytes) ==
    LET n == Len(bytes) - 1
        cells == SubSeq(bytes, 1, n)
        RidAt(i) == cells[Max({j \in 1..i : cells[j].rid # <<>>})].rid
    IN  IF n < 0 \/ bytes[n + 1] # [crc |-> cells] \/ cells[1].rid = <<>>
        THEN Error
        ELSE [i \in 1..n |-> [key |-> encode(RidAt(i), cells[i].item),
                              seq |-> cells[i].seq]]

block_count == Len(file.index)
Stored(b) == decode_block(get_range(file.index[b].offset, file.index[b].size))

Cached(b) == file.index[b].offset \in DOMAIN cache

\* CachingBlockFetcher::fetch_block
fetch_block(b) ==
    IF Cached(b) THEN cache[file.index[b].offset] ELSE Stored(b)

maybe_contains(r) ==
    /\ file.filter.num_keys # 0
    /\ BitsOf(r, file.filter.num_keys) \subseteq file.filter.bits

check_dedup(token) == token # NoToken /\ token \in file.dedup

may_contain_key(key) ==
    /\ AtMost(file.footer.min_key, truncate_key(key))
    /\ AtMost(truncate_key(key), file.footer.max_key)

\* Mutant: the last block that starts before the key.
find_block_index_before(key) ==
    Cardinality({b \in 1..block_count : Below(file.index[b].first_key, key)})

\* The last block that starts at or before the key; 0 is the code's None.
find_block_index(key) ==
    Cardinality({b \in 1..block_count : AtMost(file.index[b].first_key, key)})

\* Where the versions of a key are.
Versions(entries, key) == {i \in 1..Len(entries) : entries[i].key = key}

\* SSTableReader::get: the first entry of the block with that key.
reader_get(key) ==
    LET b == find_block_index(key)
        found == Versions(Stored(b), key)
    IN  IF ~may_contain_key(key) \/ ~maybe_contains(record_id(key)) \/ b = 0
        THEN NoEntry
        ELSE IF Stored(b) = Error THEN Garbage
        ELSE IF found = {} THEN NoEntry ELSE Stored(b)[Min(found)]

\* SSTableHandle::get: the newest entry of the block with that key.
handle_get(key) ==
    LET b == find_block_index(key)
        found == {fetch_block(b)[i] : i \in Versions(fetch_block(b), key)}
    IN  IF ~maybe_contains(record_id(key)) \/ b = 0 THEN NoEntry
        ELSE IF fetch_block(b) = Error THEN Garbage
        ELSE IF found = {} THEN NoEntry
        ELSE CHOOSE e \in found : \A f \in found : f.seq <= e.seq

\* Mutant: the partition point itself is where the scan begins.
Scanned_from_partition_point(start, end) ==
    LET from == find_block_index(start) + 1
    IN  {b \in from..block_count :
            \A c \in (from + 1)..b : Below(file.index[c].first_key, end)}

\* SSTableHandle::scan over [start, end): the blocks from the one of start
\* up to the first later one that begins at or after end.  Its only caller,
\* the engine's read path, always gives an end.
Scanned(start, end) ==
    LET from == Max({find_block_index(start), 1})
    IN  {b \in from..block_count :
            \A c \in (from + 1)..b : Below(file.index[c].first_key, end)}
\* What blocks hold, each entry at its place <<block, number>>; an answer lists
\* its entries in the order of their places.
Places(blocks, content) == UNION {{b} \X (1..Len(content[b])) : b \in blocks}
Collected(start, end, content) ==
    LET At(p) == content[p[1]][p[2]]
        Hit(p) == AtMost(start, At(p).key) /\ Below(At(p).key, end)
        blocks == Scanned(start, end)
    IN  IF \E b \in blocks : content[b] = Error THEN Error
        ELSE [p \in {q \in Places(blocks, content) : Hit(q)} |-> At(p)]

scan(start, end) ==
    Collected(start, end, [b \in 1..block_count |-> fetch_block(b)])

\* SSTableReader::scan, past the cache.
reader_scan(start, end) ==
    Collected(start, end, [b \in 1..block_count |-> Stored(b)])

\* SstableIterator::next until the end.
IterateAll ==
    [p \in Places(1..block_count, [b \in 1..block_count |-> Stored(b)]) |->
        Stored(p[1])[p[2]]]

-----------------------------------------------------------------------------
(* CoalescingFetcher::fetch_blocks *)

is_adjacent(a, b) ==
    file.index[a].offset + file.index[a].size = file.index[b].offset

\* Mutant: every block is cut from the start of what the request returned.
Coalesced_no_local_offset(u, i) ==
    LET Joined(j, k) == \A n \in (j + 1)..k : is_adjacent(u[n - 1], u[n])
        low == Min({j \in 1..i : Joined(j, i)})
        high == Max({j \in i..Len(u) : Joined(i, j)})
        base == file.index[u[low]].offset
        raw == get_range(base, file.index[u[high]].offset
                               + file.index[u[high]].size - base)
    IN  decode_block(SubSeq(raw, 1, file.index[u[i]].size))

\* Neighbours among the uncached blocks are read with one request, and each
\* is cut out of what it returns.
Coalesced(u, i) ==
    LET Joined(j, k) == \A n \in (j + 1)..k : is_adjacent(u[n - 1], u[n])
        low == Min({j \in 1..i : Joined(j, i)})
        high == Max({j \in i..Len(u) : Joined(i, j)})
        base == file.index[u[low]].offset
        raw == get_range(base, file.index[u[high]].offset
                               + file.index[u[high]].size - base)
        local == file.index[u[i]].offset - base
    IN  decode_block(SubSeq(raw, local + 1, local + file.index[u[i]].size))

\* A set of blocks in the order of the file.
Sorted(blocks) ==
    {u \in [1..Cardinality(blocks) -> blocks] :
        \A i, j \in DOMAIN u : i < j => u[i] < u[j]}

FetchBlocks(asked) ==
    /\ pc = "written"
    /\ fetches < MaxFetches
    /\ \E u \in Sorted({b \in asked : ~Cached(b)}) :
       LET bad == {i \in 1..Len(u) : Coalesced(u, i) = Error}
           good == {i \in 1..Len(u) : \A j \in bad : i < j}
           Offset(i) == file.index[u[i]].offset
           IndexOf(o) == CHOOSE i \in good : Offset(i) = o
       IN  /\ cache' = [o \in DOMAIN cache \cup {Offset(i) : i \in good} |->
                           IF o \in DOMAIN cache THEN cache[o]
                           ELSE Coalesced(u, IndexOf(o))]
           /\ fetched' = IF bad # {} THEN <<>>
                         ELSE [b \in asked |-> cache'[file.index[b].offset]]
    /\ fetches' = fetches + 1
    /\ UNCHANGED <<config, written, builder, out, pc, file>>

Next ==
    \/ \E k \in Keys, s \in Seqs :
           AddEntry([key |-> k, seq |-> s, token |-> Token(k, s)])
    \/ Finish
    \/ FinishError
    \/ \E i \in 2..Len(file.data) : Damage(i)
    \/ \E asked \in SUBSET (1..block_count) : FetchBlocks(asked)

Spec == Init /\ [][Next]_vars

-----------------------------------------------------------------------------
(* Properties *)

Sound == pc = "written" /\ Garbage \notin {file.data[j] : j \in 2..Len(file.data)}

\* What was written, as the readers give it back.
Entry(e) == [key |-> e.key, seq |-> e.seq]
Entries == [i \in 1..Len(written) |-> Entry(written[i])]
Newest(key) ==
    LET found == Versions(Entries, key)
    IN  IF found = {} THEN NoEntry ELSE Entries[Min(found)]

\* Do the versions of the key lie in more than one block?
Straddles(key) ==
    Cardinality({b \in 1..block_count :
                    \E e \in Range(Stored(b)) : e.key = key}) > 1

\* SSTableHandle::get promises the entry with the highest sequence number of
\* the key.  The block it reads holds only the older versions of a key whose
\* versions straddle blocks.
GetNewest == Sound => \A k \in Keys : handle_get(k) = Newest(k)

\* What point reads of an undamaged table do find: the handle and the reader
\* agree, a key of the table is never denied and one it does not have is never
\* found, and the answer is the newest version unless the versions of the key
\* straddle blocks.  The token of every write is found as well.
GetFindsKey ==
    Sound =>
        /\ \A k \in Keys :
               /\ handle_get(k) = reader_get(k)
               /\ IF Straddles(k) THEN handle_get(k) \in {Entries[i] : i \in Versions(Entries, k)}
                                  ELSE handle_get(k) = Newest(k)
        /\ \A e \in Range(written) : e.token # NoToken => check_dedup(e.token)

\* The answer has the entries that were written at these positions, and no
\* others, in ascending order of their keys and the newest version first.
Precedes(d, e) == Below(d.key, e.key) \/ (d.key = e.key /\ e.seq < d.seq)
Lists(answer, positions) ==
    /\ Range(answer) = {Entries[i] : i \in positions}
    /\ \A p, q \in DOMAIN answer :
           p[1] < q[1] \/ (p[1] = q[1] /\ p[2] < q[2]) =>
               Precedes(answer[p], answer[q])
InRange(start, end) ==
    {i \in 1..Len(written) : AtMost(start, written[i].key) /\ Below(written[i].key, end)}

\* A scan returns what was written in the range, in order and nothing else,
\* however the blocks were cut, through the handle and through the reader
\* alike, unless its start has versions in two blocks; reading block after
\* block gives back every entry with its own record id.
ScanExact ==
    Sound =>
        /\ Lists(IterateAll, 1..Len(written))
        /\ \A s \in Keys, e \in Keys :
               ~Straddles(s) => /\ Lists(scan(s, e), InRange(s, e))
                                /\ reader_scan(s, e) = scan(s, e)

\* The scan of a record between its smallest and its largest key returns the
\* entries of that record alone, and none of them is a range tombstone.
RecordScan ==
    Sound => \A r \in Records :
        LET s == min_key_for_record(r)
        IN  ~Straddles(s) =>
                Lists(scan(s, max_key_for_record(r)),
                      {i \in 1..Len(written) :
                          /\ record_id(written[i].key) = r
                          /\ ~is_range_tombstone(written[i].key)})

\* Coalesced fetches return, and leave in the cache, each block's own
\* entries as they were written, or an error: never another block's, and
\* never what damage left.
FetchedAsWritten ==
    pc = "written" =>
        LET starts[b \in 1..block_count] ==
                IF b = 1 THEN 1 ELSE starts[b - 1] + file.index[b - 1].size - 1
            Own(b) == SubSeq(Entries, starts[b],
                             starts[b] + file.index[b].size - 2)
        IN  /\ \A b \in 1..block_count :
                   file.index[b].offset \in DOMAIN cache =>
                       cache[file.index[b].offset] = Own(b)
            /\ \A b \in DOMAIN fetched : fetched[b] = Own(b)

-----------------------------------------------------------------------------
(* What the properties rest on: the layout of the file. *)

Tokens == {NoToken} \cup (Keys \X Seqs)
WrittenEntries == [key : Keys, seq : Seqs, token : Tokens]
Cell == [rid : Records \cup {<<>>}, item : Items, seq : Seqs]
Bytes == Cell \cup [crc : Seq(Cell)] \cup {Garbage}
IndexEntries == [first_key : Keys, offset : Nat, size : Nat]

TypeOK ==
    /\ config \in [target : Targets, source : {"memtable", "merge"}]
    /\ written \in Seq(WrittenEntries)
    /\ pc \in {"writing", "written", "failed"}
    /\ builder.cells \in Seq(Cell)
    /\ out.data \in Seq(Bytes) /\ out.index \in Seq(IndexEntries)
    /\ {"data", "index"} \subseteq DOMAIN file
    /\ file.data \in Seq(Bytes) /\ file.index \in Seq(IndexEntries)
    /\ pc # "written" => file.index = <<>>

\* The n entries of w from the p-th on, as the cells of one block: the first
\* cell and those where the record changes hold a record id.
Record(w, p) == record_id(w[p].key)
CellOf(w, p, first) ==
    [rid |-> IF ~first /\ Record(w, p - 1) = Record(w, p)
             THEN <<>> ELSE Record(w, p),
     item |-> item_key(w[p].key), seq |-> w[p].seq]
CellsFrom(w, p, n) == [i \in 1..n |-> CellOf(w, p + i - 1, i = 1)]
Block(w, p, n) == Append(CellsFrom(w, p, n), [crc |-> CellsFrom(w, p, n)])

\* The blocks of an index lie one after the other behind the header, up to the
\* given end, and begin with the key the index says.  The header and one
\* checksum per block come before the first entry of a block.
FirstOf(index, b) == index[b].offset - b + 1
IndexInv(w, index, end) ==
    /\ \A b \in 1..Len(index) :
          /\ index[b].size >= 2
          /\ index[b].offset =
                IF b = 1 THEN 1 ELSE index[b - 1].offset + index[b - 1].size
          /\ FirstOf(index, b) \in 1..Len(w)
          /\ index[b].first_key = w[FirstOf(index, b)].key
    /\ end = IF index = <<>> THEN 1
             ELSE index[Len(index)].offset + index[Len(index)].size

BlockOf(w, index, b) == Block(w, FirstOf(index, b), index[b].size - 1)
BytesOf(data, index, b) ==
    SubSeq(data, index[b].offset + 1, index[b].offset + index[b].size)

\* While the table is written: the finished blocks, then the open one.
Laid(w, data, index) ==
    /\ IndexInv(w, index, Len(data))
    /\ \A b \in 1..Len(index) : BytesOf(data, index, b) = BlockOf(w, index, b)
Open == Len(written) - Len(builder.cells) + 1
WriterInv ==
    pc = "writing" =>
        /\ Laid(written, out.data, out.index)
        /\ Open = Len(out.data) - Len(out.index)
        /\ builder.cells = CellsFrom(written, Open, Len(builder.cells))
        /\ builder.cells # <<>> =>
              /\ builder.first = written[Open].key
              /\ builder.last = Record(written, Len(written))

\* Once it is written: every block is whole, except perhaps for one cell.
FileInv ==
    pc = "written" =>
        /\ IndexInv(written, file.index, Len(file.data))
        /\ Len(written) + 1 = Len(file.data) - block_count
        /\ \A b \in 1..block_count :
              \/ BytesOf(file.data, file.index, b) = BlockOf(written, file.index, b)
              \/ \E i \in 1..file.index[b].size :
                    BytesOf(file.data, file.index, b) =
                        [BlockOf(written, file.index, b) EXCEPT ![i] = Garbage]

\* The entries of a block.
EntriesFrom(w, p, n) == [i \in 1..n |-> Entry(w[p + i - 1])]
OwnEntries(b) ==
    EntriesFrom(written, FirstOf(file.index, b), file.index[b].size - 1)
CacheInv ==
    /\ pc # "written" => cache = <<>> /\ fetched = <<>>
    /\ pc = "written" =>
          /\ DOMAIN cache \subseteq {file.index[b].offset : b \in 1..block_count}
          /\ DOMAIN fetched \subseteq 1..block_count
          /\ \A b \in 1..block_count : Cached(b) =>
                cache[file.index[b].offset] = OwnEntries(b)
          /\ \A b \in DOMAIN fetched : fetched[b] = OwnEntries(b)

LayoutInv == TypeOK /\ WriterInv /\ FileInv /\ CacheInv

\* The entries are in order, and the filters and the footer are about all of
\* them.
InOrder(w) ==
    \A i, j \in 1..Len(w) : i < j =>
        \/ Below(w[i].key, w[j].key)
        \/ w[i].key = w[j].key /\ w[j].seq < w[i].seq
RecordsOf(w) == {Record(w, p) : p \in 1..Len(w)}
TokensOf(w) == {w[p].token : p \in 1..Len(w)} \ {NoToken}
ContentInv ==
    /\ InOrder(written)
    /\ pc = "writing" =>
          /\ out.records \cup builder.records = RecordsOf(written)
          /\ out.tokens \cup builder.tokens = TokensOf(written)
          /\ builder.cells = <<>> =>
                builder.records = {} /\ builder.tokens = {}
    /\ pc = "written" =>
          /\ written # <<>>
          /\ file = [data |-> file.data, index |-> file.index,
                     filter |-> bloom(RecordsOf(written)),
                     dedup |-> TokensOf(written),
                     footer |-> [min_key |-> truncate_key(written[1].key),
                                 max_key |-> truncate_key(Last(written).key)]]

=============================================================================
