------------------------------- MODULE ReadPath -------------------------------
(***************************************************************************)
(* What a client reads of one record: point reads, multi_get and scans     *)
(* that are read page by page while writes, deletions, range deletions and *)
(* flushes go on.                                                          *)
(*                                                                         *)
(* Requests to a partition hold its lock, so one read, one write or one    *)
(* page is one step; between two pages of a scan, and between two keys of  *)
(* a DeleteItems request, the lock is free and anything may happen.        *)
(* Flushes succeed at once here: module Engine has their failures, module  *)
(* SSTable the inside of a table and module Compaction the levels.  Of the *)
(* blocks of a table this module keeps what reads depend on: which newer   *)
(* versions of an item a block boundary has parted from the oldest ones.   *)
(* After every operation there is no frozen memtable left:                 *)
(* maybe_freeze_and_flush freezes and flushes in one go.                   *)
(***************************************************************************)
EXTENDS Integers, Sequences, FiniteSets

CONSTANTS
    Items,       \* item keys of the record, in order
    Tokens,      \* idempotency tokens of put requests
    NoToken,     \* IdempotencyToken::none()
    PageSize,    \* entries that fill a page
    Budget,      \* get_budget_per_read
    Ranges,      \* the ranges <<start, end>> scans may have
    Cuts,        \* the ranges <<start, end>> DeleteItems may have
    KeySets,     \* the sets of keys DeleteItems may have
    Clients,     \* workloads: "scans", or "retries" and point reads
    MaxWrites,   \* bound: sequence numbers
    MaxTables    \* bound: flushes

ASSUME ReadPathAssumption ==
    /\ Items \subseteq Nat \ {0}
    /\ NoToken \notin Tokens
    /\ PageSize \in Nat \ {0} /\ Budget \in Nat
    /\ Ranges \subseteq Nat \X Nat /\ Cuts \subseteq Nat \X Nat
    /\ KeySets \subseteq SUBSET Items
    /\ Clients \subseteq {"scans", "retries"}
    /\ MaxWrites \in Nat /\ MaxTables \in Nat

VARIABLES
    client,     \* the workload of this behaviour
    mem,        \* entries of the active memtable, all versions
    tables,     \* L0 handles in the order of their flushes: sets of entries
    split,      \* flushed entries in a block before the last one that begins
                \* with their item
    cached,     \* the tables whose block is in the block cache
    nextSeq,    \* Engine::next_sequence
    deleting,   \* keys a DeleteItems request still has to delete
    scan,       \* the scan in progress
    outcome,    \* history: what was wrong with the pages of scans
    store,      \* history: item -> number of the write a read should see
    token_of,   \* history: token -> the put it came with, once applied
    reapplied   \* history: items whose put was applied a second time

vars == <<client, mem, tables, split, cached, nextSeq, deleting, scan, outcome, store,
          token_of, reapplied>>

Absent == 0
Unbounded == 0   \* an empty end key

-----------------------------------------------------------------------------
(* Entries and range tombstones *)

Entry(item, type, end, token) ==
    [item |-> item, type |-> type, end |-> end, token |-> token, seq |-> nextSeq]

is_tombstone(e) == e.type # "put"

\* Mutant: the start of the range is left out.
covers_after_start(ts, item, seq) ==
    \E t \in ts :
        /\ t.type = "range"
        /\ t.item < item
        /\ t.end = Unbounded \/ item < t.end
        /\ t.seq > seq

\* RangeTombstoneIndex::covers
covers(ts, item, seq) ==
    \E t \in ts :
        /\ t.type = "range"
        /\ t.item <= item
        /\ t.end = Unbounded \/ item < t.end
        /\ t.seq > seq

\* The key of a range tombstone sorts after the keys of all items.
Versions(es, item) == {e \in es : e.type # "range" /\ e.item = item}
NewestOf(es) == {e \in es : \A f \in es : f.seq <= e.seq}

-----------------------------------------------------------------------------
(* Point reads *)

\* Memtable::get: nothing when the newest version is covered.
mem_get(item) ==
    {e \in NewestOf(Versions(mem, item)) : ~covers(mem, item, e.seq)}

\* MemtableList::range_tombstone_covers, with no frozen memtables.
range_tombstone_covers(item, seq) == covers(mem, item, seq)

\* Engine::get and ReadPath::point_read after the tables have been searched;
\* the memtable's tombstones are the only ones consulted.
Answer(item, found) ==
    LET best == IF mem_get(item) # {} THEN mem_get(item) ELSE NewestOf(found)
    IN  IF \E e \in best : ~is_tombstone(e) /\ ~range_tombstone_covers(item, e.seq)
        THEN (CHOOSE e \in best : TRUE).seq
        ELSE Absent

try_spend(spent) == spent < Budget

\* The tables a budgeted read gets to see: cached blocks are free, and the
\* first fetch the budget refuses ends the search.
Fetched(n) == {i \in 1..n : i \notin cached}
Reached ==
    {n \in 1..Len(tables) :
        \A i \in Fetched(n) : try_spend(Cardinality(Fetched(i - 1)))}

\* SSTableHandle::get looks into the last block that begins at or before the
\* item, for the newest of these.
handle_get(n, item) == Versions(tables[n], item) \ split

get(item) == Answer(item, UNION {handle_get(i, item) : i \in Reached})
point_read(item) ==
    Answer(item, UNION {handle_get(i, item) : i \in 1..Len(tables)})

multi_get(items) == [i \in items |-> point_read(i)]

\* A get leaves the blocks it fetched in the cache; a memtable hit fetches
\* none.
Get(item) ==
    /\ client = "retries"
    /\ mem_get(item) = {}
    /\ cached' = cached \cup Reached
    /\ UNCHANGED <<client, mem, tables, split, nextSeq, deleting, scan, outcome, store,
                   token_of, reapplied>>

\* The cache drops a block when it likes.
Evict(i) ==
    /\ i \in cached
    /\ cached' = cached \ {i}
    /\ UNCHANGED <<client, mem, tables, split, nextSeq, deleting, scan, outcome, store,
                   token_of, reapplied>>

-----------------------------------------------------------------------------
(* Scans *)

\* Memtable::scan_with_tombstones: the newest version of each item, without
\* those the memtable itself has deleted by range.
scan_with_tombstones(lo, hi) ==
    UNION {mem_get(i) : i \in {j \in Items : lo <= j /\ j < hi}}

\* SSTableHandle::scan begins in the last block that begins at or before lo.
handle_scan(n, lo, hi) ==
    {e \in tables[n] : /\ e.type # "range" /\ lo <= e.item /\ e.item < hi
                       /\ ~(e.item = lo /\ e \in split)}

\* The merge iterator's view of [lo, hi): per item the newest of all sources.
Merged(lo, hi) ==
    LET all == scan_with_tombstones(lo, hi) \cup
               UNION {handle_scan(n, lo, hi) : n \in 1..Len(tables)}
    IN  {e \in all : \A f \in all : f.item = e.item => f.seq <= e.seq}

\* RangeTombstoneCollector, filled from the memtables.
collector_covers(item, seq) == covers(mem, item, seq)

Visible(e) == ~is_tombstone(e) /\ ~collector_covers(e.item, e.seq)

LastItem(page) == CHOOSE i \in Items : \E e \in page :
                      e.item = i /\ \A f \in page : f.item <= i

\* Mutant: the entry the last page ended with is read again.
NotYetRead_again(es, resume) == {e \in es : e.item >= resume}
NotYetRead(es, resume) == {e \in es : e.item > resume}

\* Mutant: a full page is the last one.
NextToken_if_room(page, exhausted) ==
    IF Cardinality(page) = PageSize \/ exhausted THEN Absent ELSE LastItem(page)

\* The token is the last entry of the page, unless the iterator is exhausted.
NextToken(page, exhausted) == IF exhausted THEN Absent ELSE LastItem(page)

\* ReadPath::range_read: the next page, and where the one after it begins.
\* The loop ends when the page is full or the merge iterator is exhausted.
range_read(lo, hi, resume) ==
    LET merged == Merged(IF resume = Absent THEN lo ELSE resume, hi)
        visible == {e \in NotYetRead(merged, resume) : Visible(e)}
        page == {e \in visible :
                    Cardinality({f \in visible : f.item < e.item}) < PageSize}
        exhausted == \/ Cardinality(page) < PageSize
                     \/ \A e \in merged : e.item <= LastItem(page)
    IN  [page |-> page, next |-> NextToken(page, exhausted)]

\* always is history: what has been in the store since the scan began.
NoScan == [on |-> FALSE, lo |-> 1, hi |-> 1, resume |-> Absent, sent |-> {},
           always |-> {}]
Present(st) == {i \in Items : st[i] # Absent}

\* Items the history leaves out.  A range deletion that has been flushed
\* hides nothing any more, although dev-docs/phases/phase-3-memtable.md
\* wants tombstones of SSTables consulted too; a put whose token has been
\* flushed is applied again by a retry.
Unhidden == {i \in Items : \E n \in 1..Len(tables) : covers(tables[n], i, 0)}
Sure == Items \ (Unhidden \cup reapplied)

\* Items whose newest version a search for them does not reach: SSTable's
\* GetNewest is about them.
Buried ==
    {i \in Items : NewestOf(Versions(mem \cup UNION {tables[n] : n \in 1..Len(tables)}, i))
                      \cap split # {}}

StartScan(lo, hi) ==
    /\ client = "scans"
    /\ ~scan.on
    /\ scan' = [NoScan EXCEPT !.on = TRUE, !.lo = lo, !.hi = hi,
                              !.always = Present(store)]
    /\ UNCHANGED <<client, mem, tables, split, cached, nextSeq, deleting, outcome, store,
                   token_of, reapplied>>

Sent(page) == {e.item : e \in page}

\* Only the first page searches for an item it may send.
Beyond == IF scan.resume = Absent THEN {scan.lo} \cap Buried ELSE {}

\* An iteration of scan_range, or a client that comes back with its token.
ScanPage ==
    /\ scan.on
    /\ UNCHANGED <<client, mem, tables, split, cached, nextSeq, deleting, store,
                   token_of, reapplied>>
    /\ \E r \in {range_read(scan.lo, scan.hi, scan.resume)} :
           /\ scan' = IF r.next = Absent THEN NoScan
                      ELSE [scan EXCEPT !.sent = @ \cup Sent(r.page), !.resume = r.next,
                                        !.always = @ \ Beyond]
           /\ outcome' =
                  [again |-> outcome.again \cup
                       {e \in r.page : \E i \in scan.sent : e.item <= i},
                   stale |-> outcome.stale \cup
                       {e \in r.page : e.item \in Sure \ Beyond /\ e.seq # store[e.item]},
                   missed |-> outcome.missed \cup
                       IF r.next # Absent THEN {}
                       ELSE {i \in (scan.always \cap Sure) \ (Beyond \cup scan.sent \cup Sent(r.page)) :
                                scan.lo <= i /\ i < scan.hi}]

-----------------------------------------------------------------------------
(* Writes *)

\* A flush cuts blocks anywhere between the entries of a table, the newest
\* version of an item first: these are the versions it may part from the
\* oldest ones.
Parted(es) ==
    {h \in SUBSET es : \A e \in h :
        /\ e.type # "range"
        /\ {f \in Versions(es, e.item) : f.seq > e.seq} \subseteq h
        /\ \E f \in Versions(es, e.item) : f \notin h}

Flush(es) ==
    /\ Len(tables) < MaxTables
    /\ mem' = {}
    /\ tables' = Append(tables, es)
    /\ \E h \in Parted(es) : split' = split \cup h

\* maybe_freeze_and_flush after a write, when size or age ask for it.
Flushed(es) ==
    \/ mem' = es /\ UNCHANGED <<tables, split>>
    \/ Flush(es)

\* A write of the entry e that makes the store what newStore is.
Apply(e, newStore) ==
    /\ nextSeq <= MaxWrites
    /\ nextSeq' = nextSeq + 1
    /\ Flushed(mem \cup {e})
    /\ store' = newStore
    /\ scan' = [scan EXCEPT !.always = @ \cap Present(newStore)]
    /\ UNCHANGED <<client, cached, outcome>>

\* DedupSet::contains: a memtable knows the tokens of its entries.
Known(token) == token # NoToken /\ \E e \in mem : e.token = token

\* MemtableList::check_dedup
check_dedup(token) == ~Known(token)

\* A put of a token that was applied before is a retry of that put.
Put(item, token) ==
    /\ token # NoToken => client = "retries" /\ token_of[token] \in {Absent, item}
    /\ check_dedup(token)
    /\ LET retry == token # NoToken /\ token_of[token] # Absent
       IN  /\ Apply(Entry(item, "put", Unbounded, token),
                    IF retry THEN store ELSE [store EXCEPT ![item] = nextSeq])
           /\ reapplied' = IF retry /\ ~Known(token) THEN reapplied \cup {item} ELSE reapplied
           /\ token_of' = IF token = NoToken THEN token_of
                          ELSE [token_of EXCEPT ![token] = item]
    /\ UNCHANGED deleting

Delete(item) ==
    Apply(Entry(item, "delete", Unbounded, NoToken), [store EXCEPT ![item] = Absent])

\* DeleteItems with MatchKeys deletes key after key, in the order in which the
\* request has them; an error ends it.
StartDelete(keys) ==
    /\ deleting = {}
    /\ deleting' = keys
    /\ UNCHANGED <<client, mem, tables, split, cached, nextSeq, scan, outcome, store,
                   token_of, reapplied>>
DeleteNext ==
    /\ \E i \in deleting :
           /\ Delete(i)
           /\ deleting' = deleting \ {i}
    /\ UNCHANGED <<token_of, reapplied>>
DeleteError ==
    /\ deleting # {}
    /\ deleting' = {}
    /\ UNCHANGED <<client, mem, tables, split, cached, nextSeq, scan, outcome, store,
                   token_of, reapplied>>

DeleteRange(start, end) ==
    /\ Apply(Entry(start, "range", end, NoToken),
             [i \in Items |-> IF start <= i /\ (end = Unbounded \/ i < end)
                              THEN Absent ELSE store[i]])
    /\ UNCHANGED <<deleting, token_of, reapplied>>

\* Engine::run_maintenance, when the memtable has reached its age.
Maintenance ==
    /\ mem # {}
    /\ Flush(mem)
    /\ UNCHANGED <<client, cached, nextSeq, deleting, scan, outcome, store, token_of,
                   reapplied>>

-----------------------------------------------------------------------------
Init ==
    /\ client \in Clients
    /\ mem = {}
    /\ tables = <<>>
    /\ split = {}
    /\ cached = {}
    /\ nextSeq = 1
    /\ deleting = {}
    /\ scan = NoScan
    /\ outcome = [again |-> {}, stale |-> {}, missed |-> {}]
    /\ store = [i \in Items |-> Absent]
    /\ token_of = [t \in Tokens |-> Absent]
    /\ reapplied = {}

Next ==
    \/ \E i \in Items : Get(i)
    \/ \E i \in 1..MaxTables : Evict(i)
    \/ \E r \in Ranges : StartScan(r[1], r[2])
    \/ ScanPage
    \/ \E i \in Items, t \in Tokens \cup {NoToken} : Put(i, t)
    \/ \E keys \in KeySets : StartDelete(keys)
    \/ DeleteNext
    \/ DeleteError
    \/ \E c \in Cuts : DeleteRange(c[1], c[2])
    \/ Maintenance

Spec == Init /\ [][Next]_vars

\* A stream goes on by itself: the task that reads it loops over the pages.
FairSpec == Spec /\ WF_vars(ScanPage)

-----------------------------------------------------------------------------
(* Properties *)

\* Point reads see the last write: puts, deletions and range deletions in
\* memtable and tables together, unless the newest version is buried, and a
\* get as long as its budget allows to fetch the tables that are not cached.
PointReadsFresh ==
    \A i \in Sure \ Buried :
        /\ multi_get(Sure)[i] = store[i]
        /\ Cardinality(Fetched(Len(tables))) <= Budget => get(i) = store[i]

\* A scan sends items in order and each once, however many pages and writes
\* there were, and what a page sends is in the store when it is read, unless
\* the scan starts at an item whose newest version is buried.
ScanSound == outcome.again = {} /\ outcome.stale = {}

\* A scan that has ended has sent every item of its range that was in the
\* store from its beginning to its end, unless it started at that item and its
\* newest version was buried.
ScanComplete == outcome.missed = {}

\* Every scan ends, whatever is written meanwhile.
ScanEnds == scan.on ~> ~scan.on

-----------------------------------------------------------------------------
(* What the properties rest on *)

\* The entries that can exist before the n-th write.
EntriesBefore(n) ==
    [item : Nat, type : {"put", "delete", "range"}, end : Nat,
     token : Tokens \cup {NoToken}, seq : 1 .. n - 1]

TypeOK ==
    /\ nextSeq \in Nat \ {0}
    /\ mem \subseteq EntriesBefore(nextSeq)
    /\ tables \in Seq(SUBSET EntriesBefore(nextSeq))
    /\ deleting \subseteq Items
    /\ store \in [Items -> 0 .. nextSeq - 1]
    /\ scan \in [on : BOOLEAN, lo : Nat, hi : Nat, resume : Nat,
                 sent : SUBSET Items, always : SUBSET Items]

InTables == UNION {tables[n] : n \in 1 .. Len(tables)}
Written == mem \cup InTables

\* A sequence number is one entry, and the memtable's are the newest.
EntriesInv ==
    /\ IsFiniteSet(Written)
    /\ \A e, f \in Written : e.seq = f.seq => e = f
    /\ \A e \in InTables, f \in mem : e.seq < f.seq
    /\ \A e \in Written : e.type # "range" => e.item \in Items

\* The store is what the newest version of an item and the memtable's range
\* tombstones make of it.
StoreInv ==
    \A i \in Sure :
        \/ /\ Versions(Written, i) = {}
           /\ store[i] = Absent
        \/ \E e \in NewestOf(Versions(Written, i)) :
              store[i] = IF is_tombstone(e) \/ covers(mem, i, e.seq)
                         THEN Absent ELSE e.seq

\* Up to its resume point a scan has sent what has been there all along, and
\* it has sent nothing beyond.
ScanInv ==
    /\ scan.always \subseteq Present(store)
    /\ \A i \in scan.sent : i <= scan.resume
    /\ \A i \in scan.always \cap Sure :
          scan.lo <= i /\ i < scan.hi /\ i <= scan.resume => i \in scan.sent

ReadInv ==
    TypeOK /\ EntriesInv /\ StoreInv /\ ScanInv /\ ScanSound /\ ScanComplete

=============================================================================
