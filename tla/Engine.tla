-------------------------------- MODULE Engine --------------------------------
(***************************************************************************)
(* The write path of one partition's storage engine, and its recovery.     *)
(*                                                                         *)
(* A write goes to the write-ahead log (WAL), waits for its durability     *)
(* notification, enters the active memtable and is acknowledged.  A full   *)
(* or old memtable is frozen and flushed to an L0 SSTable; the manifest    *)
(* then records last_flushed_sequence and the WAL segments the flushed     *)
(* generation made clean are deleted.  After a crash the manifest is       *)
(* loaded and the retained WAL is replayed from last_flushed_sequence.     *)
(*                                                                         *)
(* The partition's RwLock lets one write at a time into the engine, so     *)
(* Engine's own steps are sequential; they interleave with the group       *)
(* commit loop (a task of its own), with crashes, with a dropped request   *)
(* future and with failing storage calls.                                  *)
(*                                                                         *)
(* Three counters number the same writes: Engine::next_sequence,           *)
(* WalWriter::next_sequence_number and Memtable::next_sequence_number.     *)
(* Entry sizes are abstracted: any write may be the one that fills the     *)
(* memtable or the segment.  A delete is a version like any other.         *)
(***************************************************************************)
EXTENDS Integers, Sequences, FiniteSets

CONSTANTS
    Keys,
    Scenarios     \* the workloads and faults a behaviour may be exposed to:
                  \*   maxBatch      put_batch writes 1 .. maxBatch items
                  \*   rotation      WAL segments reach segment_size_target
                  \*   flushFaults   a flush may fail, or its request go away
                  \*   cancellation  a request waiting for the WAL may go away
                  \*   maxWrites     bound: writes issued
                  \*   maxRestarts   bound: crashes

ASSUME ConstantsAssumption ==
    Scenarios \subseteq
        [maxBatch : Nat, rotation : BOOLEAN, flushFaults : BOOLEAN,
         cancellation : BOOLEAN, maxWrites : Nat, maxRestarts : Nat]

VARIABLES
    \* Local disk.
    wal,         \* entries of the retained segments: later ones have larger w
    starts,      \* retained segment -> starting_sequence_number of its header
    \* Object storage.
    ssts,        \* the manifest's L0 tables, in commit order
    lastFlushed, \* the manifest's last_flushed_sequence
    \* The group commit channel and loop, WalManager and WalWriter.
    queue,       \* entries submitted and not yet in the log: [key, w, last],
                 \* where last is set on the last one of a submission
    segment,     \* the segment appended to (current_segment_number)
    walNext,     \* WalWriter::next_sequence_number
    dirty,       \* DirtySegmentTracker: set of <<segment, generation>>
    \* Engine and MemtableList.
    nextSeq,     \* Engine::next_sequence
    memNext,     \* next_sequence_number of the active memtable
    generation,  \* Engine::generation_counter
    active,      \* entries of the active memtable
    frozen,      \* <<>> or the memtable being flushed: <<[gen, entries]>>
    handles,     \* L0 tables open for reading, in order
    \* The write in progress.
    pc,          \* where the engine is
    pending,     \* the entries of the write
    at,          \* how many of them are in a memtable
    batch,       \* is the write a put_batch?
    recorded,    \* has WalManager recorded it in the dirty tracker?
    \* History.
    acked,       \* key -> the last acknowledged write
    nextWrite,   \* writes issued so far, plus one
    numbering,   \* "inStep" while the three counters agree, "apart" once a
                 \* dropped request or a recovery has moved one of them,
                 \* "broken" once a batch entered a memtable below its counter
                 \* or a recovery did not bring an acknowledged write back
    misfiled,    \* writes whose log entry is not charged for the memtable
                 \* they go to
    restarts,
    scenario     \* the member of Scenarios this behaviour is exposed to

disk    == <<wal, starts>>
s3      == <<ssts, lastFlushed>>
walVars == <<queue, segment, walNext, dirty>>
memVars == <<nextSeq, memNext, generation, active, frozen, handles>>
opVars  == <<pc, pending, at, batch, recorded>>
ghosts  == <<acked, nextWrite, numbering, misfiled, restarts, scenario>>
vars    == <<disk, s3, walVars, memVars, opVars, ghosts>>

-----------------------------------------------------------------------------
(* Entries.  w identifies the write: later writes have larger w. *)

\* The highest element of a non-empty set of numbers, 0 for the empty set.
Highest(S) == IF S = {} THEN 0 ELSE CHOOSE x \in S : \A y \in S : y <= x

SeqsOf(entries) == {e.seq : e \in entries}
Elems(s) == {s[i] : i \in DOMAIN s}

\* SkipList::insert: the same (key, sequence) is overwritten in place.
SkipInsert(table, e) ==
    {o \in table : ~(o.key = e.key /\ o.seq = e.seq)} \cup {e}

\* The newest version of key in one table: 0 when it has none.
Newest(table, key) ==
    LET vs == {e \in table : e.key = key}
    IN  IF vs = {} THEN [seq |-> 0, w |-> 0]
        ELSE LET top == CHOOSE e \in vs : e.seq = Highest(SeqsOf(vs))
             IN  [seq |-> top.seq, w |-> top.w]

\* Engine::get below the memtables: tables are visited in order and a later
\* one replaces the best so far only with a strictly higher sequence.
BestOf(tables, key) ==
    LET found == {i \in DOMAIN tables : Newest(tables[i], key).w # 0}
        seqs  == {Newest(tables[i], key).seq : i \in found}
        first == CHOOSE i \in found :
                    /\ Newest(tables[i], key).seq = Highest(seqs)
                    /\ \A j \in found : j < i => Newest(tables[j], key).seq
                                                   # Highest(seqs)
    IN  IF found = {} THEN 0 ELSE Newest(tables[first], key).w

\* Engine::get: the active memtable, the frozen one, then L0.
Get(key) ==
    LET hit == Newest(active, key).w
        old == IF frozen = <<>> THEN 0 ELSE Newest(frozen[1].entries, key).w
    IN  IF hit # 0 THEN hit ELSE IF old # 0 THEN old ELSE BestOf(handles, key)

-----------------------------------------------------------------------------
(* Group commit *)

\* put and put_batch up to the submission: the engine's own numbering.
Submit(keys, isBatch) ==
    /\ pc = "idle"
    /\ nextWrite + Len(keys) <= scenario.maxWrites + 1
    /\ pending' = [i \in DOMAIN keys |->
                      [key |-> keys[i], w |-> nextWrite + i - 1,
                       seq |-> nextSeq + i - 1]]
    /\ queue' = queue \o [i \in DOMAIN keys |->
                             [key |-> keys[i], w |-> nextWrite + i - 1,
                              last |-> i = Len(keys)]]
    /\ at' = 0
    /\ batch' = isBatch
    /\ recorded' = FALSE
    /\ nextWrite' = nextWrite + Len(keys)
    /\ pc' = "wal"
    /\ UNCHANGED <<disk, s3, segment, walNext, dirty, memVars, acked,
                   numbering, misfiled, restarts, scenario>>

Put == \E k \in Keys : Submit(<<k>>, FALSE)

PutBatch == \E n \in 1 .. scenario.maxBatch : \E keys \in [1 .. n -> Keys] :
                Submit(keys, TRUE)

\* The commit loop, a task of its own, appends the next entry, which
\* WalWriter::append_batch numbers, whoever still waits for it.  After the
\* last one of a submission it may find the segment at its target and rotate,
\* and it publishes the segment number.
Commit ==
    /\ queue # <<>>
    /\ wal' = wal \cup {[key |-> Head(queue).key, w |-> Head(queue).w,
                        seq |-> walNext, seg |-> segment]}
    /\ walNext' = walNext + 1
    /\ \/ UNCHANGED <<segment, starts>>
       \/ /\ scenario.rotation /\ Head(queue).last
          /\ segment' = segment + 1
          /\ starts' = [s \in DOMAIN starts \cup {segment + 1} |->
                           IF s = segment + 1 THEN walNext' ELSE starts[s]]
    /\ queue' = Tail(queue)
    /\ UNCHANGED <<s3, dirty, memVars, opVars, ghosts>>

\* WalManager::append after submit returned: whatever segment is current now
\* is charged with the generation.
RecordWrite ==
    /\ pc = "wal" /\ ~recorded
    /\ dirty' = dirty \cup {<<segment, generation>>}
    /\ recorded' = TRUE
    /\ UNCHANGED <<disk, s3, queue, segment, walNext, memVars, pc, pending, at,
                   batch, ghosts>>

\* Mutant of Durable: the waiter of a batch is never notified.
Durable_singles_only ==
    /\ pc = "wal" /\ queue = <<>> /\ recorded /\ ~batch
    /\ nextSeq' = nextSeq + Len(pending)
    /\ pc' = "insert"
    /\ UNCHANGED <<disk, s3, walVars, memNext, generation, active, frozen,
                   handles, pending, at, batch, recorded, ghosts>>

\* The durability notification arrived: next_sequence advances.  The write is
\* the last one submitted, so the queue is empty.
Durable ==
    /\ pc = "wal" /\ queue = <<>> /\ recorded
    /\ nextSeq' = nextSeq + Len(pending)
    /\ pc' = "insert"
    /\ UNCHANGED <<disk, s3, walVars, memNext, generation, active, frozen,
                   handles, pending, at, batch, recorded, ghosts>>

\* The client goes away while the write waits for its notification: the future
\* is dropped, before, while or after the commit loop writes the entries,
\* which stay submitted.
Cancel ==
    /\ scenario.cancellation
    /\ pc = "wal" /\ recorded
    /\ pc' = "idle"
    /\ pending' = <<>>
    /\ numbering' = IF numbering = "inStep" THEN "apart" ELSE numbering
    /\ UNCHANGED <<disk, s3, walVars, memVars, at, batch, recorded, acked,
                   nextWrite, misfiled, restarts, scenario>>

-----------------------------------------------------------------------------
(* Memtable *)

\* The sequence number the memtable stores: Memtable::insert_prechecked takes
\* its own next number, insert_with_assigned_sequence keeps the engine's.
MemSeq(assigned) == IF batch THEN assigned ELSE memNext

\* After n entries are in: the write returns Ok, or goes on with the next.
Continue(n) ==
    IF n < Len(pending)
    THEN /\ pc' = "insert"
         /\ UNCHANGED <<acked, pending>>
    ELSE /\ pc' = "idle"
         /\ pending' = <<>>
         /\ acked' = [k \in Keys |->
               Highest({acked[k]} \cup
                       {e.w : e \in {x \in Elems(pending) : x.key = k}})]

\* One entry enters the active memtable, which may then be frozen.
Insert ==
    /\ pc = "insert"
    /\ LET e     == [pending[at + 1] EXCEPT !.seq = MemSeq(@)]
           table == SkipInsert(active, e)
       IN  /\ memNext' = IF e.seq >= memNext THEN e.seq + 1 ELSE memNext
           /\ at' = at + 1
           /\ numbering' = IF e.seq < memNext THEN "broken" ELSE numbering
           /\ \/ /\ active' = table
                 /\ UNCHANGED <<frozen, generation>>
                 /\ Continue(at + 1)
              \/ /\ frozen' = <<[gen |-> generation, entries |-> table]>>
                 /\ active' = {}
                 /\ generation' = generation + 1
                 /\ pc' = "flush"
                 /\ UNCHANGED <<acked, pending>>
    /\ UNCHANGED <<disk, s3, walVars, nextSeq, handles, batch, recorded,
                   nextWrite, misfiled, restarts, scenario>>

\* run_maintenance and close freeze whatever the active memtable holds.
Maintain ==
    /\ pc = "idle"
    /\ active # {}
    /\ frozen' = <<[gen |-> generation, entries |-> active]>>
    /\ active' = {}
    /\ generation' = generation + 1
    /\ pc' = "flush"
    /\ UNCHANGED <<disk, s3, walVars, nextSeq, memNext, handles, pending,
                   at, batch, recorded, ghosts>>

-----------------------------------------------------------------------------
(* Flush *)

\* Mutant of Cleaned: a segment is clean when one of its generations is.
Cleaned_by_any(gen) ==
    {s \in DOMAIN starts : <<s, gen>> \in dirty /\ s # segment}

\* Segments whose last dirty generation is gen, and the current one never.
\* A segment becomes deletable only at the moment it becomes clean.
Cleaned(gen) ==
    {s \in DOMAIN starts : /\ <<s, gen>> \in dirty
                           /\ \A d \in dirty : d[1] = s => d[2] = gen
                           /\ s # segment}

\* mark_generation_flushed, then cleanup_segments, which deletes the clean
\* segments in ascending order and gets as far as those below limit.
Cleanup(gen, limit) ==
    LET gone == {s \in Cleaned(gen) : s < limit}
    IN  /\ dirty' = {d \in dirty : d[2] # gen}
        /\ starts' = [s \in DOMAIN starts \ gone |-> starts[s]]
        /\ wal' = {e \in wal : e.seg \notin gone}

Frozen == frozen[1]
MaxSeqOf(table) == Highest(SeqsOf(table))

\* FlushPipeline::flush: the SSTable is written and the manifest records it.
CommitTable ==
    /\ MaxSeqOf(Frozen.entries) >= lastFlushed
    /\ ssts' = Append(ssts, Frozen.entries)
    /\ lastFlushed' = MaxSeqOf(Frozen.entries)

\* flush_frozen: SSTable, manifest, WAL cleanup and the open handle, after
\* which the write goes on.  The rest of a batch goes to the next memtable,
\* but its log entries were charged to this one.
Flush ==
    /\ pc = "flush"
    /\ CommitTable
    /\ Cleanup(Frozen.gen, segment)
    /\ handles' = Append(handles, Frozen.entries)
    /\ frozen' = <<>>
    /\ misfiled' = misfiled \cup {pending[i].w : i \in at + 1 .. Len(pending)}
    /\ Continue(at)
    /\ UNCHANGED <<queue, segment, walNext, nextSeq, memNext, generation,
                   active, at, batch, recorded, nextWrite, numbering, restarts,
                   scenario>>

\* How far a flush that does not complete may have got on disk and in object
\* storage: nothing, the manifest update, part of the cleanup or all of it.
PartOfFlush ==
    \/ UNCHANGED <<s3, disk, dirty>>
    \/ CommitTable /\ UNCHANGED <<disk, dirty>>
    \/ CommitTable /\ \E limit \in 0 .. segment : Cleanup(Frozen.gen, limit)

\* Entries in a current segment that is charged with nothing: their own charge
\* went to an earlier segment, current before an abandoned submission filled
\* it.
Uncharged == {e \in wal : e.seg = segment /\ \A d \in dirty : d[1] # segment}

\* The frozen memtable was popped before the flush: any error (or a dropped
\* request) discards it.  The manifest update may have been applied, and the
\* error may come as late as opening the new table, or compacting after that.
FlushFails ==
    /\ pc = "flush"
    /\ scenario.flushFaults \/ MaxSeqOf(Frozen.entries) < lastFlushed
    /\ \/ PartOfFlush /\ UNCHANGED handles
       \/ /\ CommitTable
          /\ Cleanup(Frozen.gen, segment)
          /\ handles' = Append(handles, Frozen.entries)
    /\ misfiled' = misfiled \cup {e.w : e \in Uncharged}
    /\ frozen' = <<>>
    /\ pending' = <<>>
    /\ pc' = "idle"
    /\ UNCHANGED <<queue, segment, walNext, nextSeq, memNext, generation,
                   active, at, batch, recorded, acked, nextWrite, numbering,
                   restarts, scenario>>

-----------------------------------------------------------------------------
(* Crash and recovery *)

\* What the interrupted step left behind: a flush any part of its effects.
\* What the commit loop has not appended is gone.
Interrupted ==
    \/ pc = "flush" /\ PartOfFlush
    \/ pc # "flush" /\ UNCHANGED <<disk, s3, dirty>>

\* The process dies; volatile state is gone.
Crash ==
    /\ pc # "down"
    /\ restarts < scenario.maxRestarts
    /\ restarts' = restarts + 1
    /\ Interrupted
    /\ pc' = "down"
    /\ active' = {}
    /\ frozen' = <<>>
    /\ handles' = <<>>
    /\ pending' = <<>>
    /\ queue' = <<>>
    /\ UNCHANGED <<segment, walNext, nextSeq, memNext, generation, at, batch,
                   recorded, acked, nextWrite, numbering, misfiled, scenario>>

\* WalReader::replay_from: a segment is skipped when its successor starts at
\* or below the minimum; the other segments' entries from the minimum on.
Skipped(s, min) ==
    \E t \in DOMAIN starts :
        /\ t > s
        /\ \A u \in DOMAIN starts : u > s => t <= u
        /\ starts[t] <= min

\* Mutant of replay_from: strictly after a minimum that is already one past
\* what was flushed.
replay_from_after(min) ==
    {e \in wal : ~Skipped(e.seg, min) /\ e.seq > min + 1}

replay_from(min) ==
    {e \in wal : ~Skipped(e.seg, min) /\ e.seq >= min}

\* Mutant of starting_seq: the number of the last flushed entry again.
starting_seq_at_flushed == lastFlushed

\* The number the first memtable after recovery starts with.
starting_seq == lastFlushed + 1

\* The place of an entry among those that are replayed, in append order.
Place(e, es) == Cardinality({x \in es : x.w <= e.w})

\* Replayed entries are renumbered by MemtableList::insert.
Replayed ==
    LET es == replay_from(lastFlushed)
    IN  {[key |-> e.key, w |-> e.w,
          seq |-> starting_seq + Place(e, es) - 1] : e \in es}

\* WalWriter::open: the highest number in the last segment that has entries.
HighestInWal ==
    LET last == Highest({e.seg : e \in wal})
    IN  Highest(SeqsOf({e \in wal : e.seg = last}))

\* What a node opened now would read for key.
GetAfterRecovery(key) ==
    LET hit == Newest(Replayed, key).w
    IN  IF hit # 0 THEN hit ELSE BestOf(ssts, key)

\* Does the replay give every entry the number it has in the log?
KeepsNumbers ==
    Replayed = {[key |-> e.key, w |-> e.w, seq |-> e.seq]
                   : e \in replay_from(lastFlushed)}

\* Engine::open.
Open ==
    /\ pc = "down"
    /\ active' = Replayed
    /\ memNext' = starting_seq + Cardinality(replay_from(lastFlushed))
    /\ nextSeq' = 1 + Highest({lastFlushed}
                               \cup SeqsOf(replay_from(lastFlushed)))
    /\ handles' = ssts
    /\ walNext' = HighestInWal + 1
    /\ segment' = Highest(DOMAIN starts) + 1
    /\ starts' = [s \in DOMAIN starts \cup {segment'} |->
                     IF s = segment' THEN walNext' ELSE starts[s]]
    /\ dirty' = {}
    /\ generation' = 0
    /\ pc' = "idle"
    /\ numbering' =
          IF \E k \in Keys : GetAfterRecovery(k) < acked[k] THEN "broken"
          ELSE IF numbering = "inStep" /\ ~(/\ KeepsNumbers
                                            /\ memNext' = nextSeq'
                                            /\ walNext' = nextSeq')
               THEN "apart" ELSE numbering
    /\ UNCHANGED <<wal, s3, queue, frozen, pending, at, batch, recorded, acked,
                   nextWrite, misfiled, restarts, scenario>>

-----------------------------------------------------------------------------
Init ==
    /\ wal = {} /\ starts = <<>>
    /\ ssts = <<>> /\ lastFlushed = 0
    /\ queue = <<>> /\ segment = 0 /\ walNext = 1 /\ dirty = {}
    /\ nextSeq = 1 /\ memNext = 1 /\ generation = 0
    /\ active = {} /\ frozen = <<>> /\ handles = <<>>
    /\ pc = "down" /\ pending = <<>> /\ at = 0 /\ batch = FALSE
    /\ recorded = FALSE
    /\ acked = [k \in Keys |-> 0]
    /\ nextWrite = 1
    /\ numbering = "inStep" /\ misfiled = {}
    /\ restarts = 0
    /\ scenario \in Scenarios

\* Steps the engine and the commit loop take by themselves.
Progress == Commit \/ RecordWrite \/ Durable \/ Insert \/ Flush \/ FlushFails
            \/ Open

Next == Put \/ PutBatch \/ Progress \/ Cancel \/ Maintain \/ Crash

Spec == Init /\ [][Next]_vars

FairSpec == Spec /\ WF_vars(Progress)

-----------------------------------------------------------------------------
(* Properties *)

\* The log holds write w of key; a table holds w or a newer version.
Logged(key, w) == \E x \in wal : x.key = key /\ x.w = w
SavedFor(key, w) ==
    \E i \in DOMAIN ssts : \E e \in ssts[i] : e.key = key /\ e.w >= w

\* A read between writes never returns a version older than the last
\* acknowledged write of its key, in whatever tables single writes, batches and
\* replayed entries of any number of lifetimes are, as long as no batch was
\* numbered below the memtable's counter, no recovery has lost an acknowledged
\* write and no flush fails (one that does drops its memtable).
FreshReads ==
    pc = "idle" /\ numbering # "broken" /\ ~scenario.flushFaults =>
        \A k \in Keys : Get(k) >= acked[k]

\* Zero data loss for acknowledged writes: in every state a crash and a
\* recovery from the manifest and the retained WAL would bring them back.
ZeroDataLoss == \A k \in Keys : GetAfterRecovery(k) >= acked[k]

\* Zero data loss where no flush fails: of single writes and batches, over
\* segments that rotate and crashes, up to and including the recovery that
\* first moves the counters apart; and of single writes, dropped ones among
\* them, over any number of crashes, when every lifetime leaves one WAL
\* segment.  The rest of a batch that a flush cut in two is left out.
AckedSurviveCrash ==
    /\ ~scenario.flushFaults
    /\ numbering = "inStep" \/ (scenario.maxBatch = 0 /\ ~scenario.rotation)
    => \A k \in Keys :
          acked[k] \notin misfiled => GetAfterRecovery(k) >= acked[k]

\* An acknowledged write is never destroyed: it, or a newer version of its key,
\* stays in a flushed table or in a WAL segment that cleanup_segments has not
\* deleted, through failing flushes, dropped requests, charges to another
\* segment and restarts.  Left out are the rest of a batch that a flush cut in
\* two, and a write in a segment that was charged with nothing when a flush
\* failed.
AckedRetained ==
    \A k \in Keys : acked[k] # 0 /\ acked[k] \notin misfiled =>
        \/ Logged(k, acked[k])
        \/ SavedFor(k, acked[k])

\* A write, flush or recovery in progress comes to an end.
OperationsEnd == pc # "idle" ~> pc = "idle"

-----------------------------------------------------------------------------
(* What the properties rest on *)

Entries == [key : Keys, w : Nat \ {0}, seq : Nat]
Tables == {t \in SUBSET Entries : IsFiniteSet(t)}

TypeOK ==
    /\ scenario \in Scenarios
    /\ wal \subseteq [key : Keys, w : Nat \ {0}, seq : Nat, seg : Nat]
    /\ IsFiniteSet(wal)
    /\ starts \in [DOMAIN starts -> Nat]
    /\ DOMAIN starts \subseteq Nat /\ IsFiniteSet(DOMAIN starts)
    /\ ssts \in Seq(Tables) /\ handles \in Seq(Tables) /\ active \in Tables
    /\ lastFlushed \in Nat /\ segment \in Nat /\ walNext \in Nat
    /\ queue \in Seq([key : Keys, w : Nat \ {0}, last : BOOLEAN])
    /\ nextSeq \in Nat /\ memNext \in Nat /\ generation \in Nat
    /\ dirty \subseteq Nat \X Nat
    /\ frozen \in Seq([gen : Nat, entries : Tables])
    /\ pc \in {"down", "idle", "wal", "insert", "flush"}
    /\ frozen = <<>> <=> pc # "flush"
    /\ pc = "flush" => Len(frozen) = 1
    /\ pending \in Seq(Entries) /\ at \in Nat
    /\ pc \in {"wal", "insert"} => at < Len(pending)
    /\ pc = "wal" => at = 0
    /\ batch \in BOOLEAN /\ recorded \in BOOLEAN
    /\ pc \in {"idle", "down"} => pending = <<>>
    /\ pc = "down" => queue = <<>>
    /\ pc \in {"insert", "flush"} /\ pending # <<>> => queue = <<>> /\ recorded
    /\ acked \in [Keys -> Nat] /\ nextWrite \in Nat \ {0} /\ restarts \in Nat
    /\ numbering \in {"inStep", "apart", "broken"} /\ misfiled \subseteq Nat

\* The entries in memory.
InMemory == active \cup (IF frozen = <<>> THEN {} ELSE Frozen.entries)

\* Entries are in retained segments, of which the current one is the last, and
\* charges are for what has been written up to now.
SegmentsInv ==
    /\ \A x \in wal : x.seg \in DOMAIN starts
    /\ pc # "down" => /\ segment \in DOMAIN starts
                      /\ \A s \in DOMAIN starts : s <= segment
                      /\ \A d \in dirty : d[2] <= generation
    /\ pc = "flush" => /\ Frozen.gen < generation
                       /\ \A d \in dirty : d[2] <= Frozen.gen

\* The log is numbered in the order of the writes and of the segments, and a
\* segment starts above the entries of the earlier ones.
LogInv ==
    /\ \A x, y \in wal : x.seq = y.seq => x = y
    /\ \A x, y \in wal : x.seq < y.seq => x.w < y.w /\ x.seg <= y.seg
    /\ \A x \in wal : \A s \in DOMAIN starts : x.seg < s => x.seq < starts[s]
    /\ pc # "down" => \A x \in wal : x.seq < walNext

\* Writes come in order: what is queued is newer than what is in the log, in
\* memory and in tables, what is not inserted yet newer than what is.
QueueInv ==
    /\ \A i, j \in DOMAIN queue : i < j => queue[i].w < queue[j].w
    /\ \A i \in DOMAIN queue :
          /\ queue[i].w < nextWrite
          /\ \A x \in wal : x.w < queue[i].w
          /\ \A e \in InMemory : e.w < queue[i].w
          /\ \A t \in DOMAIN ssts : \A e \in ssts[t] : e.w < queue[i].w
    /\ \A x \in wal : x.w < nextWrite
    /\ \A e \in InMemory : e.w < nextWrite
    /\ \A t \in DOMAIN ssts : \A e \in ssts[t] : e.w < nextWrite
    /\ \A k \in Keys : acked[k] < nextWrite
PendingInv ==
    /\ \A i, j \in DOMAIN pending : i < j => pending[i].w < pending[j].w
    /\ \A i \in DOMAIN pending :
          /\ pending[i].w < nextWrite
          /\ \A k \in Keys : acked[k] < pending[i].w
          /\ at < i => \A e \in InMemory : e.w < pending[i].w
    /\ pc = "flush" => active = {}

Charged(s) == \E d \in dirty : d[1] = s

\* No flush to come will make the segment clean: it has a charge of a
\* generation that was dropped, or none and can get none.
ToFlush == IF frozen = <<>> THEN generation ELSE Frozen.gen
Uncleanable(s) == \/ s < segment /\ ~Charged(s)
                  \/ \E d \in dirty : d[1] = s /\ d[2] < ToFlush

KeptForGood(key, w) ==
    \E x \in wal : x.key = key /\ x.w = w /\ Uncleanable(x.seg)
Covered(key, w) == \E e \in InMemory : e.key = key /\ e.w >= w

\* The write in progress is submitted or logged; what of it is inserted is in
\* memory or in a table, and of what is not the log has the entry, unless a
\* flush cut the batch.
WriteKept ==
    /\ pc = "wal" => \A i \in DOMAIN pending :
          \/ Logged(pending[i].key, pending[i].w)
          \/ \E j \in DOMAIN queue : /\ queue[j].key = pending[i].key
                                    /\ queue[j].w = pending[i].w
    /\ pc \in {"insert", "flush"} => \A i \in DOMAIN pending :
          /\ \/ pending[i].w \in misfiled
             \/ Logged(pending[i].key, pending[i].w)
             \/ SavedFor(pending[i].key, pending[i].w)
          /\ i <= at => \/ SavedFor(pending[i].key, pending[i].w)
                        \/ Covered(pending[i].key, pending[i].w)

\* What is neither in a table nor both in memory and in the log is in a segment
\* no flush deletes.
AckedKept ==
    \A k \in Keys : acked[k] # 0 /\ acked[k] \notin misfiled =>
        \/ SavedFor(k, acked[k])
        \/ Covered(k, acked[k]) /\ Logged(k, acked[k])
        \/ KeptForGood(k, acked[k])

\* Inductive for every scenario; yields AckedRetained.
WriteInv ==
    /\ TypeOK /\ SegmentsInv /\ LogInv /\ QueueInv /\ PendingInv
    /\ WriteKept /\ AckedRetained /\ (pc # "down" => AckedKept)

\* A table's numbers are above those of the tables before it.
Increasing(tables) ==
    \A i, j \in DOMAIN tables : i < j =>
        \A e \in tables[i] : \A f \in tables[j] : e.seq < f.seq
TablesInv ==
    /\ Increasing(ssts)
    /\ \A i \in DOMAIN ssts : \A e \in ssts[i] : e.seq <= lastFlushed

\* Memory's numbers are between the tables' and the memtable's next one, and
\* reads find what is acknowledged and what is inserted.
MemoryInv ==
    /\ handles = ssts
    /\ lastFlushed < memNext
    /\ \A e \in InMemory : lastFlushed < e.seq /\ e.seq < memNext
    /\ pc = "flush" => Frozen.entries # {}
    /\ \A k \in Keys : Get(k) >= acked[k]
    /\ pc \in {"insert", "flush"} => \A i \in DOMAIN pending : \A k \in Keys :
          i <= at /\ pending[i].key = k => Get(k) >= pending[i].w

\* Inductive with WriteInv; yields FreshReads.
Reliable == ~scenario.flushFaults
FreshInv == Reliable /\ numbering # "broken" =>
                TablesInv /\ (pc # "down" => MemoryInv)

\* What of key a recovery would replay.
Replays(key) == {x \in wal : x.key = key /\ x.seq >= lastFlushed}

\* While the counters are in step, pending, queue and log agree on numbers, and
\* so do memory and log.
Alike(e, x) == x.key = e.key /\ x.w = e.w /\ x.seq = e.seq
CountersInv ==
    /\ pc = "idle" => queue = <<>> /\ walNext = nextSeq /\ memNext = nextSeq
    /\ pc = "wal" =>
          /\ memNext = nextSeq /\ Len(queue) <= Len(pending)
          /\ walNext = nextSeq + (Len(pending) - Len(queue))
          /\ \A i \in DOMAIN pending : pending[i].seq = nextSeq + i - 1
          /\ \A j \in DOMAIN queue :
                LET i == Len(pending) - Len(queue) + j
                IN  queue[j].key = pending[i].key /\ queue[j].w = pending[i].w
          /\ \A i \in 1 .. Len(pending) - Len(queue) :
                \E x \in wal : Alike(pending[i], x)
    /\ pc \in {"insert", "flush"} =>
          /\ queue = <<>> /\ walNext = nextSeq
          /\ pending = <<>> => memNext = nextSeq
          /\ pending # <<>> => /\ at <= Len(pending)
                               /\ memNext + Len(pending) = nextSeq + at
          /\ \A i \in DOMAIN pending :
                /\ pending[i].seq + Len(pending) = nextSeq + i - 1
                /\ \/ pending[i].w \in misfiled
                   \/ i <= at /\ pending[i].w <= BestOf(ssts, pending[i].key)
                   \/ \E x \in wal : Alike(pending[i], x) /\ x.seq >= lastFlushed

\* A later number is a later write.
StepOrderInv ==
    /\ \A x \in wal : x.seq >= lastFlushed =>
          \A t \in DOMAIN ssts : \A e \in ssts[t] : e.w <= x.w
    /\ pc # "down" =>
          /\ \A x \in wal : \A e \in InMemory : e.seq <= x.seq => e.w <= x.w
          /\ \A x \in wal : \A i \in DOMAIN pending :
                pending[i].seq <= x.seq => pending[i].w <= x.w

\* An acknowledged write is in a table, or in the log above what is flushed.
Recoverable(k, w) == \/ w <= BestOf(ssts, k)
                     \/ \E x \in Replays(k) : x.w >= w
InStepInv == Reliable /\ numbering = "inStep" =>
    /\ StepOrderInv
    /\ pc # "down" => CountersInv
    /\ \A k \in Keys : acked[k] \notin misfiled => Recoverable(k, acked[k])

\* Without batches, rotation and failing flushes nothing is deleted from the
\* log, and a memtable is at most one number ahead of it.
Plain == scenario.maxBatch = 0 /\ ~scenario.rotation /\ Reliable
Top == Highest(SeqsOf(wal))
PlainInv == Plain =>
    /\ numbering # "broken"
    /\ \A d \in dirty : d[1] = segment
    /\ batch = FALSE /\ Len(pending) <= 1
    /\ lastFlushed <= Top + 1
    /\ pc # "down" => walNext = Top + 1 /\ memNext <= walNext + 1
    /\ pc = "wal" /\ queue # <<>> =>
          /\ queue[Len(queue)].key = pending[1].key
          /\ queue[Len(queue)].w = pending[1].w
    /\ pc \in {"wal", "insert"} /\ queue = <<>> =>
          /\ memNext <= walNext
          /\ \E x \in wal : /\ x.key = pending[1].key /\ x.w = pending[1].w
                           /\ x.seq = Top
    /\ pc = "flush" => \A i \in DOMAIN pending :
          i <= at /\ Logged(pending[i].key, pending[i].w)
    /\ \A k \in Keys : acked[k] # 0 => Logged(k, acked[k])
    /\ \A k \in Keys : Recoverable(k, acked[k])

=============================================================================
