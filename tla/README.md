# A TLA+ model of flushdb

flushdb is an LSM-tree key-value store in Rust whose durable state is in object
storage.  This directory holds TLA+ modules that model its core, TLC
configurations that check them on small instances, and TLAPS proofs of the
results that matter most.  Paths below are relative to the repository's `src/`.

Run a configuration with `tlc -config X.cfg MCModule`, a proof with
`tlapm X_proofs.tla`.  `PROJECT.json` lists every run, every mapped definition
with its source lines, the mutants that show each property can fail, the
findings and the hazards.

## Inventory

| Component | State | Operations | What makes it correct |
|---|---|---|---|
| Manifest manager (`flushdb-engine/src/manifest`) | numbered manifest objects in storage; per node a cached manifest and two epochs | load_latest, update (CAS with retries), acquire epochs, prune | an acknowledged flush stays live exactly once; the current version never goes back; a commit never lowers the epoch it was checked against; superseded owners cannot commit |
| Engine: write path and recovery (`engine.rs`, `flush.rs`, `recovery.rs`) | active and frozen memtable, counters, open levels | put, delete, put_batch, freeze and flush, close, open | reads are fresh; acknowledged writes survive crashes and failing flushes |
| WAL segments (`flushdb-wal/src`: writer, reader, manager, dirty tracker) | segments with start numbers, dirty generations | append, rotate, record_write, cleanup, replay | a segment is deleted only when nothing needs it; replay returns what is not flushed, and a torn tail is neither corruption nor data |
| WAL group commit (`group_commit.rs`) | channel, batch, log, sync state | submit, commit loop, timer, shutdown | Ok means durable in SYNC mode; everybody is answered; order is kept |
| Compaction (`compaction/`, `Engine::compact`, `rebuild_levels`) | tables by level, files, open handles | triggers, merge, move, commit, delete, rebuild | reads see the newest version; levels are disjoint; live tables have files; stalls end |
| Block cache and fetchers (`cache/`) | blocks by key | fetch, coalesced fetch, insert, evict | a cached block is the block of the table that is read, as it was written |
| Version generator (`flushdb-server/src/version_generator.rs`) | one packed 64 bit word | next_version from any thread | unique, and ordered as the calls are |
| Composite keys (`flushdb-types/src/composite_key.rs`) | none | encode, decode, bounds of a record | byte order is the order of records and items; a record's bounds hold its items and no others |
| SSTable format (`sstable/`) | blocks, index, filters, footer | write, get, scan, iterate | readers return the newest version of a key and exactly what was written in a range, wherever blocks are cut |
| Read path, merge iterator, pagination (`read_path.rs`, `merge_iterator.rs`, `handlers/read.rs`) | position of a scan, read budget | get, multi_get, range_read, scan_range | merged newest-first view; pages neither repeat nor lose an item |
| Range tombstones (`range_tombstone.rs`, `memtable.rs`) | an index per memtable | delete_range, covers | covered versions are hidden from point reads and scans |
| Idempotency tokens (`memtable.rs`, `sstable/dedup_block.rs`) | token sets per memtable | check_dedup | a retry is applied once |
| Partitions, namespaces, router, server (`flushdb-server/src`) | partition states, the map of namespaces, maintenance task | create, delete, update, freeze, drain, stop, route, run_maintenance, shutdown | one writer per directory; acknowledged writes survive stops; routing is stable; shutdown ends |
| Storage backends | objects | put, conditional_put, get, list, delete | create-if-absent is atomic |
| Configuration, metrics, protocol, demo | none that concurrency touches | parse, convert | round trips |

How they interact: a request reaches a partition, whose `RwLock` admits one
writer to the engine at a time.  The engine hands WAL entries to the commit
loop, a task of its own, through a bounded channel and awaits a oneshot answer;
then it inserts into the memtable and, in the same call, may flush, update the
manifest, clean up WAL segments and compact.  Nodes share nothing but object
storage, where `conditional_put` on the next manifest id is the only
coordination.  A request future can be dropped at any `await`; a storage call
can fail with its effect done or not; the process can stop anywhere.

The hard behaviours are therefore: CAS races and lost answers between nodes;
takeover while the old owner is in the middle of an update; the order of
popping, uploading, committing, cleaning up and reopening within a flush; three
counters that number the same writes and are recovered from different sources;
a batch that is spread over two memtable generations; tasks derived from a
manifest that has changed since; files deleted while handles are open; a timer
that competes with submissions; writes and flushes between two pages of a scan;
a request that has resolved its partition and waits while the namespace is
deleted and created again; a maintenance flush that a shutdown aborts.

## Modules

### Manifest, AtomicManifest, MCManifest, Manifest_proofs

`store` maps manifest ids to versions; every node has `current`, `wEpoch`,
`cEpoch` and the locals of the operation in progress (`pc`, `op`, `upd`,
`attempt`, `target`, `doomed`).  Each storage call is a step of its own:
`ListLatest`, `PutInitial`, `GetLatest` are `load_latest`; `BeginFlush` and
`BeginCompact` enter `update()` with the update the flush pipeline or the
compaction executor builds; `PutOk`, `PutPreconditionFailed` and `PutError` are
the three outcomes of `conditional_put`, the last with or without the object
having been created; `AfterRefresh` is what follows a refresh in each of the
three callers; `PruneList` and `PruneDelete` are `prune_old_manifests`, which no
code in the server calls yet; `Crash` starts a node again from
`ManifestManager::new`.  The contents of a table are the set of flushes merged
into it, which is all that `AckedFlushesLive` needs.  The size trigger for
snapshots is left out: it only makes more versions snapshots.  `PruneList` takes
the listing and the reads of the snapshot flags in one step: a manifest that
another pruner deletes in between is skipped by the code, which then dooms fewer
manifests than this step, as it does when an error ends the deletion early.

`AtomicManifest` is the promise: one set of tables, one last flushed sequence
and two epochs that change atomically.  `ImplementsAtomicManifest` maps the
latest version to it.

| Run | Instance | Shows |
|---|---|---|
| manifest | 2 nodes, 2 attempts, a snapshot at every version, sequences 1..2, three workloads: commits that race and lose their answers (6 operations), pruners that race with commits (6), loads, both epochs and crashes (5) | `TypeOK`, `AckedFlushesLive`, `ImplementsAtomicManifest`, `FlushKeepsEpoch`, `TwoSnapshotsRetained`, `LatestNeverRegresses` |
| manifest_fencing (violation) | 2 nodes that acquire an epoch, flush and compact, 5 operations | `FencedFlush` fails: a superseded node's compaction sets the writer epoch back, and then its flushes pass |

A behaviour has one of the sets of operations in `Workloads`, chosen in `Init`.
All three contain `compact`, since the engine compacts after a flush.  What the
epoch check does guarantee beside that is `FlushKeepsEpoch`: a version with a
new flush never has a lower writer epoch than the version before it.
Two nodes are enough for every race of the protocol, which is between one node
that commits and one that is behind; two attempts give a first try, a retry and
the exhausted case.

### Engine, MCEngine, Engine_proofs

One partition's write path.  A write is `Submit` (put, delete, or put_batch with
one item or more, as every PutItems request is), then `Commit` for each of its
entries, a step of the commit loop, which takes them from `queue`, numbers and
appends them and may rotate the segment after the last one of a submission.
`RecordWrite` is the dirty tracker, which charges the segment that is current by
then; `Durable` the notification; then comes one `Insert` per entry and possibly
`Flush` after any of them.  `FlushFails` and `Cancel` are errors and dropped
futures: a request may go away before, while or after its entries are committed,
and the commit loop goes on with them while the next write is under way.
`Crash` leaves any prefix of what was being written, `Open` is `recover` and
`WalWriter::open`.  The log is a set of entries, each with its number and its
segment; the order of the file is the order of the writes.  Sizes are abstracted:
any write may fill the memtable or the segment.  A failing commit loop is the
subject of GroupCommit and does not occur here.

Two history variables record what the code is known not to get right, so that
the properties can be stated for everything else.  `numbering` is `"inStep"`
while the engine's, the log's and the memtable's counters agree, `"apart"` once a
dropped request or a recovery has moved one of them, and `"broken"` once a batch
has entered a memtable below its counter, where it may tie with an older version,
or a recovery has not brought back an acknowledged write.  `misfiled` holds the
writes whose log entry is not charged for the memtable they go to: the rest of a
batch that a flush cut in two, and what is in a segment without a charge when a
flush fails.

| Run | Instance | Shows |
|---|---|---|
| engine | `AllScenarios`, fair | `FreshReads`, `AckedSurviveCrash`, `AckedRetained`: the last copy of a write is never deleted, `OperationsEnd` |
| engine_renumbering (violation) | rotation, 2 crashes | `ZeroDataLoss` fails: new writes are numbered below last_flushed_sequence |

`Scenarios` is the set of workloads a behaviour may have, one of which is chosen
in `Init`; `MCEngine` defines them, each with at most three writes to two keys.
`Restarts`: single writes, one segment per lifetime, two crashes, dropped
requests.  `SingleFaults`: single writes with rotation, failing flushes and
dropped requests.  `Batches`: single writes and batches of one and two, rotation
and dropped requests.  `BatchRestarts`: the same with a crash instead of dropped
requests.  `Everything`: two writes, batches, rotation, failing flushes, dropped
requests and a crash.  Three writes are enough for one to be flushed, another to
be replayed and renumbered and a third to supersede or to tie with it, and for
a batch to be cut by a flush while a dropped request's entries are still queued.
`FreshReads` and `AckedSurviveCrash` exclude failing flushes, whose memtable is
dropped; `FreshReads` stops at `"broken"`, `AckedSurviveCrash` at `"apart"` except
for single writes with one segment per lifetime; the reasons are under Findings.

### GroupCommit, WalSegment, MCGroupCommit, GroupCommit_proofs

The channel, the commit loop and its two modes.  `Recv`, `Collect`, `Write`,
`Sync`, `Notify` are the loop's phases, `WriteFails`, `SyncFails`,
`TimerSyncFails`, `DrainFails` its error exits, `Die` what dropping the receiver
does to queued requests.  A failing append may leave a prefix in the log.
`Tick` is the timer, which fires only when no submission arrives.  `mode` is
chosen once, at the start.

`WalSegment` is the segment as recovery finds it: an entry is three cells,
length, body and checksum, and `next_entry` is the CRC scan with its distinction
between a torn tail and corruption.  `Kill` leaves a prefix of the cells being
written, or a new segment without its header; `PowerLoss` also leaves zeros in
place of a stretch that was not fsynced.  `Crashed` replays what is left into
`recovered`.

| Run | Instance | Shows |
|---|---|---|
| group_commit | both modes, 4 requests of 0 to 2 entries, channel of 2, window of 3, failures, kills and power losses at any step, fair | `AckedAreSynced` (SYNC), `LogInSubmissionOrder`, `NoAckAfterFailure`, `RecoversAcked`, `EveryoneAnswered`, `EventuallySynced` |

### Compaction, MCCompaction, Compaction_proofs

Levels 0..3 of one partition.  `live` is the manifest's tables, `files` the
objects by level-encoded path, `handles` what the engine has open.  A round is
`CheckTriggers`, which derives all tasks, then per task `CopyTrivial` or
`Merge`, `Commit`, `DeleteSource` for a move, and `Rebuild`.  `Fail` ends the
round at any of these steps.  Tables have one block; sizes are counted in
entries; L1 and L2 have one limit.  A merge reads through the block cache.
`torn` remembers that a round stopped after its commit and before the end of
`rebuild_levels`: until the next completed round or restart the open levels need
not match the manifest, and `ReadsNewest` and `HandlesReadable` say nothing;
that they hold again afterwards is what they claim.  `mixed` remembers that a
merge was given the cached block of another table, which happens only where
outputs are fragmented and blocks are cached; the theorems are about every
deployment up to that moment.

| Run | Instance | Shows |
|---|---|---|
| compaction | 2 keys, 4 levels, fragmented output or a block cache, a failure at any step, a restart, fair | `ReadsNewest` (with dropped tombstones and stale tasks), `HandlesReadable`, `LevelsDisjoint`, `FilesExist`, `StallEnds` |
| compaction_fragments (violation) | fragments and a block cache | `ReadsNewest` fails: fragments of different runs share cache keys |

An L0 trigger of 0 and a size limit of 1 make every flush compact and every
batch of two overflow L1, so that within the bound tables are moved and merged
into L3, tombstones are dropped there above an older version, a round holds a
stale task, and a failed round leaves two tables in L0, which stops writers.

### VersionGenerator, MCVersionGenerator, VersionGenerator_proofs

The word is a pair of a time and the next sequence.  Clock read, load,
compare-exchange and spin are steps of their own; the clock may stand still,
jump and be set back.  `SeqMax` stands for 65535.  The run `versions` has three
threads, four calls, a sequence field of 0..2 and fairness: `NeverReissued`,
`RealTimeOrder`, `WordInv` and `CallsReturn`.

### CompositeKey, SSTable, MCSSTable, SSTable_proofs

`CompositeKey` has keys as strings of bytes, with the separator and the prefix
of range tombstones.  `SSTable` writes one table entry by entry (`AddEntry`,
which cuts a block when it is full, `Finish`) and reads it as both readers do:
`reader_get` and `reader_scan` (`SSTableReader`), `handle_get` and `scan`
(`SSTableHandle`, through the cache), `IterateAll` (`SstableIterator`).  A file is a
sequence of cells, one per encoded entry and one per checksum, and offsets
count cells; what is modelled of an encoded entry is the elision of the record
id, of which the decoder has to find the right one.  The answer of a scan is a
function from the places of its entries, block and number, to the entries, and
`Lists` says that in the order of the places these are the expected ones.
`FetchBlocks` is the coalescing fetcher, and `Damage` destroys a cell of the
stored file.

| Run | Instance | Shows |
|---|---|---|
| sstable | 2 records, one a prefix of the other, items 0x00 and 0xFF, 2 versions, up to 4 entries, block targets of one entry, of two and of all, 2 coalesced fetches, damage | `GetFindsKey`, `ScanExact`, `RecordScan`, `FetchedAsWritten` |
| sstable_straddling (violation) | blocks of one entry, two entries | `GetNewest` fails: of two versions of a key in two blocks the read finds the older one |

Four entries are enough for every place of a block boundary relative to a
change of key and of record.  The hash of the Bloom filter is chosen so that
the two records' bits coincide.  `GetFindsKey` is what point reads do give: the
newest version of a key whose versions lie in one block, some version where they
straddle blocks.  Scans that start at a straddling key are left out of `ScanExact`
and `RecordScan` for the same reason.  A scan without an end is not modelled: the
read path, its only caller, always gives one.

### ReadPath, MCReadPath, ReadPath_proofs

One record of a partition as its clients see it.  A read, a write or a page
holds the partition's lock and is one step; a scan (`StartScan`, `ScanPage`)
and a `DeleteItems` request (`StartDelete`, `DeleteNext`, `DeleteError`) are
several.  `store` is what the store should hold by now; `outcome` collects what
was wrong with a page.  Any write may be followed by its flush, and `Maintenance`
flushes by age.  `Get` fills the cache that its budget depends on.
Of the blocks of a table, `split` keeps the versions that a block boundary has
parted from older ones of their item: a flush may part any (`Parted`), and
`handle_get` and `handle_scan` do not see them when they search for that item, as
the search goes to the block behind.

| Run | Instance | Shows |
|---|---|---|
| read_path | 3 items, page size 1, budget 1, 3 writes, 2 tables, one token; a workload of scans and one of point reads with retries; fair | `PointReadsFresh`, `ScanSound`, `ScanComplete`, `ScanEnds` |

With pages of one entry every write can fall between any two items of a scan;
three writes give an item a version in a table, one in another table and one in
the memtable.  The properties leave out items under a range deletion that has
been flushed, items whose put was retried after its token had been flushed
(`Sure`), and an item whose newest version is parted from the block that is
searched for it (`Buried`): see Findings.  A scan is concerned by the last only
where it starts.

### Namespaces, MCNamespaces, Namespaces_proofs

The server process over restarts.  `namespaces` is the manager's map, `insts`
every `Partition` the process has opened, `wal` and `tables` what is durable per
partition directory.  A request is `Resolve`, which clones the partition's
handle, and later `Write` or `Answer` under its lock; administrative calls take
a step per await (`OpenPartition`, `DeleteStops`), and freezing and draining reach
only partitions that are in the map; a maintenance flush is
suspended between `MaintFlush` and `MaintFlushed`, where it can fail or be
aborted.  `Shutdown`, `Drained`, `MaintAborted`, `StopNext` are the graceful
shutdown, `Restart` a new process after it, or after a kill.  Opening a partition
replays an arbitrary part of its log: which part, and what the numbering makes
of it, is the subject of Engine.  `skipped` remembers the writes that were left
in the log so, `lost` those whose memtable a failed or aborted flush dropped, and
`ServesAcked` and `CleanStop` are about all others.

| Run | Instance | Shows |
|---|---|---|
| namespaces | three scenarios: a namespace created again under two clients; maintenance, shutdown, a fault and a restart; frozen and drained partitions with a fault; fair | `OneWriter`, `AckedDurable`, `ServesAcked`, `CleanStop`, `RequestsEnd`, `ShutdownEnds` |

Two partitions and four opens per process give one re-creation with both
partitions; two clients give one that writes while the other still holds the
handle of the old partition.  One administrative call is made at a time, and
every namespace has a storage prefix of its own, as by default.

## Fairness

Manifest and SSTable have none.  The engine and the commit loop are tokio
tasks that a runtime keeps polling, and storage calls return, so each has weak
fairness on the disjunction of the steps it takes by itself, never on requests,
failures or crashes (`Engine!Progress`, `GroupCommit!LoopStep`).  Compaction has
it because `NamespaceManager::run_maintenance` is called by a periodic task.
The version generator needs weak fairness of every thread and of a clock that
goes on.  `ReadPath!ScanPage` is weakly fair because the task behind a stream
loops over the pages by itself.  In Namespaces the maintenance task and the
process are weakly fair; requests and administrative calls are strongly fair,
since they wait for a partition lock that is free again and again and tokio's
`RwLock` hands it on in the order of arrival.  Faults, aborted clients,
shutdown requests and restarts are never fair.

## Proofs

Every theorem is about all values of the constants: any set of nodes, threads,
clients, keys or names, any bound, any trace of steps.  The invariants the
proofs rest on are defined at the end of the component's module, so that TLC can
evaluate them as well.

| Module | Theorem | States | Under |
|---|---|---|---|
| Manifest_proofs | `TypeCorrect` | `TypeOK` | |
| | `VersionsMonotone` | `LatestNeverRegresses` | |
| | `SnapshotsRetained` | `TwoSnapshotsRetained` | |
| | `FlushesKeepEpoch` | `FlushKeepsEpoch` | |
| | `AckedNeverLost` | `AckedFlushesLive` | |
| | `AtomicUpdates` | `ImplementsAtomicManifest` | |
| Engine_proofs | `AckedWritesAreRetained` | `AckedRetained` | |
| | `ReadsAreFresh` | `FreshReads` | |
| | `AckedWritesSurvive` | `AckedSurviveCrash` | |
| VersionGenerator_proofs | `WordInvariant`, `VersionsUnique`, `VersionsOrdered` | `WordInv`, `NeverReissued`, `RealTimeOrder` | |
| GroupCommit_proofs | `AcksAreDurable`, `LogOrdered`, `AcksAreFirst` | `AckedAreSynced`, `LogInSubmissionOrder`, `NoAckAfterFailure` | |
| | `CrashesRecover` | `RecoversAcked` | |
| Compaction_proofs | `FilesAlwaysExist`, `HandlesAlwaysReadable` | `FilesExist`, `HandlesReadable` | |
| | `LevelsStayDisjoint`, `ReadsAlwaysNewest` | `LevelsDisjoint`, `ReadsNewest` | `~mixed`, and for a read `BlocksOwn` |
| SSTable_proofs | `FetchesReturnWhatWasWritten` | `FetchedAsWritten` | |
| | `PointReadsFindKeys` | `GetFindsKey` | |
| | `ScansAreExact`, `RecordScansAreExact` | `ScanExact`, `RecordScan` | |
| ReadPath_proofs | `PointReadsAlwaysFresh`, `ScansSound`, `ScansComplete` | `PointReadsFresh`, `ScanSound`, `ScanComplete` | |
| Namespaces_proofs | `OneWriterPerDirectory`, `AckedStayDurable`, `AckedAlwaysServed`, `ShutdownKeepsAcked` | `OneWriter`, `AckedDurable`, `ServesAcked`, `CleanStop` | |

The conditions of the last column are not about constants but about the state:
until a merge has been given the cached block of another table (`~mixed`), and
while the blocks a read is given are the tables' own (`BlocksOwn`), every
deployment keeps its levels disjoint and its reads correct.  The properties
themselves say which states they leave out (`"prune"` in `AckedFlushesLive`,
`numbering` and `misfiled` in the engine's, `torn` in the compaction's, `Buried`
and `Sure` in the read path's, `lost` and `skipped` in the namespaces'), and the
Findings say what the code does there.  All other assumptions are the `ASSUME`s
of the modules, which TLC evaluates in every run; the ones the proofs add to the
obvious types are that the sets of keys and of names are finite.

The arguments:

* **Manifest.**  With pruning the ids in the store may have gaps, and a slow node
  may even create an old one again.  What remains true is `LatestKnown`: no node
  has cached an id beyond the latest, and whoever has cached the latest id has
  cached the latest version.  It is inductive together with `TwoAboveDoomed`,
  that everything any pruner still has to delete is older than two stored
  snapshots, and so is never the latest; `TwoAboveDoomed` is also why
  concurrent pruners, each with a listing of its own, leave two snapshots.  A put
  under an id above the latest therefore extends the history at its end.
  Without pruning the history has no gaps and caches are parts of it
  (`HistoryInv`).  `FlushKeepsEpoch` needs no history of epochs: a put that is
  pending was checked against the version it was computed from (`UpdateAsBuilt`),
  and when it becomes the latest version, that is the one it follows.
* **Refinement.**  `UpdateAsBuilt` says what a pending update looks like and
  `PendingAreNew` that the ids it adds are new to every version, stored or cached,
  and to every other pending update.  This
  is so because `update()` tries again only after a failed precondition, when
  its put has certainly had no effect; after any other error, where the object may
  have been created, it gives up.  A put that creates its object, reported or
  not, is then one step of `AtomicManifest`, and every other step is a stutter,
  also with pruning: an object that a slow node creates under a freed id is never
  the latest one.  `AckedFlushesLive` needs more, that tables share no flush and
  no acknowledged one is missing (`ContentsInv`), and that is so without pruning.
* **Engine.**  `WriteInv` needs no assumption about faults and follows a write
  from the queue to the log, to memory and to a table: an acknowledged one is in a
  table, or in memory and in the log, or in a segment that no flush to come can
  make clean, because it has a charge of a generation that was dropped, or no
  charge and is not current any more (`Uncleanable`).  The last case is why
  `record_write` may charge the wrong segment without harm: the entry survives
  since the segment it is really in is never cleaned.  `FreshInv`: a table's
  numbers are above those of the tables before it and below those in memory, for
  as long as nothing enters a memtable below its counter.  `InStepInv` is about
  the time before the counters part: pending write, queue, log and memory agree
  on every number (`CountersInv`), a later number is a later write
  (`StepOrderInv`), hence whatever is acknowledged and not in a table is above
  last_flushed_sequence in the log (`Recoverable`).  `PlainInv` is about the
  scenarios without batches and rotation, over any number of crashes: nothing is
  ever deleted from the log, and a memtable is at most one number ahead of it.
* **Version generator.**  `WordInv`: the word is above every issued version, the
  versions a call must exceed are among the issued ones, and a thread ready to
  exchange has room in the sequence field; an exchange always raises the word.
* **Group commit.**  `LoopInv` divides the requests in submission order into an
  acknowledged first part, the notifiers and the channel (`Waiting`), and says
  where the log and the window being collected end in that order (`LogInv`).  The
  three properties are not inductive without it: an acknowledgement is given
  steps after the entries were appended, in a window that others have joined.
  `CrashInv` adds the segments: every segment but the last is fsynced and the
  segments' entries are the log.  `next_entry` is a recursive function, which
  is unfolded by least counterexample: up to the first damaged cell it returns
  the entries that were written, and damage is a torn tail because nothing
  whole follows it in the last segment.  What is replayed is thus a prefix of
  the log, and it reaches beyond what was fsynced.
* **Compaction.**  `StorageInv`: the tasks that wait in a round go down the
  levels, hence remain as `check_triggers` would derive them until their turn
  (`TasksInv`), unless their inputs are gone; and paths are not shared by two live
  tables (`FilesInv`), hence a move deletes no file that is still named.
  `ContentsInv` adds the contents: versions get older from level to level, the
  newest version of a key is stored, or was a delete that was dropped at the
  bottom with all older versions, and what a merge has read are the entries of
  its inputs.  It is inductive until a merge is given another table's block,
  whatever the deployment.
* **SSTable.**  `LayoutInv`: the blocks lie one after the other as the index says,
  and each is the encoding of its own entries (`Block`), in the file but for one
  damaged cell.  A block whose cells are whole decodes to these entries, as the
  last record id before an entry is its own; one with a damaged cell, wherever
  it is, is an error.  A request that joins neighbours covers their blocks
  exactly, so that what is cut out of it is the block read alone.  `ContentInv`:
  the entries are strictly ordered, and filters and footer are about all of them.
  The keys of the index are then ordered as well, the search finds the last block
  that begins at or before a key, and every version of a key that does not
  straddle blocks, and every hit of a scan, lies where the readers look.  The
  order of byte strings and the bounds of a record are lemmas of their own.
* **Read path.**  `StoreInv` relates the expected contents to the newest stored
  version of an item and to the range tombstones of the memtable.  A search for
  an item misses that version only if it is buried, and so does the first page of
  a scan, at its start; a later page starts at an item that has been sent.  A page
  is then exact for the moment it is read, and `ScanInv` carries over to the next
  page that everything up to the resume point has been sent.
* **Namespaces.**  `ControlInv`: partition k of a namespace is the one of
  directory k, a request that holds a partition which has left the map finds it
  stopped, and the queues of deletion, maintenance and shutdown name only
  registered partitions, or stopped, empty ones.  `DataInv`: what an open
  engine of a directory has is what was acknowledged, but for lost and skipped
  writes; what is in the log alone is in its memtable, so that a flush does not
  lose it.

Every invariant and every action property a passing run checks is a theorem,
`LevelsDisjoint` and `ReadsNewest` under the conditions above.
Only model-checked are all liveness properties, as the prover handles neither
fairness nor `ENABLED`, and the four violation runs.  TLC has also evaluated the
inductive invariants of the engine in all its scenarios.

## Findings

Each violation run is a disagreement between the code and a document or a
comment, quoted in `PROJECT.json`: a superseded node's compaction is committed and
sets the writer epoch back, against the fencing that `docs/architecture.md:140`
describes (`manifest_fencing`); the WAL numbers new writes below the flushed
sequence after a restart and recovery skips them (`engine_renumbering`);
fragments of different runs share cache keys (`compaction_fragments`); a point
read misses the newest version of a key whose versions lie in two blocks
(`sstable_straddling`).

The other limits of the passing runs are where the code does not have the
property.  Each is shown by widening a run or dropping a precondition, with TLC:

| Widened | What fails | Why |
|---|---|---|
| engine, `FreshReads` and `AckedSurviveCrash` with `flushFaults` | both | `flush_frozen` pops the memtable before the upload (`engine.rs:504`); a later flush raises last_flushed_sequence above it |
| engine, `AckedRetained` without `misfiled` | `AckedRetained` | a batch is charged to the generation of its head only, and a flush in the middle of it may delete the segment of the rest (`engine.rs:275`) |
| engine, `FreshReads` without `numbering` | `FreshReads` | after a recovery puts and batches take numbers from different counters: a batch of one item, as in a PutItems request, may tie with an older version, which is then read (`memtable.rs:149`, `engine.rs:396`); the rest of a cut batch may be gone as well |
| engine, `AckedSurviveCrash` without `numbering` | `AckedSurviveCrash` | the entry of a dropped request stays in the log above last_flushed_sequence when the acknowledged write after it has been flushed, and a recovery replays it as the newer one (`engine.rs:202`, `recovery.rs:65`) |
| manifest, `AckedFlushesLive` with `"prune"` | `AckedFlushesLive` | an update of a slow node is created under a pruned id (`manager.rs:113`) |
| compaction without the `~torn` guard | `ReadsNewest`, `HandlesReadable` | `rebuild_levels` clears the levels first (`engine.rs:587`); a move deletes its source before the rebuild (`executor.rs:108`) |
| sstable without `Straddles` | `GetFindsKey`, `ScanExact` | what `sstable_straddling` shows, also of scans that start there (`sstable_handle.rs:214`) |
| read_path without `Buried` | `PointReadsFresh`, `ScanSound`, `ScanComplete` | the same, seen by a client |
| read_path with `Sure` all items | `PointReadsFresh`, `ScanSound` | range tombstones are consulted in memtables only (`engine.rs:375`, against `dev-docs/phases/phase-3-memtable.md:158`), and so are tokens (`engine.rs:181`) |
| read_path, `get` with more tables than budget | `PointReadsFresh` | a read that has used up its budget answers with what it has found (`engine.rs:401`) |
| group_commit, a kill before the header is written | the readability in `RecoversAcked` | a segment file that was created and not yet written cannot be opened, and recovery fails (`segment_writer.rs:26`, against `dev-docs/phases/phase-2-wal.md:11`) |
| namespaces, `ServesAcked` by record over a re-creation | `ServesAcked` | a namespace created again with another partition_count routes its records elsewhere (`namespace_config.rs:305`) |

Also noticed, without a run: `apply` clones `is_snapshot`, so that every version
after the first snapshot is one, where `docs/internals/manifest.md:122` has one
in a hundred; `replay_from` keeps entries `>=` last_flushed_sequence where
`docs/architecture.md:183` says `>`; the WAL renumbers batch entries, which
`memtable.rs:148` expects to match; the BATCH_SYNC timer starts anew with every
submission, so that `docs/internals/wal.md:100` ("may lose last 10ms") holds only
without steady load; `docs/internals/compaction.md:43-44` throttles from
5 and stops from 9 L0 tables, the scheduler slows down above 8 and stops at 12;
the tombstone TTL of the documents is not applied at L3; item keys that begin
with 0xFF lie beyond the bound of a record scan and nothing refuses them;
`flush_all` flushes frozen memtables only, and no operation leaves one behind;
`run_deletion` has no caller and would find ids where it needs paths, so that
merged inputs are never deleted (`engine.rs:679`); the version word starts at zero
in every process, so that a clock set back over a restart reissues versions;
`LocalFsBackend::conditional_put` creates the file before it writes it, so that
a crash in between leaves an empty manifest with the highest id.

## Not modelled

The insides of the storage backends, of which `Manifest` uses the interface with
an atomic conditional put; byte layouts, varints and compression of WAL entries
and blocks; configuration, metrics, protocol conversions and the demo; the
continuity tracker, pinned metadata and the size estimator, which nothing but
tests feeds or reads; two administrative calls at once, which the server does
not make.  `PROJECT.json` gives the reason per component.

## Plan

1. Done: Manifest, Engine, GroupCommit, VersionGenerator, Compaction, the first
   theorems.
2. Done: WalSegment with crashes of the commit loop, CompositeKey and SSTable
   with the coalescing fetcher, ReadPath with range deletions, tokens, budgets
   and pages, Namespaces with maintenance, shutdown and restarts.
3. Done: the proofs of the manifest with pruning, of the refinement, of
   GroupCommit, Compaction, ReadPath and Namespaces.
4. Done: the proofs of Engine and of SSTable, and what is recovered after a crash
   of the commit loop.
5. Done: batches with restarts and requests dropped at any time in Engine,
   versions parted by block boundaries in ReadPath, recoveries that leave a part
   of the log in Namespaces, and the proofs for all of these.
6. A model of the file system backend under the manifest, with the file created
   before its content.
