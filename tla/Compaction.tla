------------------------------ MODULE Compaction ------------------------------
(***************************************************************************)
(* Leveled compaction of one partition: flushes put tables into L0, the    *)
(* scheduler derives up to one task per level from the manifest, and the   *)
(* executor merges tables into the next level or moves them there.         *)
(*                                                                         *)
(* The engine is behind the partition's write lock, so compactions are     *)
(* sequential; what can come between two of their steps is a failing       *)
(* storage call, a request future that is dropped and a crash.  Tasks of   *)
(* one round are all derived from the manifest before the first of them,   *)
(* so a later task may name tables that an earlier one has consumed.       *)
(*                                                                         *)
(* A table holds one block.  Sizes are counted in entries.  The manifest's *)
(* own commit protocol is the subject of module Manifest.                  *)
(***************************************************************************)
EXTENDS Integers, Sequences, FiniteSets

CONSTANTS
    Keys,        \* a set of numbers: composite keys are ordered
    Bottom,      \* the deepest level: 3 in the code
    L0Trigger,   \* l0_compaction_trigger
    L0Stop,      \* l0_stop_trigger
    MaxSize,     \* l1_max_bytes, l2_max_bytes: one limit for all levels
    Configs,     \* the settings [fragSize, caching] a deployment may have
    Faults,      \* the steps of a compaction that may fail or be dropped
    MaxFaults,   \* bound: failures
    MaxWrites,   \* bound: the last sequence number a write may take
    MaxRestarts  \* bound: crashes

ASSUME ConstantsAssumption ==
    /\ Keys \subseteq Nat /\ IsFiniteSet(Keys)
    /\ Bottom \in Nat \ {0}
    /\ L0Trigger \in Nat
    /\ L0Stop \in Nat
    /\ MaxSize \in Nat
    /\ Configs \subseteq [fragSize : Nat \ {0}, caching : BOOLEAN]
    /\ Faults \subseteq {"compact", "commit", "delete", "rebuild"}
    /\ MaxFaults \in Nat /\ MaxWrites \in Nat /\ MaxRestarts \in Nat

VARIABLES
    config,    \* target_fragment_size, and has the block cache any capacity?
    live,      \* the manifest's tables
    files,     \* objects in storage, by path: <<id, fragment, level>>
    handles,   \* Engine::levels: the tables open for reading
    cache,     \* the block cache: set of [key, entries]
    mem,       \* the memtable's entries
    pc,        \* the step the engine is about to take
    tasks,     \* compaction tasks left in this round
    output,    \* tables written by the current task
    fresh,     \* the next ULID, creation time and sequence number
    truth,     \* history: key -> the newest write
    torn,      \* history: did a round stop after its commit, with no rebuild
               \* or restart since?
    mixed,     \* history: has a merge been given another table's cached block?
    faults, restarts

vars == <<config, live, files, handles, cache, mem, pc, tasks, output, fresh,
          truth, torn, mixed, faults, restarts>>

-----------------------------------------------------------------------------
(* Tables *)

\* frag is 0 for a table with a path of its own, else the fragment's number
\* in the run id.
Path(t) == <<t.id, t.frag, t.level>>

KeysOf(t) == {e.key : e \in t.entries}
MinKey(t) == CHOOSE k \in KeysOf(t) : \A j \in KeysOf(t) : k <= j
MaxKey(t) == CHOOSE k \in KeysOf(t) : \A j \in KeysOf(t) : j <= k

overlaps_range(t, start, end) == ~(MaxKey(t) < start \/ MinKey(t) > end)

AtLevel(tables, l) == {t \in tables : t.level = l}

level_size(l) ==
    Cardinality(UNION {{<<Path(t), e>> : e \in t.entries}
                          : t \in AtLevel(live, l)})

\* The newest entry of every key: what MergeIterator::next_deduped yields.
Merged(entries) ==
    {e \in entries : \A o \in entries : o.key = e.key => o.seq <= e.seq}

-----------------------------------------------------------------------------
(* Block cache *)

\* sst_id_from_path: the last component of the path.
CacheKey(t) == IF t.frag = 0 THEN <<t.id, 0>> ELSE <<0, t.frag>>

\* fetch_block: the cached block if there is one under the key.
Contents(t) ==
    IF \E c \in cache : c.key = CacheKey(t)
    THEN (CHOOSE c \in cache : c.key = CacheKey(t)).entries
    ELSE t.entries

\* The cache after the tables in ts are read, those in first before the
\* others and each group by key: the first one read under a key stays.
CachedAfter(first, ts) ==
    LET keys == {CacheKey(t) : t \in ts} \ {c.key : c \in cache}
        Group(k) == LET one == {t \in first : CacheKey(t) = k}
                    IN  IF one # {} THEN one ELSE {t \in ts : CacheKey(t) = k}
        Reader(k) == CHOOSE t \in Group(k) :
                        \A u \in Group(k) : MinKey(t) <= MinKey(u)
    IN  IF config.caching
        THEN cache \cup
             {[key |-> k, entries |-> Reader(k).entries] : k \in keys}
        ELSE cache

-----------------------------------------------------------------------------
(* CompactionScheduler *)

\* Mutant: only the tables that overlap the lower end of the inputs.
Overlapping_low_end(l, inputs) ==
    {t \in AtLevel(live, l) :
        \E u \in inputs : overlaps_range(t, MinKey(u), MinKey(u))}

Overlapping(l, inputs) ==
    {t \in AtLevel(live, l) :
        \E lo, hi \in UNION {KeysOf(u) : u \in inputs} :
            /\ \A u \in inputs : lo <= MinKey(u) /\ MaxKey(u) <= hi
            /\ overlaps_range(t, lo, hi)}

Task(l, inputs) ==
    [src |-> l, inputs |-> inputs, targets |-> Overlapping(l + 1, inputs)]

\* Mutant: the trigger waits for one table more than stops the writers.
check_l0_trigger_late ==
    IF Cardinality(AtLevel(live, 0)) > L0Stop
    THEN <<Task(0, AtLevel(live, 0))>> ELSE <<>>

\* All of L0 once it has more than l0_compaction_trigger tables.
check_l0_trigger ==
    IF Cardinality(AtLevel(live, 0)) > L0Trigger
    THEN <<Task(0, AtLevel(live, 0))>> ELSE <<>>

\* The oldest table of a level that is too large.
check_level_trigger(l) ==
    LET ts == AtLevel(live, l)
        Before(t, u) == \/ t.created < u.created
                        \/ t.created = u.created /\ MinKey(t) <= MinKey(u)
    IN  IF l \in 1 .. Bottom - 1 /\ level_size(l) > MaxSize
        THEN <<Task(l, {CHOOSE t \in ts : \A u \in ts : Before(t, u)})>>
        ELSE <<>>

check_triggers ==
    check_l0_trigger \o check_level_trigger(1) \o check_level_trigger(2)

\* write_stall_status is Stopped.
Stopped == Cardinality(AtLevel(live, 0)) >= L0Stop

-----------------------------------------------------------------------------
(* Writes and flushes *)

\* put, put_batch, delete: refused while L0 is full.
Write ==
    /\ pc = "idle" /\ mem = {}
    /\ ~Stopped
    /\ fresh <= MaxWrites
    /\ \E ks \in (SUBSET Keys) \ {{}} : \E dels \in SUBSET ks :
         /\ mem' = {[key |-> k, seq |-> fresh, del |-> k \in dels] : k \in ks}
         /\ truth' = [k \in Keys |->
                IF k \in ks THEN [seq |-> fresh, del |-> k \in dels]
                            ELSE truth[k]]
    /\ fresh' = fresh + 1
    /\ UNCHANGED <<config, live, files, handles, cache, pc, tasks, output,
                   torn, faults, restarts, mixed>>

\* flush_frozen, by a write that fills the memtable or by maintenance.
Flush ==
    /\ pc = "idle" /\ mem # {}
    /\ LET t == [id |-> fresh, frag |-> 0, level |-> 0, created |-> fresh,
                 entries |-> mem]
       IN  /\ live' = live \cup {t}
           /\ files' = files \cup {Path(t)}
           /\ handles' = handles \cup {t}
    /\ mem' = {}
    /\ fresh' = fresh + 1
    /\ pc' = "triggers"
    /\ UNCHANGED <<config, cache, tasks, output, truth, torn, faults,
                   restarts, mixed>>

\* Partition::run_maintenance compacts even when there was nothing to flush.
Maintain ==
    /\ pc = "idle" /\ mem = {} /\ check_triggers # <<>>
    /\ pc' = "triggers"
    /\ UNCHANGED <<config, live, files, handles, cache, mem, tasks, output,
                   fresh, truth, torn, faults, restarts, mixed>>

\* maybe_compact.
CheckTriggers ==
    /\ pc = "triggers"
    /\ tasks' = check_triggers
    /\ pc' = IF check_triggers = <<>> THEN "idle" ELSE "compact"
    /\ UNCHANGED <<config, live, files, handles, cache, mem, output, fresh,
                   truth, torn, faults, restarts, mixed>>

-----------------------------------------------------------------------------
(* CompactionExecutor *)

Current == Head(tasks)
Inputs == Current.inputs \cup Current.targets
Target == Current.src + 1

\* LevelToLevel with nothing to merge with.
IsTrivial == Current.src > 0 /\ Current.targets = {}

\* The round ends with an error, which the flush or maintenance returns.
EndRound == tasks' = <<>> /\ output' = {} /\ pc' = "idle"

\* Mutant: the move is committed without copying the file.
CopyTrivial_skipped ==
    /\ pc = "compact" /\ IsTrivial
    /\ \A t \in Inputs : Path(t) \in files
    /\ output' = {[t EXCEPT !.level = Target, !.created = fresh]
                     : t \in Inputs}
    /\ fresh' = fresh + 1
    /\ pc' = "commit"
    /\ UNCHANGED <<config, live, files, handles, cache, mem, tasks, truth,
                   torn, faults, restarts, mixed>>

\* The file is copied to its path in the next level.
CopyTrivial ==
    /\ pc = "compact" /\ IsTrivial
    /\ \A t \in Inputs : Path(t) \in files
    /\ output' = {[t EXCEPT !.level = Target, !.created = fresh]
                     : t \in Inputs}
    /\ files' = files \cup {Path(t) : t \in output'}
    /\ fresh' = fresh + 1
    /\ pc' = "commit"
    /\ UNCHANGED <<config, live, handles, cache, mem, tasks, truth, torn,
                   faults, restarts, mixed>>

\* Mutant: tombstones are dropped at every level.
Survivors_without_tombstones(entries) == {e \in Merged(entries) : ~e.del}

\* Tombstones are dropped at the bottom level.
Survivors(entries) ==
    {e \in Merged(entries) : ~(e.del /\ Target = Bottom)}

\* The output is cut after every fragSize entries; an output that stays below
\* that is a table of its own.
Fragments(entries) ==
    LET Rank(e) == Cardinality({o \in entries : o.key < e.key})
        Frag(e) == IF Cardinality(entries) < config.fragSize THEN 0
                   ELSE Rank(e) \div config.fragSize + 1
    IN  {[id |-> fresh, frag |-> Frag(e), level |-> Target, created |-> fresh,
          entries |-> {o \in entries : Frag(o) = Frag(e)}] : e \in entries}

\* All inputs are read through the block cache, merged and written.
Merge ==
    /\ pc = "compact" /\ ~IsTrivial
    /\ \A t \in Inputs : Path(t) \in files
    /\ cache' = CachedAfter(Current.inputs, Inputs)
    /\ output' = Fragments(Survivors(UNION {Contents(t)' : t \in Inputs}))
    /\ mixed' = (mixed \/ \E t \in Inputs : Contents(t)' # t.entries)
    /\ files' = files \cup {Path(t) : t \in output'}
    /\ fresh' = fresh + 1
    /\ pc' = "commit"
    /\ UNCHANGED <<config, live, handles, mem, tasks, truth, torn, faults,
                   restarts>>

\* The manifest update: refused when an input is no longer live.
Commit ==
    /\ pc = "commit"
    /\ IF Inputs \subseteq live
       THEN /\ live' = (live \ Inputs) \cup output
            /\ pc' = IF IsTrivial THEN "delete" ELSE "rebuild"
            /\ UNCHANGED <<tasks, output>>
       ELSE EndRound /\ UNCHANGED live
    /\ UNCHANGED <<config, files, handles, cache, mem, fresh, truth, torn,
                   faults, restarts, mixed>>

\* A trivial move deletes the source file at once.
DeleteSource ==
    /\ pc = "delete"
    /\ files' = files \ {Path(t) : t \in Inputs}
    /\ pc' = "rebuild"
    /\ UNCHANGED <<config, live, handles, cache, mem, tasks, output, fresh,
                   truth, torn, faults, restarts, mixed>>

\* Mutant: only the new tables are opened.
Rebuild_adding ==
    /\ pc = "rebuild"
    /\ handles' = handles \cup output
    /\ torn' = FALSE
    /\ cache' = {c \in cache : c.key \notin {<<t.id, t.frag>> : t \in Inputs}}
    /\ tasks' = Tail(tasks)
    /\ output' = {}
    /\ pc' = IF Tail(tasks) = <<>> THEN "idle" ELSE "compact"
    /\ UNCHANGED <<config, live, files, mem, fresh, truth, faults, restarts,
                   mixed>>

\* rebuild_levels, then evict_compaction_result by table id, which for a
\* fragment is not the key its blocks are cached under.
Rebuild ==
    /\ pc = "rebuild"
    /\ handles' = live
    /\ torn' = FALSE
    /\ cache' = {c \in cache : c.key \notin {<<t.id, t.frag>> : t \in Inputs}}
    /\ tasks' = Tail(tasks)
    /\ output' = {}
    /\ pc' = IF Tail(tasks) = <<>> THEN "idle" ELSE "compact"
    /\ UNCHANGED <<config, live, files, mem, fresh, truth, faults, restarts,
                   mixed>>

\* A storage call of the round fails, or its future is dropped.  The manifest
\* update fails before it takes effect (module Manifest has updates whose
\* answers are lost); the delete may have happened; rebuild_levels cleared the
\* levels and stops at one of them.
Fail ==
    /\ pc \in Faults
    /\ faults < MaxFaults
    /\ faults' = faults + 1
    /\ \/ pc \in {"compact", "commit"} /\ UNCHANGED <<files, handles>>
       \/ /\ pc = "delete"
          /\ files' = files \ {Path(t) : t \in Inputs} \/ UNCHANGED files
          /\ UNCHANGED handles
       \/ /\ pc = "rebuild"
          /\ \E l \in 0 .. Bottom : handles' = {t \in live : t.level < l}
          /\ UNCHANGED files
    /\ torn' = (torn \/ pc \in {"delete", "rebuild"})
    /\ EndRound
    /\ UNCHANGED <<config, live, cache, mem, fresh, truth, restarts, mixed>>

\* A read caches the block it fetched.
Read ==
    /\ config.caching /\ pc = "idle"
    /\ \E t \in handles : cache' = CachedAfter({}, {t}) /\ cache' # cache
    /\ UNCHANGED <<config, live, files, handles, mem, pc, tasks, output,
                   fresh, truth, torn, faults, restarts, mixed>>

\* The process restarts: the levels are opened from the manifest, the WAL
\* brings the memtable back.
Restart ==
    /\ restarts < MaxRestarts
    /\ restarts' = restarts + 1
    /\ handles' = live
    /\ torn' = FALSE
    /\ cache' = {}
    /\ EndRound
    /\ UNCHANGED <<config, live, files, mem, fresh, truth, faults, mixed>>

-----------------------------------------------------------------------------
Init ==
    /\ config \in Configs
    /\ live = {} /\ files = {} /\ handles = {} /\ cache = {} /\ mem = {}
    /\ pc = "idle" /\ tasks = <<>> /\ output = {}
    /\ fresh = 1
    /\ truth = [k \in Keys |-> [seq |-> 0, del |-> TRUE]]
    /\ torn = FALSE /\ mixed = FALSE /\ faults = 0 /\ restarts = 0

\* What the write path and the maintenance task do without being asked.
Progress ==
    \/ Flush \/ Maintain \/ CheckTriggers
    \/ CopyTrivial \/ Merge \/ Commit \/ DeleteSource \/ Rebuild

Next == Write \/ Progress \/ Fail \/ Read \/ Restart

Spec == Init /\ [][Next]_vars

FairSpec == Spec /\ WF_vars(Progress)

-----------------------------------------------------------------------------
(* Properties *)

\* find_candidates_for_key: every L0 table, and in a deeper level the first
\* table (they are sorted) that ends at or after the key, if it contains it.
Candidates(k) ==
    {t \in handles :
        \/ t.level = 0
        \/ /\ MinKey(t) <= k /\ k <= MaxKey(t)
           /\ \A u \in AtLevel(handles, t.level) :
                 MaxKey(u) >= k => MinKey(t) <= MinKey(u)}

\* Engine::get: the sequence number of the version returned, 0 for none.
Get(k) ==
    LET Of(entries) == {e \in entries : e.key = k}
        found == IF Of(mem) # {} THEN Of(mem)
                 ELSE Of(UNION {Contents(t) : t \in Candidates(k)})
    IN  IF \E e \in Merged(found) : ~e.del
        THEN (CHOOSE e \in Merged(found) : ~e.del).seq ELSE 0

\* A point read returns the newest write of its key and nothing for a deleted
\* key, wherever flushes, merges, moves, dropped tombstones, failed rounds and
\* restarts have put its versions.  The exception is an engine whose round
\* stopped between its commit and the end of rebuild_levels: it reads what
\* levels it has until the next completed round or restart repairs them.
ReadsNewest ==
    pc = "idle" /\ ~torn => \A k \in Keys :
        Get(k) = IF truth[k].del THEN 0 ELSE truth[k].seq

\* Below L0 no two tables of a level overlap, which the binary search of the
\* read path and the choice of merge inputs rely on, and the manifest names
\* each table once, also when a stale task moves or merges it again.
LevelsDisjoint ==
    /\ \A t, u \in live : <<t.id, t.frag>> = <<u.id, u.frag>> => t = u
    /\ \A t, u \in live : t # u /\ t.level = u.level /\ t.level > 0 =>
           ~overlaps_range(t, MinKey(u), MaxKey(u))

\* Every table of the manifest has its file under the path of its level, so
\* that the partition can be opened again at any moment.
FilesExist == \A t \in live : Path(t) \in files

\* Every table open for reading has its file, with the same exception: the
\* source of a moved table is deleted before the levels are rebuilt.
HandlesReadable ==
    pc = "idle" /\ ~torn => \A t \in handles : Path(t) \in files

\* Writes stalled by a full L0 are admitted again: compaction catches up even
\* when nothing is left to flush.
StallEnds == Stopped ~> ~Stopped

-----------------------------------------------------------------------------
(* What the properties rest on *)

\* The entries and tables that can exist before the n-th number is drawn.
Entries(n) == [key : Keys, seq : 1 .. n - 1, del : BOOLEAN]
Tables(n) == [id : 1 .. n - 1, frag : Nat, level : 0 .. Bottom,
              created : 1 .. n - 1, entries : (SUBSET Entries(n)) \ {{}}]
Tasks(n) == [src : 0 .. Bottom - 1, inputs : SUBSET Tables(n),
             targets : SUBSET Tables(n)]
Blocks(n) == [key : Nat \X Nat, entries : (SUBSET Entries(n)) \ {{}}]

TypeOK ==
    /\ config \in Configs
    /\ fresh \in Nat \ {0}
    /\ live \subseteq Tables(fresh) /\ handles \subseteq Tables(fresh)
    /\ output \subseteq Tables(fresh)
    /\ tasks \in Seq(Tasks(fresh))
    /\ mem \subseteq Entries(fresh)
    /\ cache \subseteq Blocks(fresh)
    /\ truth \in [Keys -> [seq : 0 .. fresh - 1, del : BOOLEAN]]
    /\ pc \in {"idle", "triggers", "compact", "commit", "delete", "rebuild"}
    /\ torn \in BOOLEAN

\* A task as check_triggers would derive it from the tables now in its source
\* and target levels, except that its inputs may have been consumed.
Derived(task) ==
    /\ task.inputs # {} /\ \A t \in task.inputs : t.level = task.src
    /\ task.targets = Overlapping(task.src + 1, task.inputs)
    /\ task.src = 0 => task.inputs = AtLevel(live, 0)

\* A round's tasks go down the levels, so the ones still to come are not
\* affected by the tables the earlier ones create.
TasksInv ==
    /\ pc \in {"idle", "triggers"} <=> tasks = <<>>
    /\ \A i \in 1 .. Len(tasks) :
          i > 1 \/ pc \in {"compact", "commit"} => Derived(tasks[i])
    /\ \A i, j \in 1 .. Len(tasks) : i < j => tasks[i].src < tasks[j].src

SameTable(t, u) == t.id = u.id /\ t.frag = u.frag

\* The files of the manifest's tables and of the ones about to be added.
FilesInv ==
    /\ FilesExist
    /\ \A t, u \in live : SameTable(t, u) => t = u
    /\ pc = "commit" =>
          /\ \A o \in output : o.level = Target /\ Path(o) \in files
          /\ Inputs \subseteq live =>
                /\ \A o, p \in output : SameTable(o, p) => o = p
                /\ \A o \in output, t \in live : SameTable(o, t) => t \in Inputs
    /\ pc = "delete" => \A t \in Inputs, u \in live : Path(t) # Path(u)
    /\ ~torn /\ pc \notin {"delete", "rebuild"} => handles = live

\* Inductive whatever the configuration; yields FilesExist and
\* HandlesReadable.
StorageInv == TypeOK /\ TasksInv /\ FilesInv

\* The tables somebody may still read, and all entries there are.
Known ==
    live \cup handles \cup output
         \cup UNION {tasks[i].inputs \cup tasks[i].targets : i \in 1 .. Len(tasks)}
Versions(tables) == UNION {t.entries : t \in tables}
Stored == mem \cup Versions(live)

\* A write is one entry and a table id one set of entries.
NamesInv ==
    /\ \A e, f \in mem \cup Versions(Known) :
          e.key = f.key /\ e.seq = f.seq => e = f
    /\ \A t, u \in Known : SameTable(t, u) => t.entries = u.entries

Apart(t, u) == ~overlaps_range(t, MinKey(u), MaxKey(u))

\* Versions of a key get older from level to level.
LevelsInv ==
    /\ \A t, u \in live : t # u /\ t.level = u.level /\ t.level > 0 => Apart(t, u)
    /\ \A t, u \in live : t.level < u.level =>
          \A e \in t.entries, f \in u.entries : e.key = f.key => f.seq < e.seq

\* The newest version of a key is stored, or it was a delete and there is no
\* version left.
TruthInv ==
    /\ \A e \in Stored : /\ e.seq <= truth[e.key].seq
                         /\ e.seq = truth[e.key].seq => e.del = truth[e.key].del
    /\ \A e \in mem : /\ e.seq = truth[e.key].seq
                      /\ \A f \in Versions(live) : f.key = e.key => f.seq < e.seq
    /\ \A k \in Keys :
          \/ \E e \in Stored : e.key = k /\ e.seq = truth[k].seq
          \/ truth[k].del /\ \A e \in Stored : e.key # k

\* What a task has written holds the newest versions of what it has read.
OutputInv ==
    pc = "commit" /\ Inputs \subseteq live =>
        /\ Versions(output) \subseteq Versions(Inputs)
        /\ \A o, p \in output : o # p => Apart(o, p)
        /\ \A e \in Merged(Versions(Inputs)) :
              \/ e \in Versions(output)
              \/ /\ e.del /\ Target = Bottom
                 /\ \A f \in Versions(output) : f.key # e.key

\* Inductive until a merge is given another table's block, in every
\* deployment; yields LevelsDisjoint and ReadsNewest.
ContentsInv == NamesInv /\ LevelsInv /\ TruthInv /\ OutputInv

\* Every table open for reading is answered with its own block.
BlocksOwn == \A t \in handles : Contents(t) = t.entries

=============================================================================
