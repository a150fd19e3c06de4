------------------------------- MODULE Manifest -------------------------------
(***************************************************************************)
(* The manifest of one partition: versioned objects in shared storage,     *)
(* written only with a conditional put (If-None-Match: * ), and the        *)
(* ManifestManager of every node that believes it owns the partition.      *)
(*                                                                         *)
(* A manager is driven through `&mut self`, so one node runs one operation *)
(* at a time; the operation yields at every storage call, which is where   *)
(* nodes interleave.  Each storage call is one action:                     *)
(*   ListLatest, PutInitial, GetLatest   - load_latest / refresh           *)
(*   PutOk, PutPreconditionFailed, PutError - conditional_put              *)
(*   PruneList, PruneDelete              - prune_old_manifests             *)
(***************************************************************************)
EXTENDS Integers, FiniteSets

CONSTANTS
    Nodes,             \* processes holding a ManifestManager for the partition
    Workloads,         \* the sets of operations the nodes may use together
    MaxCasRetries,     \* MAX_CAS_RETRIES
    SnapshotInterval,  \* ManifestConfig.snapshot_interval
    MaxSeq,            \* bound: sequence numbers a flush may report
    MaxOps             \* bound: operations started by all nodes together,
                       \* for each workload

AllOperations == {"load", "acquireW", "acquireC", "flush", "compact",
                  "prune", "crash", "puterror"}

ASSUME ConstantsAssumption ==
    /\ Workloads \subseteq SUBSET AllOperations
    /\ MaxCasRetries \in Nat \ {0}
    /\ SnapshotInterval \in Nat \ {0}
    /\ MaxSeq \in Nat
    /\ MaxOps \in [Workloads -> Nat]

VARIABLES
    ops,       \* the operations in use: a workload chosen once and for all
    store,     \* manifest objects: a function from manifest ids to manifests
    current,   \* ManifestManager.current, per node
    wEpoch,    \* ManifestManager.writer_epoch, per node
    cEpoch,    \* ManifestManager.compactor_epoch, per node
    pc,        \* the storage call the node's operation is waiting in
    op,        \* the operation the node is executing
    upd,       \* the ManifestUpdate being committed
    attempt,   \* the CAS loop's attempt counter
    target,    \* the id load_latest found highest and is about to get
    doomed,    \* ids prune_old_manifests still has to delete
    acked,     \* history: flushes whose update returned Ok
    fresh      \* operations started; also the source of unique SSTable ids

vars == <<ops, store, current, wEpoch, cEpoch, pc, op, upd, attempt, target,
          doomed, acked, fresh>>

-----------------------------------------------------------------------------
(* Data *)

NoSeq == -1                 \* new_last_flushed_sequence: None

\* An SSTable is known by its ULID; `flushes` are the flushed memtables whose
\* entries it holds: one for an L0 table, the union of its inputs' for the
\* output of a compaction.  Levels below L1 behave as L1 does here.
SSTs == [id : Nat, level : {0, 1}, flushes : SUBSET Nat]

Manifests == [id : Nat, prev : Nat, wEpoch : Nat, cEpoch : Nat,
              lastFlushed : Nat, ssts : SUBSET SSTs, snapshot : BOOLEAN]

Updates == [trigger : {"Flush", "Compaction"}, add : SUBSET SSTs,
            remove : SUBSET SSTs, seq : Nat \cup {NoSeq},
            wEpoch : Nat, cEpoch : Nat]

new_empty == [id |-> 0, prev |-> 0, wEpoch |-> 0, cEpoch |-> 0,
              lastFlushed |-> 0, ssts |-> {}, snapshot |-> FALSE]

NoUpdate == [trigger |-> "Flush", add |-> {}, remove |-> {}, seq |-> NoSeq,
             wEpoch |-> 0, cEpoch |-> 0]

\* h is the highest id stored: what a sorted listing ends with.
IsLatest(h) == h \in DOMAIN store /\ \A i \in DOMAIN store : i <= h

-----------------------------------------------------------------------------
(* ManifestUpdate *)

\* Mutant of apply_ok: compaction inputs taken for granted.
apply_ok_unchecked_inputs(u, m) == u.seq = NoSeq \/ u.seq >= m.lastFlushed

\* apply fails on a missing input and on a decreasing sequence number.
apply_ok(u, m) ==
    /\ u.remove \subseteq m.ssts
    /\ u.seq = NoSeq \/ u.seq >= m.lastFlushed

\* Mutant of apply: None overwrites last_flushed_sequence.
apply_none_as_value(u, m) ==
    [m EXCEPT !.id = m.id + 1, !.prev = m.id, !.wEpoch = u.wEpoch,
              !.cEpoch = u.cEpoch, !.lastFlushed = u.seq,
              !.ssts = (m.ssts \ u.remove) \cup u.add]

\* The clone keeps is_snapshot; both epochs come from the update.
apply(u, m) ==
    [id          |-> m.id + 1,
     prev        |-> m.id,
     wEpoch      |-> u.wEpoch,
     cEpoch      |-> u.cEpoch,
     lastFlushed |-> IF u.seq = NoSeq THEN m.lastFlushed ELSE u.seq,
     ssts        |-> (m.ssts \ u.remove) \cup u.add,
     snapshot    |-> m.snapshot]

\* Manifests stay below max_manifest_size here, so its other trigger is off.
should_snapshot_manifest(m) == m.id > 0 /\ m.id % SnapshotInterval = 0

\* What update() writes: the applied manifest, flagged when it is a snapshot.
to_write(u, m) ==
    LET new == apply(u, m)
    IN  IF should_snapshot_manifest(new) THEN [new EXCEPT !.snapshot = TRUE]
                                         ELSE new

check_writer_epoch(n, m)    == m.wEpoch <= wEpoch[n]
check_compactor_epoch(n, m) == m.cEpoch <= cEpoch[n]

\* Mutant of validate_epoch: only the compactor's epoch is compared.
validate_epoch_compactor_only(n, u, m) ==
    u.trigger = "Flush" \/ check_compactor_epoch(n, m)

validate_epoch(n, u, m) ==
    \/ u.trigger = "Flush"      /\ check_writer_epoch(n, m)
    \/ u.trigger = "Compaction" /\ check_compactor_epoch(n, m)

\* Removed tables exist, added ones do not, the sequence does not decrease.
validate_update(u, m) ==
    /\ apply_ok(u, m)
    /\ u.add \cap m.ssts = {}

-----------------------------------------------------------------------------
(* Starting an operation *)

Idle(n) == pc[n] = "idle"

\* Engine::open has acquired a writer epoch, which it does exactly once.
Opened(n) == wEpoch[n] > 0

Start(n, what, call) ==
    /\ Idle(n)
    /\ fresh < MaxOps[ops]
    /\ fresh' = fresh + 1
    /\ op' = [op EXCEPT ![n] = what]
    /\ pc' = [pc EXCEPT ![n] = call]

\* load_latest on its own (recovery), and the two epoch acquisitions, all of
\* which begin with a refresh.
BeginRefresh(n, what) ==
    /\ what \in {"load", "acquireW", "acquireC"} \cap ops
    /\ (what = "acquireW") => ~Opened(n)
    /\ Start(n, what, "list")
    /\ UNCHANGED <<ops, store, current, wEpoch, cEpoch, upd, attempt, target,
                   doomed, acked>>

\* update(): validation against the cached manifest, then the CAS loop.
BeginUpdate(n, what, u) ==
    /\ validate_epoch(n, u, current[n])
    /\ validate_update(u, current[n])
    /\ Start(n, what, "put")
    /\ upd' = [upd EXCEPT ![n] = u]
    /\ attempt' = [attempt EXCEPT ![n] = 0]
    /\ UNCHANGED <<ops, store, current, wEpoch, cEpoch, target, doomed, acked>>

\* The update FlushPipeline::flush submits for a memtable ending at seq.
BeginFlush(n) ==
    /\ "flush" \in ops
    /\ Opened(n)
    /\ \E seq \in 1 .. MaxSeq :
         BeginUpdate(n, "flush",
            [trigger |-> "Flush", remove |-> {}, seq |-> seq,
             add |-> {[id |-> fresh, level |-> 0, flushes |-> {fresh}]},
             wEpoch |-> wEpoch[n], cEpoch |-> cEpoch[n]])

\* The update the compaction executor submits: some live tables are replaced
\* by the merge of their contents.
BeginCompact(n) ==
    /\ "compact" \in ops
    /\ Opened(n)
    /\ \E inputs \in (SUBSET current[n].ssts) \ {{}} :
         BeginUpdate(n, "compact",
            [trigger |-> "Compaction", remove |-> inputs, seq |-> NoSeq,
             add |-> {[id |-> fresh, level |-> 1,
                       flushes |-> UNION {t.flushes : t \in inputs}]},
             wEpoch |-> wEpoch[n], cEpoch |-> cEpoch[n]])

-----------------------------------------------------------------------------
(* load_latest *)

\* Mutant of Created: a plain put.
Created_overwriting(m) ==
    store' = [i \in DOMAIN store \cup {m.id} |->
                 IF i = m.id THEN m ELSE store[i]]

\* If-None-Match: * - the object is created iff no object has its key.
Created(m) ==
    /\ m.id \notin DOMAIN store
    /\ store' = [i \in DOMAIN store \cup {m.id} |->
                    IF i = m.id THEN m ELSE store[i]]

\* The operation returns to its caller; its locals are gone.
Return(n) ==
    /\ pc' = [pc EXCEPT ![n] = "idle"]
    /\ op' = [op EXCEPT ![n] = "load"]
    /\ upd' = [upd EXCEPT ![n] = NoUpdate]
    /\ attempt' = [attempt EXCEPT ![n] = 0]

ListLatest(n) ==
    /\ pc[n] = "list"
    /\ \/ /\ store = <<>>
          /\ pc' = [pc EXCEPT ![n] = "init"]
          /\ UNCHANGED target
       \/ \E h \in DOMAIN store :
            /\ IsLatest(h)
            /\ target' = [target EXCEPT ![n] = h]
            /\ pc' = [pc EXCEPT ![n] = "get"]
    /\ UNCHANGED <<ops, store, current, wEpoch, cEpoch, op, upd, attempt, doomed,
                   acked, fresh>>

\* The update an epoch acquisition writes on top of the refreshed manifest m.
AcquireUpdate(what, m) ==
    [trigger |-> IF what = "acquireW" THEN "Flush" ELSE "Compaction",
     add |-> {}, remove |-> {}, seq |-> NoSeq,
     wEpoch |-> IF what = "acquireW" THEN m.wEpoch + 1 ELSE m.wEpoch,
     cEpoch |-> IF what = "acquireC" THEN m.cEpoch + 1 ELSE m.cEpoch]

\* What follows a refresh that made m current: load returns, an acquisition
\* puts, a CAS retry re-validates the epoch and the inputs and applies again.
AfterRefresh(n, m) ==
    /\ current' = [current EXCEPT ![n] = m]
    /\ \/ op[n] = "load" /\ Return(n)
       \/ /\ op[n] \in {"acquireW", "acquireC"}
          /\ upd' = [upd EXCEPT ![n] = AcquireUpdate(op[n], m)]
          /\ pc' = [pc EXCEPT ![n] = "put"]
          /\ UNCHANGED <<op, attempt>>
       \/ /\ op[n] \in {"flush", "compact"}
          /\ validate_epoch(n, upd[n], m) /\ apply_ok(upd[n], m)
          /\ attempt' = [attempt EXCEPT ![n] = @ + 1]
          /\ pc' = [pc EXCEPT ![n] = "put"]
          /\ UNCHANGED <<op, upd>>
       \/ /\ op[n] \in {"flush", "compact"}
          /\ ~(validate_epoch(n, upd[n], m) /\ apply_ok(upd[n], m))
          /\ Return(n)

\* The listing was empty: the first node to get here writes manifest 0, the
\* others find it there and go on to read it.
PutInitial(n) ==
    /\ pc[n] = "init"
    /\ \/ /\ Created(new_empty)
          /\ AfterRefresh(n, new_empty)
          /\ UNCHANGED target
       \/ /\ 0 \in DOMAIN store
          /\ target' = [target EXCEPT ![n] = 0]
          /\ pc' = [pc EXCEPT ![n] = "get"]
          /\ UNCHANGED <<store, current, op, upd, attempt>>
    /\ UNCHANGED <<ops, wEpoch, cEpoch, doomed, acked, fresh>>

\* The manifest listed may have been pruned before it is read: NotFound.
GetLatest(n) ==
    /\ pc[n] = "get"
    /\ IF target[n] \in DOMAIN store
       THEN AfterRefresh(n, store[target[n]])
       ELSE Return(n) /\ UNCHANGED current
    /\ target' = [target EXCEPT ![n] = 0]
    /\ UNCHANGED <<ops, store, wEpoch, cEpoch, doomed, acked, fresh>>

-----------------------------------------------------------------------------
(* conditional_put *)

\* The manifest object the node is about to create.  Acquisitions write the
\* applied manifest as it is; update() decides about the snapshot flag.
Candidate(n) ==
    IF op[n] \in {"acquireW", "acquireC"} THEN apply(upd[n], current[n])
                                          ELSE to_write(upd[n], current[n])

PutOk(n) ==
    /\ pc[n] = "put"
    /\ Created(Candidate(n))
    /\ current' = [current EXCEPT ![n] = Candidate(n)]
    /\ wEpoch' = IF op[n] = "acquireW"
                 THEN [wEpoch EXCEPT ![n] = upd[n].wEpoch] ELSE wEpoch
    /\ cEpoch' = IF op[n] = "acquireC"
                 THEN [cEpoch EXCEPT ![n] = upd[n].cEpoch] ELSE cEpoch
    /\ acked' = IF op[n] = "flush"
                THEN acked \cup {t.id : t \in upd[n].add} ELSE acked
    /\ Return(n)
    /\ UNCHANGED <<ops, target, doomed, fresh>>

\* PreconditionFailed: an acquisition gives up, update() refreshes and retries
\* until its attempts are used up.
PutPreconditionFailed(n) ==
    /\ pc[n] = "put"
    /\ Candidate(n).id \in DOMAIN store
    /\ IF op[n] \in {"flush", "compact"} /\ attempt[n] + 1 < MaxCasRetries
       THEN pc' = [pc EXCEPT ![n] = "list"] /\ UNCHANGED <<op, upd, attempt>>
       ELSE Return(n)
    /\ UNCHANGED <<ops, store, current, wEpoch, cEpoch, target, doomed, acked,
                   fresh>>

\* Any other storage error is returned to the caller; the object may have been
\* created before the response was lost.
PutError(n) ==
    /\ "puterror" \in ops
    /\ pc[n] = "put"
    /\ Created(Candidate(n)) \/ UNCHANGED store
    /\ Return(n)
    /\ UNCHANGED <<ops, current, wEpoch, cEpoch, target, doomed, acked, fresh>>

\* A failing list, get, delete or first put ends the operation likewise.  One
\* that took effect before it failed is the successful step followed by an
\* error of the next one.
StorageError(n) ==
    /\ "puterror" \in ops
    /\ pc[n] \in {"list", "init", "get", "delete"}
    /\ Return(n)
    /\ target' = [target EXCEPT ![n] = 0]
    /\ doomed' = [doomed EXCEPT ![n] = {}]
    /\ UNCHANGED <<ops, store, current, wEpoch, cEpoch, acked, fresh>>

-----------------------------------------------------------------------------
(* prune_old_manifests *)

Snapshots == {i \in DOMAIN store : store[i].snapshot}

\* Mutant of IsCutoff: the most recent snapshot.
IsCutoff_most_recent(c) ==
    /\ c \in Snapshots
    /\ \A i \in Snapshots : i <= c
    /\ \E i \in Snapshots : i < c

\* c is the second most recent snapshot.
IsCutoff(c) ==
    /\ c \in Snapshots
    /\ \E s \in Snapshots :
         s > c /\ \A i \in Snapshots : i > c => i = s

\* Mutant of PruneList: everything but the cached manifest and the cutoff.
PruneList_not_only_older(n) ==
    /\ "prune" \in ops
    /\ \E c \in DOMAIN store :
         /\ IsCutoff(c)
         /\ doomed' = [doomed EXCEPT ![n] = DOMAIN store \ {c, current[n].id}]
    /\ Start(n, "prune", "delete")
    /\ UNCHANGED <<ops, store, current, wEpoch, cEpoch, upd, attempt, target,
                   acked>>

\* Listing the manifests and reading their snapshot flags; with fewer than
\* two snapshots nothing is deleted.  The flags are read with one get each,
\* and a manifest that another pruner deletes meanwhile is skipped: the cutoff
\* found is then the listing's, an older one or none, and what is deleted is a
\* part of what this one step dooms, as after a StorageError.
PruneList(n) ==
    /\ "prune" \in ops
    /\ \E c \in DOMAIN store :
         /\ IsCutoff(c)
         /\ doomed' = [doomed EXCEPT ![n] =
                {i \in DOMAIN store : i < c /\ i # current[n].id}]
    /\ Start(n, "prune", "delete")
    /\ UNCHANGED <<ops, store, current, wEpoch, cEpoch, upd, attempt, target,
                   acked>>

\* The doomed manifests are deleted one by one in listing order.
PruneDelete(n) ==
    /\ pc[n] = "delete"
    /\ \/ /\ doomed[n] = {}
          /\ Return(n)
          /\ UNCHANGED <<store, doomed>>
       \/ \E i \in doomed[n] :
            /\ \A j \in doomed[n] : i <= j
            /\ store' = [j \in DOMAIN store \ {i} |-> store[j]]
            /\ doomed' = [doomed EXCEPT ![n] = @ \ {i}]
            /\ UNCHANGED <<pc, op, upd, attempt>>
    /\ UNCHANGED <<ops, current, wEpoch, cEpoch, target, acked, fresh>>

-----------------------------------------------------------------------------
\* The process dies at any point and its successor starts from
\* ManifestManager::new: an empty manifest and no epoch.
Crash(n) ==
    /\ "crash" \in ops
    /\ fresh < MaxOps[ops]
    /\ fresh' = fresh + 1
    /\ pc' = [pc EXCEPT ![n] = "idle"]
    /\ op' = [op EXCEPT ![n] = "load"]
    /\ current' = [current EXCEPT ![n] = new_empty]
    /\ wEpoch' = [wEpoch EXCEPT ![n] = 0]
    /\ cEpoch' = [cEpoch EXCEPT ![n] = 0]
    /\ doomed' = [doomed EXCEPT ![n] = {}]
    /\ upd' = [upd EXCEPT ![n] = NoUpdate]
    /\ attempt' = [attempt EXCEPT ![n] = 0]
    /\ target' = [target EXCEPT ![n] = 0]
    /\ UNCHANGED <<ops, store, acked>>

Init ==
    /\ ops \in Workloads
    /\ store = <<>>
    /\ current = [n \in Nodes |-> new_empty]
    /\ wEpoch = [n \in Nodes |-> 0]
    /\ cEpoch = [n \in Nodes |-> 0]
    /\ pc = [n \in Nodes |-> "idle"]
    /\ op = [n \in Nodes |-> "load"]
    /\ upd = [n \in Nodes |-> NoUpdate]
    /\ attempt = [n \in Nodes |-> 0]
    /\ target = [n \in Nodes |-> 0]
    /\ doomed = [n \in Nodes |-> {}]
    /\ acked = {}
    /\ fresh = 0

Step(n) ==
    \/ \E what \in {"load", "acquireW", "acquireC"} : BeginRefresh(n, what)
    \/ BeginFlush(n)
    \/ BeginCompact(n)
    \/ ListLatest(n)
    \/ PutInitial(n)
    \/ GetLatest(n)
    \/ PutOk(n)
    \/ PutPreconditionFailed(n)
    \/ PutError(n)
    \/ StorageError(n)
    \/ PruneList(n)
    \/ PruneDelete(n)
    \/ Crash(n)

Next == \E n \in Nodes : Step(n)

Spec == Init /\ [][Next]_vars

-----------------------------------------------------------------------------
(* Properties *)

\* Every variable has its type; the store's keys are the ids of what it holds.
TypeOK ==
    /\ DOMAIN store \subseteq Nat
    /\ \A i \in DOMAIN store : store[i] \in Manifests /\ store[i].id = i
    /\ current \in [Nodes -> Manifests]
    /\ wEpoch \in [Nodes -> Nat]
    /\ cEpoch \in [Nodes -> Nat]
    /\ pc \in [Nodes -> {"idle", "list", "init", "get", "put", "delete"}]
    /\ op \in [Nodes -> AllOperations]
    /\ upd \in [Nodes -> Updates]
    /\ attempt \in [Nodes -> Nat]
    /\ target \in [Nodes -> Nat]
    /\ doomed \in [Nodes -> SUBSET Nat]
    /\ acked \subseteq Nat
    /\ fresh \in Nat
    /\ ops \in Workloads

\* Table t is the one live table of manifest m that holds flush f.
HoldsOnce(m, f) ==
    \E t \in m.ssts :
        f \in t.flushes /\ \A t2 \in m.ssts : f \in t2.flushes => t2 = t

\* A flush that update() reported as committed is in exactly one live table
\* of the latest manifest, however its commit raced with compactions that
\* consumed the same inputs, with other nodes and with their retries.  (With
\* prune_old_manifests a slow node may win the put of an id that was freed.)
AckedFlushesLive ==
    "prune" \notin ops => \A h \in DOMAIN store : IsLatest(h) =>
        \A f \in acked : HoldsOnce(store[h], f)

\* Zombie fencing as the documentation has it: a flush commits only for the
\* node holding the highest writer epoch; whatever a node that has been taken
\* over still tries to commit is rejected.  validate_epoch compares only the
\* compactor's epoch for a compaction, and apply then writes the superseded
\* node's writer epoch into the manifest: after that its flushes pass too.
FencedFlush ==
    [][\A n \in Nodes : op[n] = "flush" /\ PutOk(n) =>
          \A m \in Nodes : wEpoch[m] <= wEpoch[n]]_vars

\* What the epoch check of update() does guarantee: a version that brings in a
\* flushed table, on whichever of the nodes, after whatever retries, prunes,
\* crashes and compactions, never has a lower writer epoch than the version it
\* follows.
FlushKeepsEpoch ==
    [][\A h \in DOMAIN store, g \in DOMAIN store' :
          /\ IsLatest(h) /\ IsLatest(g)'
          /\ \E t \in store'[g].ssts \ store[h].ssts : t.level = 0
          => store[h].wEpoch <= store'[g].wEpoch]_vars

\* last_flushed_sequence of the latest manifest never decreases, and pruning
\* or a late writer never makes an older manifest the latest one: recovery
\* never replays less than an earlier recovery would have.
LatestNeverRegresses ==
    [][\A h \in DOMAIN store, g \in DOMAIN store' :
          IsLatest(h) /\ IsLatest(g)' =>
            /\ h <= g
            /\ store[h].lastFlushed <= store'[g].lastFlushed]_vars

\* Pruning keeps two snapshots to roll back to, also when several nodes prune
\* at once, each with the listing it took.
TwoSnapshotsRetained ==
    [][Cardinality(Snapshots) >= 2 => Cardinality(Snapshots') >= 2]_vars

-----------------------------------------------------------------------------
(* What the properties rest on: the history in the store and what a node in  *)
(* the middle of an operation knows about it.                                *)

\* Whatever pruning still has to delete, on any node, is older than two of the
\* snapshots in the store.
TwoAboveDoomed ==
    /\ IsFiniteSet(DOMAIN store)
    /\ (\E n \in Nodes : doomed[n] # {}) =>
          \E c, s \in Snapshots :
            c < s /\ \A n \in Nodes : \A i \in doomed[n] : i < c

\* There is a latest version, no cached one is beyond it, and a node that has
\* cached the latest id has cached the latest version.  With pruning this is
\* not so of older ids: a slow node may create one that pruning has freed.
LatestKnown ==
    /\ DOMAIN store = {} =>
          \A n \in Nodes : pc[n] # "put" /\ ~Opened(n) /\ current[n] = new_empty
    /\ DOMAIN store # {} => \E h \in DOMAIN store : IsLatest(h)
    /\ 0 \in DOMAIN store => store[0] = new_empty
    /\ \A h \in DOMAIN store : IsLatest(h) => \A n \in Nodes :
          current[n].id <= h /\ (current[n].id = h => current[n] = store[h])

\* Without pruning the ids in use have no gaps, and id 0 is the empty manifest.
NoGaps ==
    /\ \A n \in Nodes : pc[n] # "delete"
    /\ \A i \in DOMAIN store : 0 .. i \subseteq DOMAIN store
    /\ 0 \in DOMAIN store => store[0] = new_empty

\* A cached manifest is one of the history's versions, or still the one
\* ManifestManager::new made up; whoever puts or owns an epoch has read one.
CachedIsStored ==
    \A n \in Nodes :
        /\ current[n] = new_empty \/ current[n].id \in DOMAIN store
        /\ current[n].id \in DOMAIN store => store[current[n].id] = current[n]
        /\ pc[n] = "put" \/ Opened(n) => current[n].id \in DOMAIN store

\* What is about to be put does not move last_flushed_sequence back.
PutIsApplicable ==
    \A n \in Nodes : pc[n] = "put" => apply_ok(upd[n], current[n])

HistoryInv == NoGaps /\ CachedIsStored /\ PutIsApplicable

\* An operation that commits tables, and what it is about to commit: a flush
\* adds the table of its memtable, a compaction the merge of what it removes,
\* an acquisition nothing but the epoch it raised.
Commits(n) == op[n] \in {"flush", "compact"}

UpdateAsBuilt ==
    \A n \in Nodes :
        /\ pc[n] = "idle" => op[n] = "load"
        /\ pc[n] = "put" => Commits(n) \/ op[n] \in {"acquireW", "acquireC"}
        /\ pc[n] = "put" /\ ~Commits(n) =>
              upd[n] = AcquireUpdate(op[n], current[n])
        /\ pc[n] = "put" /\ op[n] = "flush" =>
              check_writer_epoch(n, current[n])
        /\ op[n] = "flush" =>
              /\ upd[n].trigger = "Flush" /\ upd[n].wEpoch = wEpoch[n]
              /\ upd[n].remove = {}
              /\ \E t \in upd[n].add :
                   upd[n].add = {t} /\ t.flushes = {t.id}
        /\ op[n] = "compact" =>
              /\ upd[n].remove # {} /\ upd[n].seq = NoSeq
              /\ \E t \in upd[n].add :
                   /\ upd[n].add = {t} /\ t.level = 1
                   /\ t.flushes = UNION {u.flushes : u \in upd[n].remove}

\* The versions in the store and in the nodes' caches; with pruning a cached
\* one may be gone from the store.
Versions == {store[i] : i \in DOMAIN store} \cup {current[n] : n \in Nodes}

\* The ids of pending tables have been handed out, each to one operation, and
\* are new to every version.
PendingAreNew ==
    /\ \A v \in Versions : \A t \in v.ssts :
          t.id < fresh /\ \A f \in t.flushes : f < fresh
    /\ \A n \in Nodes : Commits(n) => \A u \in upd[n].add :
          /\ u.id < fresh
          /\ \A v \in Versions : \A t \in v.ssts :
                t.id # u.id /\ u.id \notin t.flushes
          /\ \A m \in Nodes : Commits(m) /\ m # n =>
                \A v \in upd[m].add : v.id # u.id

\* The tables of a version have distinct ids and share no flush.
VersionsExclusive ==
    \A i \in DOMAIN store : \A t, u \in store[i].ssts :
        t.id = u.id \/ t.flushes \cap u.flushes # {} => t = u

\* Before the first manifest there is no object, and nothing is acknowledged.
AckedAreStored == 0 \notin DOMAIN store => store = <<>> /\ acked = {}

\* Without pruning this is inductive, with HistoryInv and what is known of the
\* pending updates, and it yields AckedFlushesLive.
ContentsInv == VersionsExclusive /\ AckedAreStored /\ AckedFlushesLive

\* The latest version, as the refinement of AtomicManifest sees it.
Live ==
    IF DOMAIN store = {} THEN new_empty
    ELSE store[CHOOSE h \in DOMAIN store : IsLatest(h)]

Atomic == INSTANCE AtomicManifest WITH
            ssts <- Live.ssts, lastFlushed <- Live.lastFlushed,
            wEpoch <- Live.wEpoch, cEpoch <- Live.cEpoch

\* The object store, the cached manifests, the CAS loops and the pruners
\* together behave as one manifest whose updates are atomic.
ImplementsAtomicManifest == Atomic!Spec

=============================================================================
