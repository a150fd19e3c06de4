----------------------------- MODULE Namespaces -----------------------------
(***************************************************************************)
(* The server process: namespaces with their partitions, the requests that *)
(* are routed to them, administration, background maintenance and the      *)
(* graceful shutdown, over restarts of the process.                        *)
(*                                                                         *)
(* A request looks its partition up and then waits for the partition's     *)
(* lock; in between, the namespace may be stopped, removed and created     *)
(* again.  What an engine does under the lock is one step here, except the *)
(* flush of a maintenance pass, which the shutdown may abort in the middle.*)
(* The engine is reduced to what is in memory, in the log and in tables:   *)
(* module Engine has its inside.                                           *)
(***************************************************************************)
EXTENDS Integers, Sequences, FiniteSets, SequencesExt

CONSTANTS
    Names,         \* names of namespaces
    DefaultNames,  \* the sequence of default_namespaces
    DefaultCount,  \* their partition_count
    Counts,        \* partition_count of other configurations
    Records,       \* record ids
    Hash,          \* record id -> hash of its partition key, or NoKey
    NoKey,         \* the strategy finds no partition key in the record id
    Clients,       \* requests in flight
    Scenarios,     \* what happens in a behaviour: records with
                   \*   calls        the administrative calls made
                   \*   maintenance  whether maintenance passes run
                   \*   clients      the clients that send requests
                   \*   maxWrites    bound: writes
                   \*   maxFaults    bound: failing opens, flushes and closes
                   \*   maxLives     bound: starts of the process
    MaxOpens       \* bound: partitions opened by a process

IsPowerOfTwo(n) == \E k \in 0..n : n = 2^k

\* NamespaceConfig::validate, as far as routing is concerned.
validate(count) == count > 0 /\ IsPowerOfTwo(count)

ASSUME NamespacesAssumption ==
    /\ IsFiniteSet(Names)
    /\ DefaultNames \in Seq(Names)
    /\ DefaultCount \in Nat /\ Counts \subseteq Nat
    /\ \A r \in Records : Hash[r] \in Nat \cup {NoKey}
    /\ MaxOpens \in Nat
    /\ Scenarios \subseteq
           [calls : SUBSET {"create", "delete", "update", "freeze"},
            maintenance : BOOLEAN, clients : SUBSET Clients,
            maxWrites : Nat, maxFaults : Nat, maxLives : Nat]

VARIABLES
    scenario,     \* the scenario of this behaviour
    server,       \* starting, serving, draining, stopping, stopped, failed
    namespaces,   \* NamespaceManager::namespaces
    insts,        \* every Partition opened by this process, by number
    wal,          \* partition directory -> writes in its log
    tables,       \* partition directory -> writes in tables of its manifest
    req,          \* client -> its request
    admin,        \* the administrative call in progress
    defaults,     \* default namespaces still to be created
    maint,        \* the maintenance task
    stopping,     \* partitions stop_all still has to stop
    nextWrite,    \* the next write
    acked,        \* history: acknowledged writes
    lost,         \* history: writes whose memtable was dropped by a flush
    skipped,      \* history: writes in the log that a recovery left there
    faults,       \* number of faults so far
    life          \* number of this process

durable == <<wal, tables>>
history == <<nextWrite, acked, lost, skipped, faults, life, scenario>>
vars == <<server, namespaces, insts, durable, req, admin, maint, stopping,
          defaults, history>>

-----------------------------------------------------------------------------
(* Partitions *)

\* The directories a namespace may use: one per partition.
Dirs == Names \X UNION {0 .. count - 1 : count \in Counts \cup {DefaultCount}}

OfRecord(ws, r) == {w \in ws : w.record = r}

\* Partition::open.  Which writes of the log a recovery brings back into the
\* memtable depends on their numbers and on last_flushed_sequence: module
\* Engine has the numbering, and shows that it may leave out writes that are in
\* no table.  Here it may bring back any part of the log.
Opened(dir, replayed) ==
    [dir |-> dir, state |-> "Active", mem |-> replayed, handles |-> tables[dir]]

\* Mutant: the state is not looked at.
is_writable_always(i) == TRUE
is_writable(i) == insts[i].state = "Active"
is_readable(i) == insts[i].state \in {"Active", "Frozen"}

\* The lock of partition i is not held over a suspended flush.
Free(i) == ~(maint.pc = "flushing" /\ maint.queue[1] = i)

\* Mutant: the table does not get into the manifest.
Flushed_uncommitted(i, state) ==
    /\ wal' = [wal EXCEPT ![insts[i].dir] = @ \ insts[i].mem]
    /\ insts' = [insts EXCEPT ![i].mem = {}, ![i].handles = @ \cup insts[i].mem,
                              ![i].state = state]
    /\ UNCHANGED <<tables, lost>>

\* The memtable of partition i is in a table, the manifest and the handles,
\* and no longer in the log.
Flushed(i, state) ==
    LET dir == insts[i].dir
        mem == insts[i].mem
    IN  /\ tables' = [tables EXCEPT ![dir] = @ \cup mem]
        /\ wal' = [wal EXCEPT ![dir] = @ \ mem]
        /\ insts' = [insts EXCEPT ![i].mem = {}, ![i].handles = @ \cup mem,
                                  ![i].state = state]
        /\ UNCHANGED lost

\* A flush that fails or is dropped: the memtable had been taken off the list
\* before, and the manifest may have been written.
FlushCut(i, mem, state) ==
    LET dir == insts[i].dir
    IN  /\ tables' \in {tables, [tables EXCEPT ![dir] = @ \cup mem]}
        /\ insts' = [insts EXCEPT ![i].mem = {}, ![i].state = state]
        /\ lost' = lost \cup mem

Fault == faults < scenario.maxFaults /\ faults' = faults + 1

\* Mutant: a partition is stopped without closing its engine.
stop_unflushed(i) ==
    /\ Free(i)
    /\ insts' = [insts EXCEPT ![i].state = "Stopped"]
    /\ UNCHANGED <<durable, lost>>

\* Partition::stop: Engine::close flushes what is in memory.
stop(i) == Free(i) /\ Flushed(i, "Stopped")

\* A close that fails; stop then leaves the state as it was.
CloseFails(i, state) ==
    /\ Free(i)
    /\ insts[i].mem # {}
    /\ Fault
    /\ FlushCut(i, insts[i].mem, state)
    /\ UNCHANGED wal
stop_fails(i) == CloseFails(i, insts[i].state)

-----------------------------------------------------------------------------
(* Administration, one call at a time: create_default_namespaces first *)

NoCall == [op |-> "none"]
MayCall(op) == server = "serving" /\ admin = NoCall /\ op \in scenario.calls

\* Mutant: an existing namespace is opened again.
MayCreate_again(n) == TRUE
MayCreate(n) == namespaces[n] = {}

CreateCall(n, count) == [op |-> "create", name |-> n, count |-> count, opened |-> <<>>]

\* create_namespace, up to the first await.
CreateNamespace(n, count) ==
    /\ MayCall("create")
    /\ validate(count)
    /\ MayCreate(n)
    /\ Len(insts) + count <= MaxOpens
    /\ admin' = CreateCall(n, count)
    /\ UNCHANGED <<server, namespaces, insts, durable, req, maint, stopping, defaults,
                   history>>

OpenPartition ==
    /\ admin.op = "create"
    /\ Len(admin.opened) < admin.count
    /\ LET dir == <<admin.name, Len(admin.opened)>>
       IN  \E replayed \in SUBSET wal[dir] :
               /\ insts' = Append(insts, Opened(dir, replayed))
               /\ skipped' = skipped \cup (wal[dir] \ (tables[dir] \cup replayed))
    /\ admin' = [admin EXCEPT !.opened = Append(@, Len(insts'))]
    /\ UNCHANGED <<server, namespaces, durable, req, maint, stopping, defaults,
                   nextWrite, acked, lost, faults, life, scenario>>

\* The open fails: the partitions opened so far are dropped.
OpenFails ==
    /\ admin.op = "create"
    /\ Len(admin.opened) < admin.count
    /\ Fault
    /\ admin' = NoCall
    /\ UNCHANGED <<server, namespaces, insts, durable, req, maint, stopping,
                   defaults, nextWrite, acked, skipped, lost, life, scenario>>

Entry(call) == {[count |-> call.count, router |-> call.count,
                 partitions |-> call.opened]}

InsertNamespace ==
    /\ admin.op = "create"
    /\ Len(admin.opened) = admin.count
    /\ namespaces' = [namespaces EXCEPT ![admin.name] = Entry(admin)]
    /\ admin' = NoCall
    /\ UNCHANGED <<server, insts, durable, req, maint, stopping, defaults,
                   history>>

\* delete_namespace collects the partitions and stops one after the other.
DeleteNamespace(n) ==
    /\ MayCall("delete")
    /\ \E entry \in namespaces[n] :
           admin' = [op |-> "delete", name |-> n, queue |-> entry.partitions]
    /\ UNCHANGED <<server, namespaces, insts, durable, req, maint, stopping, defaults,
                   history>>

DeleteStops ==
    /\ admin.op = "delete" /\ admin.queue # <<>>
    /\ \/ /\ stop(admin.queue[1])
          /\ admin' = [admin EXCEPT !.queue = Tail(@)]
          /\ UNCHANGED faults
       \/ stop_fails(admin.queue[1]) /\ admin' = NoCall
    /\ UNCHANGED <<server, namespaces, req, maint, stopping, defaults,
                   nextWrite, acked, skipped, life, scenario>>

RemoveNamespace ==
    /\ admin.op = "delete" /\ admin.queue = <<>>
    /\ namespaces' = [namespaces EXCEPT ![admin.name] = {}]
    /\ admin' = NoCall
    /\ UNCHANGED <<server, insts, durable, req, maint, stopping, defaults,
                   history>>

\* NamespaceConfig::can_update_from; the name and the strategy cannot change
\* either.
can_update_from(old, new) == old = new

\* update_namespace_config replaces the configuration, not the router.
UpdateConfig(n, count) ==
    /\ MayCall("update")
    /\ \E entry \in namespaces[n] :
           /\ can_update_from(entry.count, count)
           /\ namespaces' = [namespaces EXCEPT ![n] = {[entry EXCEPT !.count = count]}]
    /\ UNCHANGED <<server, insts, durable, req, admin, maint, stopping, defaults,
                   history>>

\* Partitions of the map.
Registered(i) ==
    \E n \in Names : \E entry \in namespaces[n] : \E k \in 1..Len(entry.partitions) :
        entry.partitions[k] = i

\* Partition::freeze and Partition::drain
Freeze(i) ==
    /\ MayCall("freeze") /\ Registered(i)
    /\ Free(i) /\ insts[i].state = "Active"
    /\ insts' = [insts EXCEPT ![i].state = "Frozen"]
    /\ UNCHANGED <<server, namespaces, durable, req, admin, maint, stopping, defaults,
                   history>>
Drain(i) ==
    /\ MayCall("freeze") /\ Registered(i)
    /\ Free(i) /\ insts[i].state = "Frozen"
    /\ \/ Flushed(i, "Draining") /\ UNCHANGED faults
       \/ CloseFails(i, "Draining")
    /\ UNCHANGED <<server, namespaces, req, admin, maint, stopping, defaults,
                   nextWrite, acked, skipped, life, scenario>>

-----------------------------------------------------------------------------
(* Requests *)

Idle == [op |-> "none"]

\* LocalPartitionRouter::route; the count is a power of two.
route(entry, r) == Hash[r] % entry.router

\* resolve_partition clones the handle of the partition.
Resolve(c, op, n, r) ==
    /\ server = "serving" /\ c \in scenario.clients /\ req[c] = Idle
    /\ Hash[r] # NoKey
    /\ \E entry \in namespaces[n] :
           req' = [req EXCEPT ![c] =
                     [op |-> op, record |-> r,
                      inst |-> entry.partitions[route(entry, r) + 1]]]
    /\ UNCHANGED <<server, namespaces, insts, durable, admin, maint, stopping, defaults,
                   history>>

Done(c) == req' = [req EXCEPT ![c] = Idle]

\* A write under the partition's lock, and perhaps the flush it triggers.  An
\* error of the flush is the answer to the write.
Write(c) ==
    LET i == req[c].inst
        w == [record |-> req[c].record, num |-> nextWrite]
        dir == insts[i].dir
        mem == insts[i].mem \cup {w}
    IN  /\ req[c].op = "put"
        /\ Free(i)
        /\ is_writable(i)
        /\ nextWrite <= scenario.maxWrites
        /\ nextWrite' = nextWrite + 1
        /\ \/ /\ wal' = [wal EXCEPT ![dir] = @ \cup {w}]
              /\ insts' = [insts EXCEPT ![i].mem = mem]
              /\ acked' = [acked EXCEPT ![dir] = @ \cup {w}]
              /\ UNCHANGED <<tables, lost, faults>>
           \/ /\ wal' = [wal EXCEPT ![dir] = @ \ insts[i].mem]
              /\ tables' = [tables EXCEPT ![dir] = @ \cup mem]
              /\ insts' = [insts EXCEPT ![i].mem = {}, ![i].handles = @ \cup mem]
              /\ acked' = [acked EXCEPT ![dir] = @ \cup {w}]
              /\ UNCHANGED <<lost, faults>>
           \/ /\ wal' = [wal EXCEPT ![dir] = @ \cup {w}]
              /\ Fault
              /\ FlushCut(i, mem, insts[i].state)
              /\ UNCHANGED acked
        /\ Done(c)
        /\ UNCHANGED <<server, namespaces, admin, maint, stopping, defaults, skipped, life,
                       scenario>>

\* Mutant: a write to a partition that is not active waits.
Refused_reads(i, op) == op = "get" /\ ~is_readable(i)

\* check_writable and check_readable
Refused(i, op) ==
    \/ op = "put" /\ ~is_writable(i)
    \/ op = "get" /\ ~is_readable(i)

\* Everything that is answered without a change: reads, writes the partition
\* does not accept, writes the engine rejects or that were done before.
Answer(c) ==
    /\ req[c] # Idle
    /\ Free(req[c].inst)
    /\ \/ Refused(req[c].inst, req[c].op)
       \/ req[c].op = "get" /\ is_readable(req[c].inst)
       \/ req[c].op = "put" /\ is_writable(req[c].inst)
    /\ Done(c)
    /\ UNCHANGED <<server, namespaces, insts, durable, admin, maint, stopping, defaults,
                   history>>

\* The client goes away while its request waits for the lock.
Disconnect(c) ==
    /\ req[c] # Idle
    /\ Done(c)
    /\ UNCHANGED <<server, namespaces, insts, durable, admin, maint, stopping, defaults,
                   history>>

-----------------------------------------------------------------------------
(* Maintenance *)

\* Every partition of every namespace, in the order of the map.
AllPartitions ==
    LET entries == UNION {namespaces[n] : n \in Names}
    IN  FlattenSeq([k \in 1..Cardinality(entries) |->
                        SetToSeq(entries)[k].partitions])

Asleep == [pc |-> "asleep", queue |-> <<>>]

\* The interval has passed; between two passes a shutdown ends the loop.
MaintStart ==
    /\ maint = Asleep /\ scenario.maintenance
    /\ server = "serving"
    /\ AllPartitions # <<>>
    /\ maint' = [pc |-> "running", queue |-> AllPartitions]
    /\ UNCHANGED <<server, namespaces, insts, durable, req, admin, stopping, defaults,
                   history>>

NextInPass ==
    maint' = IF Len(maint.queue) = 1 THEN Asleep
             ELSE [pc |-> "running", queue |-> Tail(maint.queue)]

\* The memtable is too young or empty.
MaintSkip ==
    /\ maint.pc = "running"
    /\ NextInPass
    /\ UNCHANGED <<server, namespaces, insts, durable, req, admin, stopping, defaults,
                   history>>

\* The partition's lock is taken and the memtable taken off the list.
MaintFlush ==
    /\ maint.pc = "running"
    /\ insts[maint.queue[1]].mem # {}
    /\ maint' = [maint EXCEPT !.pc = "flushing"]
    /\ UNCHANGED <<server, namespaces, insts, durable, req, admin, stopping, defaults,
                   history>>

MaintFlushed ==
    /\ maint.pc = "flushing"
    /\ Flushed(maint.queue[1], insts[maint.queue[1]].state)
    /\ NextInPass
    /\ UNCHANGED <<server, namespaces, req, admin, stopping, defaults,
                   nextWrite, acked, skipped, faults, life, scenario>>

\* An error ends the pass; the loop goes on with the next interval.
MaintFails ==
    /\ maint.pc = "flushing"
    /\ Fault
    /\ FlushCut(maint.queue[1], insts[maint.queue[1]].mem, insts[maint.queue[1]].state)
    /\ maint' = Asleep
    /\ UNCHANGED <<server, namespaces, wal, req, admin, stopping, defaults,
                   nextWrite, acked, skipped, life, scenario>>

Ended == [pc |-> "ended", queue |-> <<>>]

\* The task is aborted: a flush in progress is dropped where it is.
MaintAborted ==
    /\ server = "stopping" /\ maint # Ended
    /\ maint' = Ended
    /\ IF maint.pc = "flushing"
       THEN FlushCut(maint.queue[1], insts[maint.queue[1]].mem, insts[maint.queue[1]].state)
            /\ UNCHANGED wal
       ELSE UNCHANGED <<insts, durable, lost>>
    /\ UNCHANGED <<server, namespaces, req, admin, stopping, defaults,
                   nextWrite, acked, skipped, faults, life, scenario>>

-----------------------------------------------------------------------------
(* The server *)

\* create_default_namespaces: one after the other, errors are only logged.
CreateDefault ==
    /\ server = "starting" /\ admin = NoCall
    /\ defaults # <<>>
    /\ defaults' = Tail(defaults)
    /\ admin' = IF MayCreate(defaults[1]) /\ validate(DefaultCount)
                THEN CreateCall(defaults[1], DefaultCount) ELSE NoCall
    /\ UNCHANGED <<server, namespaces, insts, durable, req, maint, stopping, history>>

Start ==
    /\ server = "starting" /\ admin = NoCall /\ defaults = <<>>
    /\ server' = "serving"
    /\ UNCHANGED <<namespaces, insts, durable, req, admin, maint, stopping, defaults,
                   history>>

\* FlushDbServer::shutdown, or a signal: no new request is accepted.
Shutdown ==
    /\ server = "serving"
    /\ server' = "draining"
    /\ UNCHANGED <<namespaces, insts, durable, req, admin, maint, stopping, defaults,
                   history>>

\* serve_with_shutdown returns when the last request is answered; then the
\* maintenance task is aborted and stop_all begins.
Drained ==
    /\ server = "draining"
    /\ \A c \in Clients : req[c] = Idle
    /\ admin = NoCall
    /\ server' = "stopping"
    /\ stopping' = AllPartitions
    /\ UNCHANGED <<namespaces, insts, durable, req, admin, maint, defaults, history>>

StopNext ==
    /\ server = "stopping" /\ stopping # <<>>
    /\ \/ /\ stop(stopping[1])
          /\ stopping' = Tail(stopping)
          /\ UNCHANGED <<server, faults>>
       \/ /\ stop_fails(stopping[1])
          /\ server' = "failed"
          /\ stopping' = <<>>
    /\ UNCHANGED <<namespaces, req, admin, maint, defaults, nextWrite, acked, skipped,
                   life, scenario>>

Stopped ==
    /\ server = "stopping" /\ stopping = <<>>
    /\ server' = "stopped"
    /\ UNCHANGED <<namespaces, insts, durable, req, admin, maint, stopping, defaults,
                   history>>

\* The process ends, or is killed, and starts again.  A flush in progress
\* leaves its memtable behind in the log.
Restart ==
    /\ life < scenario.maxLives
    /\ life' = life + 1
    /\ IF maint.pc = "flushing"
       THEN LET i == maint.queue[1]
            IN  tables' \in {tables, [tables EXCEPT ![insts[i].dir] = @ \cup insts[i].mem]}
       ELSE UNCHANGED tables
    /\ server' = "starting"
    /\ defaults' = DefaultNames
    /\ namespaces' = [n \in Names |-> {}]
    /\ insts' = <<>>
    /\ req' = [c \in Clients |-> Idle]
    /\ admin' = NoCall
    /\ maint' = Asleep
    /\ stopping' = <<>>
    /\ UNCHANGED <<wal, nextWrite, acked, skipped, lost, faults, scenario>>

-----------------------------------------------------------------------------
Init ==
    /\ scenario \in Scenarios
    /\ server = "starting"
    /\ defaults = DefaultNames
    /\ namespaces = [n \in Names |-> {}]
    /\ insts = <<>>
    /\ wal = [d \in Dirs |-> {}]
    /\ tables = [d \in Dirs |-> {}]
    /\ req = [c \in Clients |-> Idle]
    /\ admin = NoCall
    /\ maint = Asleep
    /\ stopping = <<>>
    /\ nextWrite = 1
    /\ acked = [d \in Dirs |-> {}]
    /\ lost = {}
    /\ skipped = {}
    /\ faults = 0
    /\ life = 1

Administration ==
    \/ \E n \in Names, count \in Counts : CreateNamespace(n, count)
    \/ OpenPartition \/ OpenFails \/ InsertNamespace
    \/ \E n \in Names : DeleteNamespace(n)
    \/ DeleteStops \/ RemoveNamespace
    \/ \E n \in Names, count \in Counts : UpdateConfig(n, count)
    \/ \E i \in 1..Len(insts) : Freeze(i) \/ Drain(i)

Serve(c) == Write(c) \/ Answer(c)

Maintenance ==
    \/ MaintStart \/ MaintSkip \/ MaintFlush \/ MaintFlushed \/ MaintFails
    \/ MaintAborted

Process == CreateDefault \/ Start \/ Shutdown \/ Drained \/ StopNext \/ Stopped

Next ==
    \/ Administration
    \/ \E c \in Clients, op \in {"put", "get"}, n \in Names, r \in Records :
           Resolve(c, op, n, r)
    \/ \E c \in Clients : Serve(c) \/ Disconnect(c)
    \/ Maintenance
    \/ Process
    \/ Restart

Spec == Init /\ [][Next]_vars

\* Tasks that can go on do; the lock of a partition is handed on in the order
\* of the requests for it, so no one waits for it forever.
FairSpec ==
    /\ Spec
    /\ \A c \in Clients : SF_vars(Serve(c))
    /\ SF_vars(OpenPartition \/ InsertNamespace \/ DeleteStops \/ RemoveNamespace)
    /\ WF_vars(MaintSkip \/ MaintFlushed \/ MaintAborted)
    /\ WF_vars(CreateDefault \/ Start \/ Drained \/ StopNext \/ Stopped)

-----------------------------------------------------------------------------
(* Properties *)

\* A partition of a namespace that is being created.
Opening(i) ==
    admin.op = "create" /\ \E k \in 1..Len(admin.opened) : admin.opened[k] = i

\* A partition someone can still reach: by the map, a request or a call.
Reachable(i) ==
    \/ Registered(i)
    \/ \E c \in Clients : req[c] # Idle /\ req[c].inst = i
    \/ Opening(i)

\* No two engines that accept writes share a partition directory, however
\* requests, deletion and creation of a namespace interleave.
OneWriter ==
    \A i, j \in 1..Len(insts) :
        /\ is_writable(i) /\ is_writable(j) /\ Reachable(i) /\ Reachable(j)
        /\ insts[i].dir = insts[j].dir
        => i = j

\* An acknowledged write is in the log or in a table of its partition, unless
\* a flush of its memtable failed or was dropped: not after a stop, a deletion
\* of the namespace or a shutdown that stops half way.
AckedDurable ==
    \A d \in Dirs : acked[d] \ lost \subseteq wal[d] \cup tables[d]

\* What a request is routed to has every acknowledged write of the record,
\* whatever was stopped, deleted, created again or restarted since, except the
\* writes of dropped memtables and those a recovery left in the log; and the
\* configuration says among how many partitions requests are routed, which an
\* update must not change.
ServesAcked ==
    \A n \in Names, r \in Records : \A entry \in namespaces[n] :
        /\ entry.count = Len(entry.partitions) /\ entry.router = entry.count
        /\ Hash[r] # NoKey =>
              LET i == entry.partitions[route(entry, r) + 1]
                  dir == <<n, route(entry, r)>>
              IN  OfRecord(acked[dir], r) \ (lost \cup skipped)
                      \subseteq insts[i].mem \cup insts[i].handles

\* A shutdown that reports success has put every acknowledged write of the
\* registered namespaces into a table, unless a flush before it failed or was
\* dropped, or a recovery left the write in the log.
CleanStop ==
    server = "stopped" =>
        \A n \in Names : \A entry \in namespaces[n] : \A k \in 1..Len(entry.partitions) :
            /\ insts[entry.partitions[k]].state = "Stopped"
            /\ acked[<<n, k - 1>>] \ (lost \cup skipped) \subseteq tables[<<n, k - 1>>]

\* Every request is answered, whatever happens to its partition meanwhile.
RequestsEnd == \A c \in Clients : req[c] # Idle ~> req[c] = Idle

\* A shutdown ends, with a maintenance pass in progress too, unless the
\* process is killed.
ShutdownEnds == server = "draining" ~> server \in {"stopped", "failed", "starting"}

-----------------------------------------------------------------------------
(* What the properties rest on *)

WritesBefore(n) == [record : Records, num : 1 .. n - 1]
Instances(n) == [dir : Dirs, state : {"Active", "Frozen", "Draining", "Stopped"},
                 mem : SUBSET WritesBefore(n), handles : SUBSET WritesBefore(n)]

TypeOK ==
    LET writes == WritesBefore(nextWrite)
        handle == 1 .. Len(insts)
        count == Counts \cup {DefaultCount}
    IN  /\ scenario \in Scenarios
        /\ server \in {"starting", "serving", "draining", "stopping", "stopped", "failed"}
        /\ namespaces \in [Names -> SUBSET [count : count, router : count,
                                           partitions : Seq(handle)]]
        /\ insts \in Seq(Instances(nextWrite))
        /\ wal \in [Dirs -> SUBSET writes]
        /\ tables \in [Dirs -> SUBSET writes]
        /\ req \in [Clients -> {Idle} \cup [op : {"put", "get"}, record : Records,
                                            inst : handle]]
        /\ admin \in {NoCall}
              \cup [op : {"create"}, name : Names, count : count, opened : Seq(handle)]
              \cup [op : {"delete"}, name : Names, queue : Seq(handle)]
        /\ defaults \in Seq(Names)
        /\ maint \in [pc : {"asleep", "running", "flushing", "ended"}, queue : Seq(handle)]
        /\ maint.pc \in {"running", "flushing"} => maint.queue # <<>>
        /\ stopping \in Seq(handle)
        /\ nextWrite \in Nat \ {0}
        /\ acked \in [Dirs -> SUBSET writes]
        /\ lost \subseteq writes /\ skipped \subseteq writes
        /\ faults \in Nat
        /\ life \in Nat

\* Partition k of a namespace is the one of directory k, in the map and while
\* the namespace is created; a name has one entry, and none while it is created.
RoutingInv ==
    /\ \A n \in Names : \A entry \in namespaces[n] :
           /\ \A other \in namespaces[n] : other = entry
           /\ entry.count = Len(entry.partitions) /\ entry.router = entry.count
           /\ entry.count > 0
           /\ \A k \in 1..Len(entry.partitions) :
                  insts[entry.partitions[k]].dir = <<n, k - 1>>
    /\ admin.op = "create" =>
           /\ namespaces[admin.name] = {}
           /\ admin.count > 0 /\ Len(admin.opened) <= admin.count
           /\ \A k \in 1..Len(admin.opened) :
                  insts[admin.opened[k]].dir = <<admin.name, k - 1>>

Among(i, queue) == \E k \in 1..Len(queue) : queue[k] = i

\* A request that still holds a partition that is no longer in the map finds
\* it stopped.
RequestsInv ==
    \A c \in Clients :
        req[c] # Idle /\ is_writable(req[c].inst) => Registered(req[c].inst)

\* delete_namespace stops every partition before it removes the namespace.
DeleteInv ==
    admin.op = "delete" =>
        /\ \A k \in 1..Len(admin.queue) : Registered(admin.queue[k])
        /\ \A entry \in namespaces[admin.name] : \A k \in 1..Len(entry.partitions) :
               \/ insts[entry.partitions[k]].state = "Stopped"
               \/ Among(entry.partitions[k], admin.queue)

\* A maintenance pass may meet partitions that have left the map, empty.
MaintInv ==
    \A k \in 1..Len(maint.queue) :
        Registered(maint.queue[k]) \/ insts[maint.queue[k]].mem = {}

\* stop_all finds a process without requests and stops every partition.
ShutdownInv ==
    /\ stopping # <<>> => server = "stopping"
    /\ \A k \in 1..Len(stopping) : Registered(stopping[k])
    /\ server \in {"stopping", "stopped"} =>
           /\ admin = NoCall
           /\ \A c \in Clients : req[c] = Idle
           /\ \A i \in 1..Len(insts) :
                  Registered(i) => insts[i].state = "Stopped" \/ Among(i, stopping)

\* The log and the tables of a directory hold the acknowledged writes and
\* nothing else, but for writes of dropped memtables.
DirInv(d) ==
    /\ acked[d] \ lost \subseteq wal[d] \cup tables[d]
    /\ wal[d] \cup tables[d] \subseteq acked[d] \cup lost

\* An engine has the writes of its directory, with those that are in the log
\* alone in its memtable, but for what a recovery left there.
ServeInv(i) ==
    LET d == insts[i].dir
        known == insts[i].mem \cup insts[i].handles
    IN  /\ acked[d] \ (lost \cup skipped) \subseteq known
        /\ known \subseteq acked[d] \cup lost
        /\ wal[d] \ (tables[d] \cup lost \cup skipped) \subseteq insts[i].mem

DataInv ==
    /\ \A d \in Dirs : DirInv(d)
    /\ \A i \in 1..Len(insts) : Registered(i) \/ Opening(i) => ServeInv(i)
    /\ \A i \in 1..Len(insts) : insts[i].state = "Stopped" => insts[i].mem = {}

ControlInv == RoutingInv /\ RequestsInv /\ DeleteInv /\ MaintInv /\ ShutdownInv

NamespacesInv == TypeOK /\ ControlInv /\ DataInv

=============================================================================
