----------------------------- MODULE GroupCommit -----------------------------
(***************************************************************************)
(* The WAL's group commit: requests wait in a bounded channel, one task    *)
(* takes as many as fit into a commit window, appends them to the current  *)
(* segment in one write, fsyncs and notifies the waiters.  A failing write *)
(* or fsync ends the task, and with it every request still waiting.        *)
(*                                                                         *)
(* Sizes are counted in entries.  Time matters only to BATCH_SYNC: a Tick  *)
(* is one unit of batch_sync_interval, and it passes only while the loop   *)
(* has nothing to do, so delays are never the model's.                     *)
(***************************************************************************)
EXTENDS Integers, SequencesExt, WalSegment

CONSTANTS
    Requests,       \* put and put_batch calls
    Size(_),        \* how many WAL entries a request submits
    Capacity,       \* mpsc::channel's bound
    MaxBytes,       \* group_commit_max_bytes
    Modes,          \* the values of fsync_mode to consider
    SyncInterval,   \* batch_sync_interval
    Failures        \* may a write or an fsync fail in this run?

ASSUME ConstantsAssumption ==
    /\ \A r \in Requests : Size(r) \in Nat
    /\ Capacity \in Nat \ {0}
    /\ MaxBytes \in Nat \ {0}
    /\ Modes \subseteq {"Sync", "BatchSync"}
    /\ SyncInterval \in Nat \ {0}
    /\ Failures \in BOOLEAN

VARIABLES
    mode,         \* config.fsync_mode
    queue,        \* the channel
    closed,       \* has WalManager::shutdown dropped the sender?
    pc,           \* where commit_loop is
    entries,      \* the entries of the commit window
    notifiers,    \* the requests of the commit window still to be notified
    hasUnsynced,  \* has_unsynced
    log,          \* entries appended to the segments, in order
    synced,       \* how many of them have been fsynced
    base,         \* how many of them are in segments that have been rotated
    recovered,    \* after a crash: what the next process replays
    answers,      \* per request: "none", "wait", "ok" or "err"
    order,        \* history: the requests in the order the channel took them
    idle          \* how long the current recv has been waiting

segments == <<base, recovered>>

vars == <<mode, queue, closed, pc, entries, notifiers, hasUnsynced, log,
          synced, segments, answers, order, idle>>

loop == <<mode, pc, entries, notifiers, hasUnsynced, log, synced,
          segments, idle>>

-----------------------------------------------------------------------------
(* Data *)

\* The entries of request r, known by the request and their place in it.
EntriesOf(r) == [i \in 1 .. Size(r) |-> <<r, i>>]

Answer(rs, answer) ==
    [r \in Requests |-> IF r \in rs THEN answer ELSE answers[r]]

-----------------------------------------------------------------------------
(* GroupCommitBuffer *)

\* The channel's bound.
HasRoom == Len(queue) < Capacity

\* submit and submit_batch, once the channel has room.
Submit(r) ==
    /\ answers[r] = "none" /\ Size(r) > 0
    /\ ~closed /\ pc \notin {"dead", "crashed"} /\ HasRoom
    /\ queue' = Append(queue, r)
    /\ order' = Append(order, r)
    /\ answers' = Answer({r}, "wait")
    /\ UNCHANGED <<closed, loop>>

\* An empty batch is answered without the loop.
SubmitEmpty(r) ==
    /\ answers[r] = "none" /\ Size(r) = 0
    /\ ~closed /\ pc # "crashed"
    /\ answers' = Answer({r}, "ok")
    /\ UNCHANGED <<queue, closed, order, loop>>

\* The loop is gone: the send fails.
SubmitRefused(r) ==
    /\ answers[r] = "none" /\ Size(r) > 0
    /\ ~closed /\ pc = "dead"
    /\ answers' = Answer({r}, "err")
    /\ UNCHANGED <<queue, closed, order, loop>>

\* WalManager::shutdown drops the only sender.
Close ==
    /\ ~closed /\ pc # "crashed"
    /\ closed' = TRUE
    /\ UNCHANGED <<queue, answers, order, loop>>

-----------------------------------------------------------------------------
(* commit_loop *)

Recv ==
    /\ pc = "recv" /\ queue # <<>>
    /\ entries' = EntriesOf(Head(queue))
    /\ notifiers' = <<Head(queue)>>
    /\ queue' = Tail(queue)
    /\ pc' = "collect"
    /\ idle' = 0
    /\ UNCHANGED <<mode, segments, closed, hasUnsynced, log, synced, answers, order>>

\* try_recv while the window has room and is not over.
Collect ==
    /\ pc = "collect" /\ queue # <<>> /\ Len(entries) < MaxBytes
    /\ entries' = entries \o EntriesOf(Head(queue))
    /\ notifiers' = Append(notifiers, Head(queue))
    /\ queue' = Tail(queue)
    /\ UNCHANGED <<mode, segments, closed, pc, hasUnsynced, log, synced, answers, order,
                   idle>>

\* What follows the write: an fsync unless BATCH_SYNC leaves it to the timer.
\* The mutant notifies without.
AfterWrite_unsynced == "notify"
AfterWrite == IF mode = "Sync" THEN "sync" ELSE "notify"

\* The window is full, the channel empty or group_commit_interval over;
\* then append_batch, which fsyncs the segment if it goes on to rotate it.
Write ==
    /\ pc = "collect"
    /\ log' = log \o entries
    /\ \/ UNCHANGED <<synced, base>>
       \/ synced' = Len(log') /\ base' = Len(log')
    /\ pc' = AfterWrite
    /\ entries' = <<>>
    /\ UNCHANGED <<mode, recovered, queue, closed, notifiers, hasUnsynced, answers,
                   order, idle>>

\* Part of the window may have reached the file when the write fails; all of
\* it has, fsynced, when it is the next segment that cannot be created.
WriteFails ==
    /\ Failures
    /\ pc = "collect"
    /\ \/ /\ \E n \in 0 .. Len(entries) : log' = log \o SubSeq(entries, 1, n)
          /\ UNCHANGED synced
       \/ log' = log \o entries /\ synced' = Len(log')
    /\ pc' = "fail"
    /\ entries' = <<>>
    /\ UNCHANGED <<mode, segments, queue, closed, notifiers, hasUnsynced, answers,
                   order, idle>>

Sync ==
    /\ pc = "sync"
    /\ synced' = Len(log)
    /\ pc' = "notify"
    /\ UNCHANGED <<mode, segments, queue, closed, entries, notifiers, hasUnsynced, log,
                   answers, order, idle>>

SyncFails ==
    /\ Failures
    /\ pc = "sync"
    /\ pc' = "fail"
    /\ UNCHANGED <<mode, segments, queue, closed, entries, notifiers, hasUnsynced, log,
                   synced, answers, order, idle>>

\* Mutant of Notify: has_unsynced is not set.
Notify_nothing_unsynced ==
    /\ pc = "notify"
    /\ IF notifiers = <<>>
       THEN pc' = "recv" /\ UNCHANGED <<notifiers, answers>>
       ELSE /\ answers' = Answer({Head(notifiers)}, "ok")
            /\ notifiers' = Tail(notifiers)
            /\ UNCHANGED pc
    /\ UNCHANGED <<mode, segments, queue, closed, entries, log, synced, order, idle,
                   hasUnsynced>>

\* The waiters are notified one by one; then the next window.
Notify ==
    /\ pc = "notify"
    /\ IF notifiers = <<>>
       THEN /\ pc' = "recv"
            /\ hasUnsynced' = (mode = "BatchSync")
            /\ UNCHANGED <<notifiers, answers>>
       ELSE /\ answers' = Answer({Head(notifiers)}, "ok")
            /\ notifiers' = Tail(notifiers)
            /\ UNCHANGED <<pc, hasUnsynced>>
    /\ UNCHANGED <<mode, segments, queue, closed, entries, log, synced, order, idle>>

\* Mutant of Die: nobody answers what is left in the channel.
Die_leaving_waiters(failed) ==
    /\ pc' = "dead"
    /\ answers' = Answer(failed, "err")
    /\ queue' = <<>>
    /\ notifiers' = <<>>

\* The task ends: requests left in the channel lose their notifiers.
Die(failed) ==
    /\ pc' = "dead"
    /\ answers' = Answer(ToSet(queue) \cup failed, "err")
    /\ queue' = <<>>
    /\ notifiers' = <<>>

\* Mutant of NotifyFailure: the loop goes on after an error.
NotifyFailure_continuing ==
    /\ pc = "fail"
    /\ answers' = Answer(ToSet(notifiers), "err")
    /\ notifiers' = <<>>
    /\ pc' = "recv"
    /\ UNCHANGED <<mode, segments, queue, closed, entries, hasUnsynced, log, synced,
                   order, idle>>

NotifyFailure ==
    /\ pc = "fail"
    /\ Die(ToSet(notifiers))
    /\ UNCHANGED <<mode, segments, closed, entries, hasUnsynced, log, synced, order,
                   idle>>

\* BATCH_SYNC: recv timed out.
TimerSync ==
    /\ pc = "recv" /\ queue = <<>> /\ hasUnsynced /\ idle = SyncInterval
    /\ synced' = Len(log)
    /\ hasUnsynced' = FALSE
    /\ idle' = 0
    /\ UNCHANGED <<mode, segments, queue, closed, pc, entries, notifiers, log, answers,
                   order>>

TimerSyncFails ==
    /\ Failures
    /\ pc = "recv" /\ queue = <<>> /\ hasUnsynced /\ idle = SyncInterval
    /\ Die({})
    /\ UNCHANGED <<mode, segments, closed, entries, hasUnsynced, log, synced, order,
                   idle>>

\* The channel is closed and drained: what is unsynced is synced.
Drain ==
    /\ pc = "recv" /\ queue = <<>> /\ closed
    /\ synced' = IF hasUnsynced THEN Len(log) ELSE synced
    /\ pc' = "drained"
    /\ UNCHANGED <<mode, segments, queue, closed, entries, notifiers, hasUnsynced, log,
                   answers, order, idle>>

DrainFails ==
    /\ Failures
    /\ pc = "recv" /\ queue = <<>> /\ closed /\ hasUnsynced
    /\ Die({})
    /\ UNCHANGED <<mode, segments, closed, entries, hasUnsynced, log, synced, order,
                   idle>>

\* Time passes while the loop waits in recv with its timer running.
Tick ==
    /\ pc = "recv" /\ queue = <<>> /\ ~closed
    /\ hasUnsynced /\ idle < SyncInterval
    /\ idle' = idle + 1
    /\ UNCHANGED <<mode, segments, queue, closed, pc, entries, notifiers, hasUnsynced,
                   log, synced, answers, order>>

-----------------------------------------------------------------------------
(* Crashes *)

\* The segments rotated so far, and the current one as the window being
\* written would make it.
Closed == [header |-> TRUE, cells |-> Cells(SubSeq(log, 1, base))]
Current == Cells(SubSeq(log, base + 1, Len(log)) \o entries)
CellsUpTo(n) == IF n > base THEN 3 * (n - base) ELSE 0

Crashed(cause, header, cells) ==
    /\ pc' = "crashed"
    /\ recovered' = [cause |-> cause, header |-> header,
                     result |-> replay_all(<<Closed, [header |-> header, cells |-> cells]>>)]
    /\ UNCHANGED <<mode, queue, closed, entries, notifiers, hasUnsynced, log, synced,
                   base, answers, order, idle>>

\* The process is killed, perhaps in the middle of a write or of creating the
\* segment that follows it; what it has written stays in the page cache.
Kill ==
    /\ pc # "crashed"
    /\ \/ \E cells \in Torn(Current, CellsUpTo(Len(log))) : Crashed("kill", TRUE, cells)
       \/ pc = "collect" /\ Crashed("kill", FALSE, <<>>)

\* Power is lost: only what was fsynced is sure to be there.  The header of a
\* segment is fsynced with its first entries.
PowerLoss ==
    /\ pc # "crashed"
    /\ \/ \E cells \in Damage(Current, CellsUpTo(synced)) : Crashed("power", TRUE, cells)
       \/ synced <= base /\ Crashed("power", FALSE, <<>>)

-----------------------------------------------------------------------------
Init ==
    /\ mode \in Modes
    /\ queue = <<>> /\ closed = FALSE
    /\ pc = "recv" /\ entries = <<>> /\ notifiers = <<>>
    /\ hasUnsynced = FALSE
    /\ log = <<>> /\ synced = 0 /\ base = 0
    /\ recovered = [cause |-> "none", header |-> TRUE, result |-> replay_all(<<>>)]
    /\ answers = [r \in Requests |-> "none"]
    /\ order = <<>>
    /\ idle = 0

LoopStep ==
    \/ Recv \/ Collect \/ Write \/ WriteFails \/ Sync \/ SyncFails
    \/ Notify \/ NotifyFailure \/ TimerSync \/ TimerSyncFails \/ Drain
    \/ DrainFails \/ Tick

Next ==
    \/ \E r \in Requests : Submit(r) \/ SubmitEmpty(r) \/ SubmitRefused(r)
    \/ Close
    \/ LoopStep
    \/ Kill
    \/ PowerLoss

Spec == Init /\ [][Next]_vars

FairSpec == Spec /\ WF_vars(LoopStep)

-----------------------------------------------------------------------------
(* Properties *)

\* SYNC: when a write is acknowledged all its entries have been fsynced, also
\* around rotations and when a later window fails.
AckedAreSynced ==
    mode = "Sync" =>
        \A r \in Requests : answers[r] = "ok" =>
            ToSet(EntriesOf(r)) \subseteq {log[i] : i \in 1 .. synced}

\* Entry f comes right after entry e in the submission order: the next one of
\* the same request, or the first one of the request accepted next.
Follows(e, f) ==
    \/ e[2] < Size(e[1]) /\ f = <<e[1], e[2] + 1>>
    \/ e[2] = Size(e[1]) /\ \E i \in 1 .. Len(order) - 1 :
          order[i] = e[1] /\ f = <<order[i + 1], 1>>

Consecutive(s) == \A i \in 1 .. Len(s) - 1 : Follows(s[i], s[i + 1])

\* The log holds the requests' entries in the order they were accepted, from
\* the first one on and with nothing missing, repeated or swapped in between:
\* after a failed window nothing follows it.
LogInSubmissionOrder ==
    /\ log # <<>> => order # <<>> /\ log[1] = <<order[1], 1>>
    /\ Consecutive(log)

\* No acknowledged write follows one that was refused: whoever gets an answer
\* knows the fate of everything submitted before.
NoAckAfterFailure ==
    \A i, j \in DOMAIN order :
        i < j /\ answers[order[j]] = "ok" => answers[order[i]] = "ok"

\* What a crash leaves in the log is read back without gaps: the recovered
\* entries are a prefix of what was written, and every acknowledged write is
\* among them (in BATCH_SYNC: unless power was lost).  After a kill the log
\* can be read whenever its last segment has a header: what a write left half
\* done is never taken for corruption.
RecoversAcked ==
    pc = "crashed" =>
        /\ recovered.cause = "kill" /\ recovered.header => recovered.result.ok
        /\ recovered.result.ok =>
              /\ IsPrefix(recovered.result.entries, log \o entries)
              /\ \A r \in Requests :
                    answers[r] = "ok" /\ (mode = "Sync" \/ recovered.cause = "kill")
                    => ToSet(EntriesOf(r)) \subseteq ToSet(recovered.result.entries)

\* Every accepted request is answered, whatever fails, unless the process is
\* gone.
EveryoneAnswered ==
    \A r \in Requests :
        answers[r] = "wait" ~> answers[r] \in {"ok", "err"} \/ pc = "crashed"

\* Every acknowledged write is eventually fsynced unless the loop ended in an
\* error, also in BATCH_SYNC and at shutdown.
EventuallySynced ==
    \A r \in Requests : answers[r] = "ok" ~>
        \/ ToSet(EntriesOf(r)) \subseteq {log[i] : i \in 1 .. synced}
        \/ pc \in {"dead", "crashed"}

-----------------------------------------------------------------------------
(* What the properties rest on: where the loop is in the order of submission.  *)

TypeOK ==
    /\ mode \in Modes
    /\ queue \in Seq(Requests) /\ notifiers \in Seq(Requests)
    /\ order \in Seq(Requests)
    /\ pc \in {"recv", "collect", "sync", "notify", "fail", "drained", "dead",
               "crashed"}
    /\ entries \in Seq(Requests \X Nat) /\ log \in Seq(Requests \X Nat)
    /\ synced \in 0 .. Len(log)
    /\ answers \in [Requests -> {"none", "wait", "ok", "err"}]

\* How many of the submitted requests the loop has taken from the channel, and
\* how many of these it has answered.
Taken == Len(order) - Len(queue)
Answered == Taken - Len(notifiers)

\* The submitted requests are distinct and not empty.
OrderInv ==
    /\ \A i, j \in 1 .. Len(order) : order[i] = order[j] => i = j
    /\ \A r \in Requests : answers[r] = "none" =>
          \A i \in 1 .. Len(order) : order[i] # r
    /\ \A i \in 1 .. Len(order) : Size(order[i]) > 0
    /\ \A r \in Requests : answers[r] = "ok" /\ Size(r) > 0 =>
          \E i \in 1 .. Len(order) : order[i] = r

\* While the loop runs, the notifiers and then the channel are the end of the
\* order, and exactly what comes before has been acknowledged.
Waiting ==
    /\ Answered >= 0
    /\ \A i \in 1 .. Len(queue) : queue[i] = order[Taken + i]
    /\ \A i \in 1 .. Len(notifiers) : notifiers[i] = order[Answered + i]
    /\ \A i \in 1 .. Len(order) : answers[order[i]] = "ok" <=> i <= Answered

\* Once it has ended, a first part of the order is acknowledged.
AckedFirst ==
    \E a \in 0 .. Len(order) : \A i \in 1 .. Len(order) :
        answers[order[i]] = "ok" <=> i <= a

\* s ends with the last entry of the n-th request, and holds all entries of
\* the requests after the m-th up to it.
EndsWith(s, n) ==
    IF n = 0 THEN s = <<>>
    ELSE s # <<>> /\ s[Len(s)] = <<order[n], Size(order[n])>>

Holds(s, m, n) ==
    \A i \in m + 1 .. n : \A k \in 1 .. Size(order[i]) :
        \E j \in 1 .. Len(s) : s[j] = <<order[i], k>>

\* The log ends with what was taken from the channel, except for the window
\* that is being collected.
LogInv ==
    /\ pc \in {"recv", "sync", "notify", "drained"} =>
          EndsWith(log, Taken) /\ Holds(log, 0, Taken)
    /\ pc = "collect" =>
          /\ EndsWith(log, Answered) /\ Holds(log, 0, Answered)
          /\ EndsWith(entries, Taken) /\ Holds(entries, Answered, Taken)
          /\ Consecutive(entries)
          /\ Taken > Answered /\ entries[1] = <<order[Answered + 1], 1>>
    /\ pc \in {"recv", "drained"} => notifiers = <<>>
    /\ mode = "Sync" /\ pc = "notify" => synced = Len(log)

\* Inductive, and yields AckedAreSynced, LogInSubmissionOrder and
\* NoAckAfterFailure.
LoopInv ==
    /\ TypeOK /\ OrderInv
    /\ pc \notin {"dead", "crashed"} => Waiting
    /\ AckedFirst /\ LogInv /\ LogInSubmissionOrder /\ AckedAreSynced

\* What a crash finds: what was rotated has been fsynced, and the entries of
\* every acknowledged request are in the log.
SegmentsInv == base \in 0 .. synced

AckedLogged ==
    \A r \in Requests : answers[r] = "ok" =>
        \A k \in 1 .. Size(r) : \E j \in 1 .. Len(log) : log[j] = <<r, k>>

\* Inductive with LoopInv.
CrashInv == SegmentsInv /\ AckedLogged /\ RecoversAcked

=============================================================================
