---------------------------- MODULE AtomicManifest ----------------------------
(***************************************************************************)
(* What the manifest promises to the engine: one current version, replaced *)
(* atomically.  A flush adds exactly one table that nobody has seen and    *)
(* never moves last_flushed_sequence back; a compaction swaps live tables  *)
(* for one that holds the same flushes; an epoch acquisition changes only  *)
(* its epoch.  Which node makes the change, how often it retried and what  *)
(* it had cached do not show.                                              *)
(***************************************************************************)
EXTENDS Integers

VARIABLES ssts, lastFlushed, wEpoch, cEpoch

avars == <<ssts, lastFlushed, wEpoch, cEpoch>>

Init ==
    /\ ssts = {}
    /\ lastFlushed = 0
    /\ wEpoch = 0
    /\ cEpoch = 0

Flush ==
    /\ \E t \in ssts' :
         /\ ssts' = ssts \cup {t}
         /\ \A u \in ssts : u.id # t.id /\ t.flushes \cap u.flushes = {}
    /\ lastFlushed' >= lastFlushed

Compact ==
    /\ \E t \in ssts' :
         LET inputs == ssts \ ssts'
         IN  /\ inputs # {}
             /\ ssts' = (ssts \ inputs) \cup {t}
             /\ \A u \in ssts : u.id # t.id
             /\ t.flushes = UNION {u.flushes : u \in inputs}
    /\ lastFlushed' = lastFlushed

AcquireEpoch ==
    /\ \/ wEpoch' = wEpoch + 1 /\ cEpoch' = cEpoch
       \/ cEpoch' = cEpoch + 1 /\ wEpoch' = wEpoch
    /\ UNCHANGED <<ssts, lastFlushed>>

Next == Flush \/ Compact \/ AcquireEpoch

Spec == Init /\ [][Next]_avars

=============================================================================
