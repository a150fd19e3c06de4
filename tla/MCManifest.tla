------------------------------ MODULE MCManifest ------------------------------
(* Instances of Manifest for TLC. *)
EXTENDS Manifest, TLC

\* Commits that race, with answers that are lost; two pruners; restarts with
\* both kinds of epoch.
Racing   == {"acquireW", "flush", "compact", "puterror"}
Pruning  == {"acquireW", "flush", "compact", "prune"}
Restarts == {"load", "acquireW", "acquireC", "flush", "compact", "crash"}

MCWorkloads == {Racing, Pruning, Restarts}
MCMaxOps == [w \in MCWorkloads |-> IF w = Restarts THEN 5 ELSE 6]

\* What Engine does: an epoch at open, then flushes, each followed by a
\* compaction when one is due.
FencingWorkloads == {{"acquireW", "flush", "compact"}}
FencingMaxOps == [w \in FencingWorkloads |-> 5]

NodeSymmetry == Permutations(Nodes)
=============================================================================
