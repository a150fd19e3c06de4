----------------------------- MODULE MCCompaction -----------------------------
(* Instances of Compaction for TLC. *)
EXTENDS Compaction

\* Every output fragmented without a cache, and a cache without fragments.
SafeConfigs == {[fragSize |-> 1, caching |-> FALSE],
                [fragSize |-> 3, caching |-> TRUE]}

\* Fragments and a block cache together, as the server is configured.
FragmentsCached == {[fragSize |-> 1, caching |-> TRUE]}

=============================================================================
