----------------------------- MODULE MCNamespaces -----------------------------
(* Instances of Namespaces for TLC. *)
EXTENDS Namespaces

CONSTANTS a, r0, r1, rx

MCDefaults == <<a>>

\* Two records of different partitions, and one without a partition key.
MCHash == (r0 :> 2) @@ (r1 :> 3) @@ (rx :> NoKey)

\* A namespace that is deleted and created again under two clients.
Recreated == [calls |-> {"create", "delete", "update"}, maintenance |-> FALSE,
              clients |-> {1, 2}, maxWrites |-> 2, maxFaults |-> 0, maxLives |-> 1]

\* Maintenance and shutdown, with faults and a restart.
ShutDown == [calls |-> {}, maintenance |-> TRUE, clients |-> {1},
             maxWrites |-> 2, maxFaults |-> 1, maxLives |-> 2]

\* Partitions that are frozen, drained and stopped, with a fault.
FrozenFirst == [calls |-> {"delete", "freeze"}, maintenance |-> TRUE,
                clients |-> {1}, maxWrites |-> 1, maxFaults |-> 1, maxLives |-> 1]

MCScenarios == {Recreated, ShutDown, FrozenFirst}

=============================================================================
