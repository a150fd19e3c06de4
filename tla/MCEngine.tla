------------------------------- MODULE MCEngine -------------------------------
(* Instances of Engine for TLC. *)
EXTENDS Engine, TLC

KeySymmetry == Permutations(Keys)

Calm == [maxBatch |-> 0, rotation |-> FALSE, flushFaults |-> FALSE,
         cancellation |-> FALSE, maxWrites |-> 3, maxRestarts |-> 0]

\* Single writes: one segment per process lifetime, several lifetimes.
Restarts == [Calm EXCEPT !.cancellation = TRUE, !.maxRestarts = 2]

\* Single writes and every fault there is.
SingleFaults == [Calm EXCEPT !.rotation = TRUE, !.flushFaults = TRUE,
                             !.cancellation = TRUE]

\* Batches and single writes, over segments that may rotate: dropped requests
\* in one lifetime, and restarts.
Batches == [Calm EXCEPT !.rotation = TRUE, !.cancellation = TRUE,
                        !.maxBatch = 2]
BatchRestarts == [Calm EXCEPT !.rotation = TRUE, !.maxBatch = 2,
                              !.maxRestarts = 1]

\* Everything at once, for two writes.
Everything == [Calm EXCEPT !.rotation = TRUE, !.flushFaults = TRUE,
                           !.cancellation = TRUE, !.maxBatch = 2,
                           !.maxWrites = 2, !.maxRestarts = 1]

AllScenarios == {Restarts, SingleFaults, Batches, BatchRestarts, Everything}

\* Segments that rotate, over three lifetimes.
RotatingRestarts ==
    {[Calm EXCEPT !.rotation = TRUE, !.maxWrites = 4, !.maxRestarts = 2]}

=============================================================================
