---------------------------- MODULE MCGroupCommit ----------------------------
(* Instances of GroupCommit for TLC. *)
EXTENDS GroupCommit

CONSTANTS r1, r2, r3, r4

\* A single put, a batch of two, an empty batch and another put.
Sizes(r) == CASE r = r2 -> 2 [] r = r3 -> 0 [] OTHER -> 1
=============================================================================
