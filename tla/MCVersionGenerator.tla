-------------------------- MODULE MCVersionGenerator --------------------------
(* Instances of VersionGenerator for TLC. *)
EXTENDS VersionGenerator
=============================================================================
