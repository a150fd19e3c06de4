------------------------------ MODULE MCReadPath ------------------------------
(* Instances of ReadPath for TLC. *)
EXTENDS ReadPath

\* The whole record, and a part of it.
MCRanges == {<<0, 4>>, <<2, 4>>}

\* An open end and a range that ends at an item.
MCCuts == {<<2, Unbounded>>, <<1, 3>>}

=============================================================================
