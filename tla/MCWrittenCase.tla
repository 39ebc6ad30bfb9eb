----------------------------- MODULE MCWrittenCase -----------------------------
(* Small instances of WrittenCase for TLC. *)
EXTENDS WrittenCase, TLC

\* Requests of one side are interchangeable, and so are items.
Symmetry == Permutations(Staff) \cup Permutations(Visitors) \cup Permutations(Items)
=============================================================================
