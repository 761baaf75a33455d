----------------------------- MODULE MCIndexSet -----------------------------
(* Small instances of IndexSet and IndexSetQueries for TLC. *)
EXTENDS IndexSetQueries, TLC

Symmetry == Permutations(Threads)

=============================================================================
