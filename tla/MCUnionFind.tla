---------------------------- MODULE MCUnionFind -----------------------------
(* Small instances of UnionFind for TLC. *)
EXTENDS UnionFind, TLC

Symmetry == Permutations(Threads)

=============================================================================
