------------------------------- MODULE MCPool -------------------------------
(* Small instances of Pool for TLC. *)
EXTENDS Pool, TLC

Symmetry == Permutations(Workers) \cup Permutations(Arrays) \cup Permutations(Blocks)

=============================================================================
