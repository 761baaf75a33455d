--------------------------- MODULE MCBreadthFirst ----------------------------
(***************************************************************************)
(* Small instances of the two searches for TLC: a program that calls one   *)
(* of them on a graph; the array of the other one stays empty.             *)
(***************************************************************************)
EXTENDS BreadthFirstSearch, BreadthFirstTree, SmallGraphs, TLC

vars == <<control, dist, dist_and_parent>>

Init ==
  \/ SearchInit /\ dist_and_parent = <<>>
  \/ TreeInit /\ dist = <<>>

Next ==
  \/ SearchNext /\ UNCHANGED dist_and_parent
  \/ TreeNext /\ UNCHANGED dist

Spec == Init /\ [][Next]_vars

Symmetry == Permutations(Tasks)

ManyGraphs == SymmetricGraphs(0..3) \cup GraphsFromSource(0..3) \cup DeepGraphs

=============================================================================
