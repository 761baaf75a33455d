---------------------------- MODULE MCGraphColoring ----------------------------
(* Small instances of GraphColoring for TLC. *)
EXTENDS GraphColoring, SmallGraphs, TLC

Symmetry == Permutations(Tasks)

AllGraphs == SymmetricGraphs(Vertices)

(* Renaming the vertices gives every other order. *)
OneHash == {[s \in Vertices |-> s]}

=============================================================================
