------------------------------ MODULE SmallGraphs ------------------------------
(* Sets of small graphs for TLC: a graph is a set of edges <<s, d>> without *)
(* loops, the vertices are numbers.                                         *)
EXTENDS Integers

Undirected(S) == S \cup {<<e[2], e[1]>> : e \in S}

(* All symmetric graphs on V. *)
SymmetricGraphs(V) == {Undirected(S) : S \in SUBSET {e \in V \X V : e[1] < e[2]}}

(* All graphs on V with no edge back to the source 0. *)
GraphsFromSource(V) == SUBSET {e \in V \X V : e[1] # e[2] /\ e[2] # 0}

(* A path from the source 0 over 1 to 2, and after it forward edges and two *)
(* that lead back: up to five edges deep.                                   *)
DeepGraphs ==
  {S \cup {<<0, 1>>, <<1, 2>>} :
     S \in SUBSET ({e \in (2..5) \X (2..5) : e[1] < e[2]} \cup {<<5, 2>>, <<4, 3>>})}

=============================================================================
