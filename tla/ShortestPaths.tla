--------------------------- MODULE ShortestPaths ---------------------------
(***************************************************************************)
(* What the shortest path algorithms compute: weighted directed graphs,    *)
(* sums that saturate at the largest value, and the distance from a source *)
(* by definition, as the least length of a walk of fewer than n edges.     *)
(***************************************************************************)
EXTENDS Words

CONSTANTS
  Max,        \* numeric_limits<T>::max(): not reachable
  source,
  Graphs,     \* graphs to try: sets of edges <<s, d, w>>, self-loops and cycles included
  Threads

ASSUME ShortestPathsAssumption ==
  /\ Max \in Nat \ {0} /\ source \in Indices
  /\ \A G \in Graphs : G \subseteq Indices \X Indices \X Nat

VARIABLES
  dist,       \* the array both algorithms lower
  graph

(* d + w, or Max when it would pass Max. *)
Plus(d, w) == IF d > Max - w THEN Max ELSE d + w

OutEdges(G, s) == {e \in G : e[1] = s}
InEdges(G, s)  == {e \in G : e[2] = s}

(* The least length of a walk of at most m edges to each vertex. *)
WalkDistances(G, m) ==
  LET walks[k \in 0..m] ==
        IF k = 0 THEN [v \in Indices |-> IF v = source THEN 0 ELSE Max]
        ELSE LET shorter == walks[k - 1]
             IN  [v \in Indices |->
                    First({shorter[v]} \cup {Plus(shorter[e[1]], e[3]) : e \in InEdges(G, v)})]
  IN  walks[m]

Distances(G) == WalkDistances(G, n - 1)

=============================================================================
