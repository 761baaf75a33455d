------------------------------ MODULE MCKCore --------------------------------
(* Small instances of KCore for TLC. *)
EXTENDS KCore, SmallGraphs

Complete(V) == {e \in V \X V : e[1] < e[2]}

(***************************************************************************)
(* Three graphs that are large enough for shards to be redistributed and   *)
(* for k to be raised too far: in the first one 5 has coreness 3, below    *)
(* the smallest degree of the others when 6 is gone.                       *)
(***************************************************************************)
RaisedTooFar == Complete(0..4) \cup {<<5, 0>>, <<5, 1>>, <<5, 2>>, <<5, 6>>}
Star         == {<<0, v>> : v \in 1..6}
TwoHubs      == {<<h, v>> : h \in {0, 1}, v \in 2..6}

(***************************************************************************)
(* They, and all graphs that leave 5 and 6 isolated.  The vertices are     *)
(* alike, so it is enough to take them in the order of their degrees.      *)
(***************************************************************************)
InOrder(g) ==
  \A v \in 1..4 : Cardinality({e \in g : e[1] = v}) <= Cardinality({e \in g : e[1] = v - 1})

ManyGraphs ==
  {g \in SymmetricGraphs(0..4) : InOrder(g)}
    \cup {Undirected(S) : S \in {RaisedTooFar, Star, TwoHubs}}

=============================================================================
