------------------------------- MODULE Worklist -------------------------------
(***************************************************************************)
(* What the searches expect of a LocalQueue and of the calls it hands its  *)
(* rest to: every vertex they find is searched, as often as it was found.  *)
(* It is what pending in BreadthFirst and work in KCore stand for.         *)
(***************************************************************************)
EXTENDS Integers

CONSTANT Nodes

VARIABLES
  degree,     \* out-edges of each vertex
  pending,    \* how often each vertex is still to be searched
  edges       \* edges left of the one that is being searched

vars == <<degree, pending, edges>>

Init ==
  /\ degree \in [Nodes -> Nat]
  /\ pending \in [Nodes -> Nat] /\ edges = 0

Search(v) ==
  /\ edges = 0 /\ pending[v] > 0
  /\ pending' = [pending EXCEPT ![v] = @ - 1]
  /\ edges' = degree[v]
  /\ UNCHANGED degree

(* An edge leads to a vertex that is to be searched, or to none. *)
Visit ==
  /\ edges > 0 /\ edges' = edges - 1
  /\ \/ UNCHANGED pending
     \/ \E d \in Nodes : pending' = [pending EXCEPT ![d] = @ + 1]
  /\ UNCHANGED degree

Next == Visit \/ \E v \in Nodes : Search(v)

Spec == Init /\ [][Next]_vars

=============================================================================
