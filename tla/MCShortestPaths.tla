-------------------------- MODULE MCShortestPaths --------------------------
(***************************************************************************)
(* Small instances of Dijkstra and BellmanFord for TLC, and of the         *)
(* write_min on which both depend: a program that runs one of the two      *)
(* algorithms on a graph, or one whose threads call write_min.             *)
(***************************************************************************)
EXTENDS Dijkstra, BellmanFord, WriteMin

VARIABLE program

dijkstra     == <<flag, dirty, augval, phase, threshold, leaf, climber, held, inserted, called,
                  due, running, pushes, caller, state>>
bellman_ford == <<frontier, next_frontier, round, inside, job>>
vars         == <<program, graph, dist, dijkstra, bellman_ford, write_min_vars>>

DijkstraUnused ==
  /\ flag = [k \in Levels |-> {}] /\ dirty = flag
  /\ augval = [k \in Levels |-> [w \in Map!Nodes(k) |-> Max]]
  /\ phase = "clean" /\ threshold = 0 /\ leaf = <<>>
  /\ climber = [t \in Threads |-> Map!Idle]
  /\ held = {} /\ inserted = {} /\ called = {} /\ due = {}
  /\ running = {} /\ pushes = {} /\ caller = [t \in Threads |-> Nobody] /\ state = "start"

(* As in the middle of a round. *)
BellmanFordUnused ==
  /\ frontier = {} /\ next_frontier = {} /\ round = 0 /\ inside = TRUE
  /\ job = [t \in Threads |-> NoVertex]

Init ==
  /\ WriteMinInit
  /\ \/ program = "dijkstra" /\ DijkstraInit /\ BellmanFordUnused /\ address = 0
     \/ program = "bellman_ford" /\ BellmanFordInit /\ DijkstraUnused /\ address = 0
     \/ /\ program = "write_min" /\ graph = {} /\ dist = Distances(graph)
        /\ DijkstraUnused /\ BellmanFordUnused

Next ==
  /\ UNCHANGED program
  /\ \/ program = "dijkstra" /\ DijkstraNext /\ UNCHANGED <<bellman_ford, write_min_vars>>
     \/ program = "bellman_ford" /\ BellmanFordNext /\ UNCHANGED <<dijkstra, write_min_vars>>
     \/ /\ program = "write_min" /\ WriteMinNext
        /\ UNCHANGED <<graph, dist, dijkstra, bellman_ford>>

Spec == Init /\ [][Next]_vars

(* The workers go on with what they have been given, each thread inside a  *)
(* write_min on its own. *)
FairSpec ==
  Spec /\ WF_vars(Next) /\ \A t \in Writers : WF_write_min_vars(GoesOn(t))

-----------------------------------------------------------------------------
(* All graphs of the first 3 vertices with weights 0 and 1. *)
SmallWeights ==
  {{<<p[1], p[2], w[p]>> : p \in {q \in DOMAIN w : w[q] < 2}} :
     w \in [{p \in (0..2) \X (0..2) : p[1] # p[2]} -> 0..2]}

(***************************************************************************)
(* A path, and dense graphs in three layers: ties and edges of weight 0    *)
(* within a word and across words, longer paths of fewer edges, cycles,    *)
(* self-loops and parallel edges, an unreachable vertex, and sums that     *)
(* pass Max.                                                               *)
(***************************************************************************)
ChosenGraphs ==
  {{<<0, 1, 1>>, <<1, 2, 0>>, <<2, 3, 1>>, <<3, 4, 0>>},
   {<<0, 1, 1>>, <<0, 2, 1>>, <<0, 3, 2>>, <<0, 4, 1>>, <<1, 3, 0>>, <<2, 3, 1>>, <<4, 1, 0>>,
    <<4, 3, 1>>, <<3, 2, 0>>, <<1, 2, 0>>},
   {<<0, 4, 4>>, <<0, 1, 1>>, <<0, 2, 1>>, <<1, 2, 1>>, <<2, 3, 1>>, <<1, 3, 1>>, <<3, 4, 0>>,
    <<4, 0, 0>>, <<2, 2, 0>>, <<4, 1, 2>>},
   {<<0, 1, 0>>, <<0, 2, 0>>, <<0, 3, 0>>, <<2, 1, 0>>, <<3, 1, 0>>, <<3, 1, 2>>, <<1, 0, 0>>},
   {<<0, 2, 3>>, <<0, 1, 1>>, <<1, 3, 5>>, <<0, 4, 5>>, <<2, 4, 1>>},
   {<<0, 1, 3>>, <<0, 2, 3>>, <<1, 2, 3>>, <<2, 3, 2>>, <<1, 3, 4>>, <<3, 4, 3>>, <<0, 3, 5>>}}

ManyGraphs == SmallWeights \cup ChosenGraphs

(* Both algorithms end, dijkstra also over cycles of weight 0. *)
Terminates ==
  /\ program = "dijkstra" => <>Ended
  /\ program = "bellman_ford" => <>RoundsOver

=============================================================================
