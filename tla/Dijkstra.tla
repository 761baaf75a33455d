------------------------------ MODULE Dijkstra ------------------------------
(***************************************************************************)
(* dijkstra of shortest_path.h: an IndexMap over the distances hands out   *)
(* all vertices at the least distance, and while it extracts them their    *)
(* neighbours are lowered and inserted into the same map.                  *)
(*                                                                         *)
(* The map is the module IndexMap, instantiated with sequence <- dist; its *)
(* steps are taken with the threshold, the values and the indices dijkstra *)
(* gives it.  write_min is one step, as WriteMin implements AtomicMin.     *)
(***************************************************************************)
EXTENDS ShortestPaths

VARIABLES
  flag, dirty, augval, phase, threshold, leaf, climber,
  held, inserted, called, due,      \* those of IndexMap
  running,      \* vertices f was called on that have not read their distance
  pushes,       \* edges to relax, with the distance offered over them
  caller,       \* the vertex on whose behalf a thread inserts
  state         \* "start", "loop", "done"

Map == INSTANCE IndexMap WITH sequence <- dist

map  == <<dist, flag, dirty, augval, phase, threshold, leaf, climber, held, inserted, called, due>>
user == <<graph, running, pushes, caller, state>>
dijkstra_vars == <<map, user>>

Nobody == n

DijkstraInit ==
  /\ dist = [v \in Indices |-> Max] /\ Map!Init /\ Map!empty
  /\ graph \in Graphs
  /\ running = {} /\ pushes = {}
  /\ caller = [t \in Threads |-> Nobody]
  /\ state = "start"

(* dist[source] = 0, and the insertion of the source. *)
InsertSource(t) ==
  /\ state = "start"
  /\ Map!Lower(t, source, 0)
  /\ state' = "loop"
  /\ UNCHANGED <<graph, running, pushes, caller>>

-----------------------------------------------------------------------------
(* The loop: repair, and extract what is at the least distance. *)
Repair ==
  /\ state = "loop"
  /\ Map!Repair
  /\ UNCHANGED user

min_value == augval[Top][0]

ExtractMin ==
  /\ state = "loop" /\ min_value # Max
  /\ Map!ExtractMin(min_value)
  /\ UNCHANGED user

Break ==
  /\ state = "loop" /\ phase = "clean" /\ min_value = Max
  /\ state' = "done"
  /\ UNCHANGED <<map, graph, running, pushes, caller>>

Ended == state = "done"

Done == Ended /\ UNCHANGED dijkstra_vars

(* f has returned for the elements of leaf word w it was called on. *)
Returned(w) ==
  /\ \A s \in running : word_id(s) # w
  /\ \A p \in pushes : word_id(p.from) # w
  /\ \A t \in Threads : caller[t] # Nobody => word_id(caller[t]) # w

LeafTest(w) ==
  /\ Returned(w)
  /\ Map!LeafTest(w)
  /\ running' = running \cup (called' \ called)
  /\ UNCHANGED <<graph, pushes, caller, state>>

LeafKeep(w) == Returned(w) /\ Map!LeafKeep(w) /\ UNCHANGED user

Finish ==
  /\ running = {} /\ pushes = {}
  /\ Map!Finish
  /\ UNCHANGED user

-----------------------------------------------------------------------------
(* Bug for the mutation runs: the sum is not tested, and wraps. *)
OffersWrapped(s) ==
  {[from |-> s, to |-> e[2], offer |-> (dist[s] + e[3]) % (Max + 1)] : e \in OutEdges(graph, s)}

(* What s offers its out-neighbours. *)
Offers(s) ==
  {[from |-> s, to |-> e[2], offer |-> Plus(dist[s], e[3])] : e \in OutEdges(graph, s)}

(* f reads dist[s]; its edges are then relaxed in parallel. *)
Relax(s) ==
  /\ s \in running
  /\ running' = running \ {s}
  /\ pushes' = pushes \cup Offers(s)
  /\ UNCHANGED <<map, graph, caller, state>>

(* write_min, and if it has lowered the distance, insert. *)
Improve(t, p) ==
  /\ p \in pushes /\ climber[t] = Map!Idle
  /\ pushes' = pushes \ {p}
  /\ IF p.offer < dist[p.to]
       THEN /\ Map!Lower(t, p.to, p.offer)
            /\ caller' = [caller EXCEPT ![t] = p.from]
       ELSE UNCHANGED <<map, caller>>
  /\ UNCHANGED <<graph, running, state>>

Insert(t) ==
  /\ Map!Insert(t)
  /\ caller' = IF climber'[t] = Map!Idle THEN [caller EXCEPT ![t] = Nobody] ELSE caller
  /\ UNCHANGED <<graph, running, pushes, state>>

DijkstraNext ==
  \/ \E t \in Threads : InsertSource(t) \/ Insert(t) \/ \E p \in pushes : Improve(t, p)
  \/ Repair \/ ExtractMin \/ Break \/ Finish \/ Done
  \/ \E w \in DOMAIN leaf : LeafTest(w) \/ LeafKeep(w)
  \/ \E s \in running : Relax(s)

DijkstraSpec == DijkstraInit /\ [][DijkstraNext]_dijkstra_vars

-----------------------------------------------------------------------------
DijkstraTypeOK ==
  /\ Map!TypeOK
  /\ graph \subseteq Indices \X Indices \X Nat
  /\ running \subseteq Indices
  /\ pushes \subseteq [from : Indices, to : Indices, offer : 0..Max]
  /\ caller \in [Threads -> Indices \cup {Nobody}]
  /\ state \in {"start", "loop", "done"}

(* The algorithm ends with the shortest distances, and Max where no path  *)
(* is shorter than Max.                                                   *)
DijkstraFindsThem == Ended => dist = Distances(graph)

(***************************************************************************)
(* Dijkstra's invariant survives the concurrency: a vertex the map hands   *)
(* out has its final distance, although others at the same distance are    *)
(* relaxed at the same time, perhaps over edges of weight 0.               *)
(***************************************************************************)
ExtractedAreFinal == \A s \in called : dist[s] = Distances(graph)[s]

DijkstraInvariant ==
  /\ DijkstraTypeOK
  /\ ExtractedAreFinal
  /\ DijkstraFindsThem

=============================================================================
