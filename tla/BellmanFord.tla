----------------------------- MODULE BellmanFord -----------------------------
(***************************************************************************)
(* bellman_ford of shortest_path.h: in each round the workers take the     *)
(* vertices of the frontier; each pulls the best distance over its         *)
(* in-edges, pushes its own over its out-edges, and inserts what it has    *)
(* lowered into the next frontier, all on one array of distances that the  *)
(* others change meanwhile.                                                *)
(*                                                                         *)
(* The frontiers are sets here, as IndexSet shows that consume_each hands  *)
(* out each element once; write_min is one step, as WriteMin implements    *)
(* AtomicMin.                                                              *)
(***************************************************************************)
EXTENDS ShortestPaths

VARIABLES
  frontier, next_frontier, round,
  inside,    \* a round is in progress
  job        \* what each worker does with its vertex s

bellman_ford_vars == <<dist, frontier, next_frontier, round, inside, job, graph>>

NoVertex == [at |-> "idle", s |-> source, edges |-> {}, value |-> Max]

BellmanFordInit ==
  /\ graph \in Graphs
  /\ dist = [v \in Indices |-> IF v = source THEN 0 ELSE Max]
  /\ frontier = {source} /\ next_frontier = {} /\ round = 0 /\ inside = FALSE
  /\ job = [t \in Threads |-> NoVertex]

Waiting == \A t \in Threads : job[t] = NoVertex

(* Bug for the mutation runs: the loop stops two rounds early. *)
MoreButTwo == round + 2 < n /\ frontier # {}

More == round < n /\ frontier # {}

Begin ==
  /\ ~ inside /\ More
  /\ inside' = TRUE
  /\ UNCHANGED <<dist, frontier, next_frontier, round, job, graph>>

(* Worker t takes s out of the frontier, and begins to reduce its in-edges. *)
Take(t, s) ==
  /\ job[t] = NoVertex /\ inside /\ s \in frontier
  /\ frontier' = frontier \ {s}
  /\ job' = [job EXCEPT ![t] = [at |-> "pull", s |-> s, edges |-> InEdges(graph, s),
                                value |-> Max]]
  /\ UNCHANGED <<dist, next_frontier, round, inside, graph>>

Pull(t, e) ==
  /\ job[t].at = "pull" /\ e \in job[t].edges
  /\ job' = [job EXCEPT ![t].edges = @ \ {e},
                        ![t].value = First({@, Plus(dist[e[1]], e[3])})]
  /\ UNCHANGED <<dist, frontier, next_frontier, round, inside, graph>>

(* write_min(dist[s], candidate). *)
Lower(t) ==
  LET s == job[t].s
  IN  /\ job[t].at = "pull" /\ job[t].edges = {}
      /\ dist' = [dist EXCEPT ![s] = First({@, job[t].value})]
      /\ job' = [job EXCEPT ![t].at = "read"]
      /\ UNCHANGED <<frontier, next_frontier, round, inside, graph>>

(* Bug: what was pulled is pushed, not dist[s]. *)
CandidateOf(t) == job[t].value

DistanceOf(t) == dist[job[t].s]

ReadDistance(t) ==
  /\ job[t].at = "read"
  /\ job' = [job EXCEPT ![t] = [at |-> "push", s |-> @.s, edges |-> OutEdges(graph, @.s),
                                value |-> DistanceOf(t)]]
  /\ UNCHANGED <<dist, frontier, next_frontier, round, inside, graph>>

InsertNext(v) == next_frontier' = next_frontier \cup {v} /\ UNCHANGED frontier

(* write_min(dist[d], dist_d), and insert if that lowered it. *)
Push(t, e) ==
  LET d      == e[2]
      dist_d == Plus(job[t].value, e[3])
  IN  /\ job[t].at = "push" /\ e \in job[t].edges
      /\ job' = [job EXCEPT ![t].edges = @ \ {e}]
      /\ IF dist_d < dist[d]
           THEN /\ dist' = [dist EXCEPT ![d] = dist_d]
                /\ InsertNext(d)
           ELSE UNCHANGED <<dist, frontier, next_frontier>>
      /\ UNCHANGED <<round, inside, graph>>

Leave(t) ==
  /\ job[t].at = "push" /\ job[t].edges = {}
  /\ job' = [job EXCEPT ![t] = NoVertex]
  /\ UNCHANGED <<dist, frontier, next_frontier, round, inside, graph>>

(* consume_each has returned: the frontiers are swapped. *)
SwapFrontiers ==
  /\ inside /\ frontier = {} /\ Waiting
  /\ inside' = FALSE /\ round' = round + 1
  /\ frontier' = next_frontier /\ next_frontier' = {}
  /\ UNCHANGED <<dist, job, graph>>

RoundsOver == ~ inside /\ ~ More

Over == RoundsOver /\ UNCHANGED bellman_ford_vars

BellmanFordNext ==
  \/ \E t \in Threads :
       \/ \E s \in frontier : Take(t, s)
       \/ \E e \in job[t].edges : Pull(t, e) \/ Push(t, e)
       \/ Lower(t) \/ ReadDistance(t) \/ Leave(t)
  \/ Begin \/ SwapFrontiers \/ Over

BellmanFordSpec == BellmanFordInit /\ [][BellmanFordNext]_bellman_ford_vars

-----------------------------------------------------------------------------
(* Two workers never work for the same vertex. *)
BellmanFordTypeOK ==
  /\ graph \subseteq Indices \X Indices \X Nat
  /\ dist \in [Indices -> 0..Max]
  /\ frontier \subseteq Indices /\ next_frontier \subseteq Indices
  /\ round \in 0..n /\ inside \in BOOLEAN
  /\ job \in [Threads -> [at : {"idle", "pull", "read", "push"}, s : Indices,
                          edges : SUBSET graph, value : 0..Max]]
  /\ \A t, u \in Threads : t # u /\ job[t] # NoVertex /\ job[u] # NoVertex => job[t].s # job[u].s

(* The algorithm ends with the shortest distances, and Max where no path *)
(* is shorter than Max. *)
FindsShortestPaths == RoundsOver => dist = Distances(graph)

(***************************************************************************)
(* Between two rounds every edge is relaxed whose source is not in the     *)
(* frontier, also if its source was lowered by a pull, which inserts       *)
(* nothing, or by a push that raced with the source's own pushes.          *)
(***************************************************************************)
EdgesAreRelaxed ==
  ~ inside => \A e \in graph : e[1] \in frontier \/ dist[e[2]] <= Plus(dist[e[1]], e[3])

(***************************************************************************)
(* After k rounds each distance is at most that of the walks of k edges,   *)
(* and never below the shortest distance, whatever the workers overwrite:  *)
(* so n rounds are enough.                                                 *)
(***************************************************************************)
RoundsCoverWalks ==
  /\ ~ inside => \A v \in Indices : dist[v] <= WalkDistances(graph, round)[v]
  /\ \A v \in Indices : dist[v] >= Distances(graph)[v]

BellmanFordInvariant ==
  /\ BellmanFordTypeOK
  /\ EdgesAreRelaxed
  /\ RoundsCoverWalks

=============================================================================
