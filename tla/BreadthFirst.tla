----------------------------- MODULE BreadthFirst -----------------------------
(***************************************************************************)
(* What the two searches of breadth_first_search.h have in common. A round *)
(* goes over the edges out of the frontier (mode 0) or over the vertices   *)
(* that are still active (mode 1). In long searches (mode 5 and on) a      *)
(* round advances by stride: local_search runs on from the frontier, and   *)
(* the vertices at the far end of the window make the next frontier.       *)
(* They differ in the array they fill and in what they read of it.         *)
(*                                                                         *)
(* The frontiers are sets, as IndexSet shows, and write_min is one step,   *)
(* as WriteMin shows. A local queue hands out each vertex it holds, now or *)
(* to another task: pending counts them.  When to change from mode 0 to    *)
(* mode 1 and back, and how wide a window is, are matters of speed. The    *)
(* searches must find the same whatever is decided, so it is left open.    *)
(***************************************************************************)
EXTENDS Integers, FiniteSets, FiniteSetsExt

CONSTANTS
  Vertices, source,
  Graphs,       \* sets of edges <<s, d>>
  Tasks,        \* the parallel tasks at the innermost level
  Unreached,    \* UINT32_MAX in the code
  LongAfter,    \* 2 * log2(n) in the code, where log2 is bit_width
  MaxStride     \* bound of stride

ASSUME BreadthFirstAssumption ==
  /\ IsFiniteSet(Vertices) /\ source \in Vertices
  /\ \A g \in Graphs : g \subseteq Vertices \X Vertices
  /\ Unreached \in Nat /\ Cardinality(Vertices) < Unreached
  /\ LongAfter \in Nat /\ LongAfter >= 2 /\ MaxStride \in Nat \ {0}

VARIABLES
  program,    \* "search" or "tree": which of the two is called
  active, frontier, next_frontier, mode, stride, round,
  phase,      \* top of the loop, the parallel part of mode 0 or 5, or ended
  work,       \* edges out of the frontier that are still to be visited
  pending,    \* how many times each vertex is in a local queue
  job,        \* what each task is doing
  graph

control == <<program, active, frontier, next_frontier, mode, stride, round, phase, work,
             pending, job, graph>>

OutEdges(s) == {e \in graph : e[1] = s}
InEdges(s)  == {e \in graph : e[2] = s}

NoJob == [at |-> "idle"]

Begin(name, first) ==
  /\ program = name /\ graph \in Graphs
  /\ active = Vertices \ {source} /\ frontier = {} /\ next_frontier = {source}
  /\ mode = 0 /\ stride = 1 /\ round = first
  /\ phase = "top" /\ work = {} /\ pending = [v \in Vertices |-> 0]
  /\ job = [t \in Tasks |-> NoJob]

Resting == \A t \in Tasks : job[t] = NoJob

(* Modes 0 and 5: no vertex in the next frontier. *)
Break ==
  /\ phase = "top" /\ mode # 1 /\ next_frontier = {}
  /\ phase' = "ended"
  /\ UNCHANGED <<program, active, frontier, next_frontier, mode, stride, round, work, pending,
                 job, graph>>

Stop == phase = "ended" /\ UNCHANGED control

-----------------------------------------------------------------------------
(* Mode 0. *)

TopDown ==
  /\ phase = "top" /\ mode = 0 /\ next_frontier # {}
  /\ frontier' = next_frontier /\ next_frontier' = {} /\ phase' = "push"
  /\ UNCHANGED <<program, active, mode, stride, round, work, pending, job, graph>>

Take(s) ==
  /\ phase = "push" /\ s \in frontier
  /\ frontier' = frontier \ {s} /\ work' = work \cup OutEdges(s)
  /\ UNCHANGED <<program, active, next_frontier, mode, stride, round, phase, pending, job,
                 graph>>

(* The end of an edge is to be claimed, or not. *)
Look(t, e, claimed) ==
  /\ phase = "push" /\ job[t] = NoJob /\ e \in work
  /\ work' = work \ {e}
  /\ job' = IF claimed THEN [job EXCEPT ![t] = [at |-> "claim", s |-> e[2]]] ELSE job
  /\ UNCHANGED <<program, active, frontier, next_frontier, mode, stride, round, phase, pending,
                 graph>>

Claim(t) ==
  /\ job[t].at = "claim"
  /\ active' = active \ {job[t].s} /\ next_frontier' = next_frontier \cup {job[t].s}
  /\ job' = [job EXCEPT ![t] = NoJob]
  /\ UNCHANGED <<program, frontier, mode, stride, round, phase, work, pending, graph>>

Pushed ==
  /\ phase = "push" /\ frontier = {} /\ work = {} /\ Resting
  /\ phase' = "top" /\ round' = round + 1
  /\ UNCHANGED <<program, active, frontier, next_frontier, mode, stride, work, pending, job,
                 graph>>

-----------------------------------------------------------------------------
(* Mode 1: an active vertex looks for a neighbour that is not. *)

FoundBy(s) == {e[1] : e \in InEdges(s)} \ active

FoundNow == {s \in active : FoundBy(s) # {}}

-----------------------------------------------------------------------------
(* Mode 5 and on. *)

(* stride is moved by at most one towards any value from 1 on. *)
Strides == {x \in {stride - 1, stride, stride + 1} : x \in 1..MaxStride}

Search ==
  /\ phase = "top" /\ mode >= 5 /\ next_frontier # {}
  /\ frontier' = next_frontier /\ next_frontier' = {} /\ phase' = "search"
  /\ stride' \in IF mode = 5 THEN Strides ELSE {stride}
  /\ UNCHANGED <<program, active, mode, round, work, pending, job, graph>>

(* consume_each: a vertex that was reached by a shorter path is passed over. *)
Consume(s, dist_s) ==
  /\ phase = "search" /\ s \in frontier
  /\ frontier' = frontier \ {s}
  /\ pending' = IF dist_s = round THEN [pending EXCEPT ![s] = @ + 1] ELSE pending
  /\ UNCHANGED <<program, active, next_frontier, mode, stride, round, phase, work, job, graph>>

(* value is min_dist_d and later dist_s, parent the min_d of the tree. *)
PopTop(t, s) ==
  /\ job[t] = NoJob /\ pending[s] > 0
  /\ pending' = [pending EXCEPT ![s] = @ - 1]
  /\ job' = [job EXCEPT ![t] = [at |-> "pull", s |-> s, edges |-> InEdges(s),
                                value |-> Unreached, parent |-> Unreached]]
  /\ UNCHANGED <<program, active, frontier, next_frontier, mode, stride, round, phase, work,
                 graph>>

Pull(t, e, value, parent) ==
  /\ job[t].at = "pull" /\ e \in job[t].edges
  /\ job' = [job EXCEPT ![t].edges = @ \ {e}, ![t].value = value, ![t].parent = parent]
  /\ UNCHANGED <<program, active, frontier, next_frontier, mode, stride, round, phase, work,
                 pending, graph>>

(* min_dist_d + 1 in uint32_t: one after nothing reached is 0. *)
DistFrom(min_dist) == (min_dist + 1) % (Unreached + 1)

(* dist_s was written; the edges are pushed in any order. *)
Lower(t) ==
  /\ job[t].at = "pull" /\ job[t].edges = {}
  /\ job' = [job EXCEPT ![t].at = "push", ![t].edges = OutEdges(job[t].s),
                        ![t].value = DistFrom(@)]
  /\ UNCHANGED <<program, active, frontier, next_frontier, mode, stride, round, phase, work,
                 pending, graph>>

(* Bug for the mutation runs: the next frontier is the last round of the     *)
(* window.                                                                  *)
WindowShort == round + stride - 1

WindowEnd == round + stride

(* Whoever lowers the end of an edge puts it in a queue or the next frontier. *)
Push(t, e, lowered) ==
  LET d      == e[2]
      is_end == job[t].value + 1 = WindowEnd
  IN  /\ job[t].at = "push" /\ e \in job[t].edges
      /\ job' = [job EXCEPT ![t].edges = @ \ {e}]
      /\ pending' = IF lowered /\ ~is_end THEN [pending EXCEPT ![d] = @ + 1] ELSE pending
      /\ next_frontier' = IF lowered /\ is_end THEN next_frontier \cup {d} ELSE next_frontier
      /\ UNCHANGED <<program, active, frontier, mode, stride, round, phase, work, graph>>

EndJob(t) ==
  /\ job[t].at = "push" /\ job[t].edges = {}
  /\ job' = [job EXCEPT ![t] = NoJob]
  /\ UNCHANGED <<program, active, frontier, next_frontier, mode, stride, round, phase, work,
                 pending, graph>>

(* mode counts from 5 on; it is kept up to multiples of 5. *)
AfterSearch == IF mode = 9 THEN 5 ELSE mode + 1

Searched ==
  /\ phase = "search" /\ frontier = {} /\ Resting /\ \A v \in Vertices : pending[v] = 0
  /\ phase' = "top" /\ round' = round + stride /\ mode' = AfterSearch
  /\ UNCHANGED <<program, active, frontier, next_frontier, stride, work, pending, job, graph>>

-----------------------------------------------------------------------------
Jobs ==
  {NoJob} \cup [at : {"claim"}, s : Vertices]
    \cup [at : {"pull", "push"}, s : Vertices, edges : SUBSET graph, value : 0..Unreached,
          parent : Vertices \cup {Unreached}]

(* stride stays positive, and the source is not active. *)
ControlTypeOK ==
  /\ graph \in Graphs /\ active \subseteq Vertices \ {source}
  /\ frontier \subseteq Vertices /\ next_frontier \subseteq Vertices
  /\ mode \in {0, 1} \cup 5..9 /\ stride \in 1..MaxStride /\ round \in Nat
  /\ phase \in {"top", "push", "search", "ended"}
  /\ work \subseteq graph /\ pending \in [Vertices -> Nat]
  /\ job \in [Tasks -> Jobs]

(* Definition of the result: the number of edges of a shortest path from    *)
(* source, Unreached where there is none.                                   *)
Hops ==
  LET within[k \in 0..Cardinality(Vertices)] ==
        IF k = 0 THEN {source}
                 ELSE LET prev == within[k - 1]
                      IN  prev \cup {e[2] : e \in {f \in graph : f[1] \in prev}}
  IN  [v \in Vertices |->
         Min({Unreached} \cup {k \in 0..Cardinality(Vertices) : v \in within[k]})]

=============================================================================
