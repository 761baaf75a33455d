----------------------------- MODULE GraphColoring -----------------------------
(***************************************************************************)
(* graph_coloring of graph_coloring.h. Vertices are ordered by degree and, *)
(* in a degree, by hash32. A vertex is coloured once all neighbours before *)
(* it are: each of them counts down its num_blockers, while its own colour *)
(* is not yet chosen. Colours from Palette on are marked in used_color.    *)
(*                                                                         *)
(* The frontiers are sets, as IndexSet shows; tasks take turns at the      *)
(* granularity of the accesses to color and num_blockers.                  *)
(***************************************************************************)
EXTENDS Integers, FiniteSets, FiniteSetsExt

CONSTANTS
  Vertices,
  Graphs,     \* symmetric sets of edges <<s, d>> without loops
  Hashes,     \* values of hash32, a function on the vertices
  Tasks,
  Palette,    \* the colours of a Palette, 512 in the code
  Width       \* bits of color and num_blockers, 32 in the code

(* Of the power of 2 it says what arithmetic does, to the provers ^ is any *)
(* function.                                                               *)
ASSUME ColoringAssumption ==
  /\ IsFiniteSet(Vertices) /\ Palette \in Nat \ {0}
  /\ Width \in Nat /\ 2 ^ Width \in Nat /\ 2 ^ Width > Cardinality(Vertices)
  /\ \A g \in Graphs : \A e \in g :
       e \in Vertices \X Vertices /\ e[1] # e[2] /\ <<e[2], e[1]>> \in g
  \* hash32 is reversible: unhash32 in random.h
  /\ \A h \in Hashes :
       /\ h \in [Vertices -> Nat]
       /\ \A s, d \in Vertices : h[s] = h[d] => s = d

VARIABLES
  color, num_blockers, frontier, next_frontier,
  used_color,    \* by vertex, the colours from Palette on that are marked
  job,           \* what each task does with its vertex s
  graph, hash32

vars == <<color, num_blockers, frontier, next_frontier, used_color, job, graph, hash32>>

(* UINT32_MAX. *)
None == 2 ^ Width - 1

Neighbours(s) == {e[2] : e \in {f \in graph : f[1] = s}}
deg(s) == Cardinality(Neighbours(s))

Blocks(d, s) == deg(d) > deg(s) \/ (deg(d) = deg(s) /\ hash32[d] < hash32[s])

Blockers(s) == {d \in Neighbours(s) : Blocks(d, s)}

Idle == [at |-> "idle"]

Init ==
  /\ graph \in Graphs /\ hash32 \in Hashes
  /\ color = [s \in Vertices |-> IF deg(s) = 0 THEN 0 ELSE None]
  /\ num_blockers = [s \in Vertices |-> Cardinality(Blockers(s))]
  /\ frontier = {s \in Vertices : deg(s) > 0 /\ Blockers(s) = {}} /\ next_frontier = {}
  /\ used_color = [s \in Vertices |-> {}]
  /\ job = [t \in Tasks |-> Idle]

Take(t, s) ==
  /\ job[t] = Idle /\ s \in frontier
  /\ frontier' = frontier \ {s}
  /\ job' = [job EXCEPT ![t] = [at |-> "visit", s |-> s, ds |-> Neighbours(s), used |-> {}]]
  /\ UNCHANGED <<color, num_blockers, next_frontier, used_color, graph, hash32>>

(* Bug for the mutation runs: the last colour is not marked. *)
MarkedShort(c, s) == c + 1 < deg(s)

Marked(c, s) == c < deg(s)

(* The colour of neighbour d is read: none yet, one of the palette, or one  *)
(* that is marked if s could take it.                                       *)
Visit(t, d) ==
  LET s == job[t].s
      c == color[d]
  IN  /\ job[t].at = "visit" /\ d \in job[t].ds
      /\ job' = [job EXCEPT ![t] =
           [at   |-> IF c = None THEN "sub" ELSE "visit",
            s    |-> s, ds |-> @.ds \ {d}, d |-> d,
            used |-> IF c < Palette THEN @.used \cup {c} ELSE @.used]]
      /\ used_color' = IF c # None /\ c >= Palette /\ Marked(c, s)
                         THEN [used_color EXCEPT ![s] = @ \cup {c}] ELSE used_color
      /\ UNCHANGED <<color, num_blockers, frontier, next_frontier, graph, hash32>>

(* Bug: everyone who counts down inserts. *)
LastAlways(old) == TRUE

Last(old) == old = 1

CountDown(t) ==
  LET d == job[t].d
  IN  /\ job[t].at = "sub"
      /\ num_blockers' = [num_blockers EXCEPT ![d] = (@ - 1) % (2 ^ Width)]
      /\ next_frontier' = IF Last(num_blockers[d]) THEN next_frontier \cup {d} ELSE next_frontier
      /\ job' = [job EXCEPT ![t].at = "visit"]
      /\ UNCHANGED <<color, frontier, used_color, graph, hash32>>

Chosen(s, used) ==
  LET free == (0..Palette - 1) \ used
  IN  IF free # {} THEN Min(free)
                   ELSE Min({deg(s)} \cup ((Palette..deg(s) - 1) \ used_color[s]))

Choose(t) ==
  /\ job[t].at = "visit" /\ job[t].ds = {}
  /\ color' = [color EXCEPT ![job[t].s] = Chosen(job[t].s, job[t].used)]
  /\ job' = [job EXCEPT ![t] = Idle]
  /\ UNCHANGED <<num_blockers, frontier, next_frontier, used_color, graph, hash32>>

Swap ==
  /\ frontier = {} /\ next_frontier # {} /\ \A t \in Tasks : job[t] = Idle
  /\ frontier' = next_frontier /\ next_frontier' = {}
  /\ UNCHANGED <<color, num_blockers, used_color, job, graph, hash32>>

Ended == frontier = {} /\ next_frontier = {} /\ \A t \in Tasks : job[t] = Idle

Done == Ended /\ UNCHANGED vars

Next ==
  \/ Swap \/ Done
  \/ \E t \in Tasks :
       \/ CountDown(t) \/ Choose(t)
       \/ \E s \in Vertices : Take(t, s) \/ Visit(t, s)

Spec == Init /\ [][Next]_vars

-----------------------------------------------------------------------------
(* Definition of the result: the vertices in order, each with the smallest  *)
(* colour that no neighbour before it has.                                  *)
before(s) == {d \in Vertices : Blocks(d, s)}
nth(i)    == CHOOSE s \in Vertices : Cardinality(before(s)) = i

greedy[i \in 0..Cardinality(Vertices)] ==
  IF i = 0 THEN [s \in Vertices |-> None]
           ELSE LET prev == greedy[i - 1]
                    s    == nth(i - 1)
                IN  [prev EXCEPT ![s] = Min(0..deg(s) \ {prev[d] : d \in Neighbours(s)})]

Greedy == greedy[Cardinality(Vertices)]

(* The vertices that tasks work for. *)
Coloring == {job[t].s : t \in {u \in Tasks : job[u] # Idle}}

(* A colour is at most the degree; a vertex is in one place, and has no     *)
(* colour before its task is over.                                          *)
TypeOK ==
  /\ \A s \in Vertices : color[s] \in 0..deg(s) \cup {None}
  /\ num_blockers \in [Vertices -> 0..Cardinality(Vertices)]
  /\ frontier \cap next_frontier = {} /\ Coloring \cap (frontier \cup next_frontier) = {}
  /\ \A s \in frontier \cup next_frontier \cup Coloring : color[s] = None
  /\ \A s \in Vertices : used_color[s] \subseteq Palette..deg(s) - 1

(* The colouring is that of the sequential algorithm, whatever the order in *)
(* which the tasks ran; so it is the same every time, and a proper one.     *)
FindsGreedyColoring ==
  /\ Ended => color = Greedy
  /\ \A e \in graph : color[e[1]] = color[e[2]] => color[e[1]] = None

(* No two neighbours are coloured in the same round: what one reads of the  *)
(* other would depend on the order of the tasks.                            *)
RoundsAreIndependent ==
  \A e \in graph : ~ {e[1], e[2]} \subseteq frontier \cup Coloring

(***************************************************************************)
(* The counts agree with the neighbours that have yet to count down, who   *)
(* may still have no colour: a vertex waits exactly as long as it must,    *)
(* and is never inserted before.                                           *)
(***************************************************************************)
BlockersAreCounted ==
  LET counted(d, s) == \/ color[d] # None
                       \/ \E t \in Tasks : /\ job[t] # Idle /\ job[t].s = d /\ s \notin job[t].ds
                                           /\ ~ (job[t].at = "sub" /\ job[t].d = s)
  IN  \A s \in Vertices :
        /\ num_blockers[s] = Cardinality({d \in Blockers(s) : ~ counted(d, s)})
        /\ num_blockers[s] # 0 => s \notin frontier \cup next_frontier \cup Coloring

ColoringInvariant ==
  /\ TypeOK
  /\ RoundsAreIndependent
  /\ BlockersAreCounted

=============================================================================
