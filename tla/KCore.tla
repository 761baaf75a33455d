-------------------------------- MODULE KCore --------------------------------
(***************************************************************************)
(* k_core_decomposition of k_core.h. In round k the vertices with k edges  *)
(* left are peeled, and whoever they leave with k edges. A vertex of high  *)
(* degree is in sample_mode: its edges are counted down in shards, one of  *)
(* each worker, and looked at together only when one shard is used up.     *)
(*                                                                         *)
(* The index sets are sets here: each phase only inserts into one or only  *)
(* removes from it. The order in which local_search visits what it peels,  *)
(* with its queues and layers, is left open: a vertex that is peeled is    *)
(* searched at once or put into next_frontier.                             *)
(***************************************************************************)
EXTENDS Integers, FiniteSets, FiniteSetsExt

CONSTANTS
  Vertices,
  Graphs,             \* symmetric sets of edges <<s, d>> without loops
  W,                  \* the workers are 0..W-1
  sample_threshold,   \* 8192 in the code
  EmptyRounds,        \* values of no_reduce at the start; 2 * log2(n) in the code
  Width               \* bits of coreness, 32 in the code

(* To the provers ^ is any function: that its value is a number is stated. *)
ASSUME KCoreAssumption ==
  /\ IsFiniteSet(Vertices) /\ EmptyRounds \subseteq Nat
  /\ W \in Nat \ {0} /\ sample_threshold \in Nat /\ sample_threshold >= W
  /\ Width \in Nat /\ 2 ^ Width \in Nat /\ 2 ^ Width > Cardinality(Vertices)
  /\ \A g \in Graphs : \A e \in g :
       e \in Vertices \X Vertices /\ e[1] # e[2] /\ <<e[2], e[1]>> \in g

VARIABLES
  coreness, frontier, next_frontier, active, resample, sample_mode, k, no_reduce,
  shards,    \* by vertex and worker
  phase,
  work,      \* the edges to active vertices that local_search has yet to visit
  job,       \* what each worker does with its edge
  graph

vars == <<coreness, frontier, next_frontier, active, resample, sample_mode, k, no_reduce,
          shards, phase, work, job, graph>>

Workers == 0..W - 1

uint32(x) == x % (2 ^ Width)

Degree(v) == Cardinality({e \in graph : e[1] = v})

Idle == [at |-> "idle", edge |-> <<>>]

distribute(remaining) ==
  [w \in Workers |-> (remaining \div W) + (IF w < remaining % W THEN 1 ELSE 0)]

Total(shard) ==
  LET sum[w \in 0..W] == IF w = 0 THEN 0 ELSE sum[w - 1] + shard[w - 1]
  IN  sum[W]

Unused == [w \in Workers |-> 0]

Init ==
  /\ graph \in Graphs /\ no_reduce \in EmptyRounds
  /\ coreness = [v \in Vertices |-> Degree(v)]
  /\ active = {v \in Vertices : Degree(v) > 0}
  /\ sample_mode = {v \in Vertices : Degree(v) > sample_threshold}
  /\ shards = [v \in Vertices |-> IF v \in sample_mode THEN distribute(Degree(v)) ELSE Unused]
  /\ frontier = {} /\ next_frontier = {} /\ resample = {} /\ work = {} /\ k = 0
  /\ phase = "round" /\ job = [w \in Workers |-> Idle]

-----------------------------------------------------------------------------
(* A round: k is raised, in the shards of those in sample_mode too, each by *)
(* the worker that comes by. Who has too few edges left goes back to be     *)
(* counted exactly; if that is fewer than k, k was raised too far.          *)

Delta == IF no_reduce = 0 THEN Min({coreness[v] : v \in active}) - k ELSE 1

(* Bug for the mutation runs: k is not taken back. *)
DownNot(excess) == 0

Down(excess) == Max({0} \cup excess)

Round ==
  /\ phase = "round" /\ active # {}
  /\ \E by, again \in [sample_mode -> Workers] :
       LET delta      == Delta
           raised     == k + delta
           lowered(s) == [shards[s] EXCEPT ![by[s]] = @ - delta]
           due        == {s \in sample_mode : lowered(s)[by[s]] <= 0}
           leaving    == {s \in due : Total(lowered(s)) <= sample_threshold}
           down       == Down({-Total(lowered(s)) : s \in leaving})
           kept(s)    == IF s \in due THEN distribute(Total(lowered(s))) ELSE lowered(s)
       IN  /\ down = 0 => again = by
           /\ k' = raised - down
           /\ sample_mode' = sample_mode \ leaving
           /\ coreness' = [v \in Vertices |-> IF v \in leaving
                                                THEN uint32(Total(lowered(v)) + raised)
                                                ELSE coreness[v]]
           /\ shards' = [v \in Vertices |-> IF v \in sample_mode'
                                              THEN [kept(v) EXCEPT ![again[v]] = @ + down]
                                              ELSE Unused]
  /\ phase' = "select"
  /\ UNCHANGED <<frontier, next_frontier, active, resample, no_reduce, work, job, graph>>

Select ==
  LET chosen == {v \in active : coreness[v] = k}
  IN  /\ phase = "select"
      /\ frontier' = chosen /\ active' = active \ chosen
      /\ no_reduce' = IF no_reduce > 0 /\ chosen = {} THEN no_reduce - 1 ELSE no_reduce
      /\ phase' = IF chosen = {} THEN "round" ELSE "peel"
      /\ UNCHANGED <<coreness, next_frontier, resample, sample_mode, k, shards, work, job, graph>>

-----------------------------------------------------------------------------
(* The frontier is consumed. What is no longer active will not be again, so *)
(* edges that lead there are not kept: a visit would return at once.        *)

OpenEdges(v) == {e \in graph : e[1] = v /\ e[2] \in active}

Take(s) ==
  /\ phase = "peel" /\ s \in frontier
  /\ frontier' = frontier \ {s}
  /\ work' = work \cup OpenEdges(s)
  /\ UNCHANGED <<coreness, next_frontier, active, resample, sample_mode, k, no_reduce,
                 shards, phase, job, graph>>

(* Bug: only the shard of worker 0 is looked at. *)
UsedUpByFirst(left, w) == left = 0 /\ w = 0

UsedUp(left, w) == left = 0

(* Worker w visits an edge; d is active. *)
Visit(w, e) ==
  LET d == e[2] IN
  /\ phase = "peel" /\ job[w] = Idle /\ e \in work
  /\ work' = work \ {e}
  /\ IF d \in sample_mode
       THEN /\ shards' = [shards EXCEPT ![d][w] = @ - 1]
            /\ resample' = IF UsedUp(shards[d][w] - 1, w) THEN resample \cup {d} ELSE resample
            /\ UNCHANGED job
       ELSE /\ job' = [job EXCEPT ![w] = [at |-> "sub", edge |-> e]]
            /\ UNCHANGED <<shards, resample>>
  /\ UNCHANGED <<coreness, frontier, next_frontier, active, sample_mode, k, no_reduce,
                 phase, graph>>

(* Bug: the vertex is peeled by whoever finds k edges or fewer left. *)
AfterSubEagerly(old) == IF old <= k + 1 THEN "remove" ELSE "idle"

AfterSub(old) == IF old <= k THEN "add" ELSE IF old = k + 1 THEN "remove" ELSE "idle"

(* The two halves of peel. *)
PeelSub(w) ==
  LET d    == job[w].edge[2]
      next == AfterSub(coreness[d])
  IN  /\ job[w].at = "sub"
      /\ coreness' = [coreness EXCEPT ![d] = uint32(@ - 1)]
      /\ job' = [job EXCEPT ![w] = IF next = "idle" THEN Idle ELSE [@ EXCEPT !.at = next]]
      /\ UNCHANGED <<frontier, next_frontier, active, resample, sample_mode, k, no_reduce,
                     shards, phase, work, graph>>

PeelAdd(w) ==
  /\ job[w].at = "add"
  /\ coreness' = [coreness EXCEPT ![job[w].edge[2]] = uint32(@ + 1)]
  /\ job' = [job EXCEPT ![w] = Idle]
  /\ UNCHANGED <<frontier, next_frontier, active, resample, sample_mode, k, no_reduce,
                 shards, phase, work, graph>>

Without(d) == active \ {d}

(* The vertex is peeled: it is searched, now or in the next pass. *)
Remove(w) ==
  LET d == job[w].edge[2] IN
  /\ job[w].at = "remove"
  /\ active' = Without(d)
  /\ LET open == {e \in work : e[2] # d}
     IN  \/ work' = open \cup OpenEdges(d) /\ UNCHANGED next_frontier
         \/ work' = open /\ next_frontier' = next_frontier \cup {d}
  /\ job' = [job EXCEPT ![w] = Idle]
  /\ UNCHANGED <<coreness, frontier, resample, sample_mode, k, no_reduce, shards, phase, graph>>

Consumed ==
  /\ phase = "peel" /\ frontier = {} /\ work = {} /\ \A w \in Workers : job[w] = Idle
  /\ phase' = "resample"
  /\ UNCHANGED <<coreness, frontier, next_frontier, active, resample, sample_mode, k,
                 no_reduce, shards, work, job, graph>>

-----------------------------------------------------------------------------
(* The resample phase. *)

LeftWith(remaining) == Max({k, remaining + k})

Resample(s) ==
  LET remaining == Total(shards[s])
      leaves    == remaining <= sample_threshold
      peeled    == leaves /\ remaining <= 0
  IN  /\ phase = "resample" /\ s \in resample
      /\ resample' = resample \ {s}
      /\ shards' = [shards EXCEPT ![s] = IF leaves THEN Unused ELSE distribute(remaining)]
      /\ coreness' = [coreness EXCEPT ![s] = IF leaves THEN uint32(LeftWith(remaining)) ELSE @]
      /\ sample_mode' = IF leaves THEN sample_mode \ {s} ELSE sample_mode
      /\ active' = IF peeled THEN Without(s) ELSE active
      /\ next_frontier' = IF peeled THEN next_frontier \cup {s} ELSE next_frontier
      /\ UNCHANGED <<frontier, k, no_reduce, phase, work, job, graph>>

Swap ==
  /\ phase = "resample" /\ resample = {}
  /\ frontier' = next_frontier /\ next_frontier' = {}
  /\ phase' = IF next_frontier = {} THEN "round" ELSE "peel"
  /\ UNCHANGED <<coreness, active, resample, sample_mode, k, no_reduce, shards, work, job, graph>>

Ended == phase = "round" /\ active = {}

Done == Ended /\ UNCHANGED vars

Next ==
  \/ Round \/ Select \/ Consumed \/ Swap \/ Done
  \/ \E s \in Vertices : Take(s) \/ Resample(s)
  \/ \E w \in Workers :
       \/ \E e \in work : Visit(w, e)
       \/ PeelSub(w) \/ PeelAdd(w) \/ Remove(w)

Spec == Init /\ [][Next]_vars

-----------------------------------------------------------------------------
(* Definition of the result: v has coreness c if c is the largest number    *)
(* such that v is in a set of vertices with c neighbours each in the set.   *)
Core(c) ==
  UNION {S \in SUBSET Vertices :
           \A v \in S : Cardinality({e \in graph : e[1] = v /\ e[2] \in S}) >= c}

Coreness == [v \in Vertices |-> Max({c \in 0..Cardinality(Vertices) : v \in Core(c)})]

(* The edges that may still be counted down at d. *)
Remaining(d) ==
  {e \in graph : e[2] = d /\ (\/ e[1] \in active \cup frontier \cup next_frontier
                              \/ e \in work
                              \/ \E w \in Workers : job[w] = [at |-> "sub", edge |-> e])}

Restoring(d) == {w \in Workers : job[w].at = "add" /\ job[w].edge[2] = d}

(* A vertex is active or in at most one frontier, and coreness never wraps, *)
(* although peel subtracts before it compares.                              *)
TypeOK ==
  /\ coreness \in [Vertices -> 0..Cardinality(Vertices)]
  /\ k \in 0..Cardinality(Vertices) /\ no_reduce \in Nat
  /\ active \subseteq Vertices /\ frontier \subseteq Vertices /\ next_frontier \subseteq Vertices
  /\ active \cap frontier = {} /\ active \cap next_frontier = {} /\ frontier \cap next_frontier = {}
  /\ sample_mode \subseteq active /\ resample \subseteq sample_mode
  /\ shards \in [Vertices -> [Workers -> Int]]
  /\ phase \in {"round", "select", "peel", "resample"}
  /\ work \subseteq {e \in graph : e[2] \in active}
  /\ job \in [Workers -> {Idle} \cup [at : {"sub", "add", "remove"}, edge : graph]]

(* The decomposition ends with the coreness of every vertex. *)
FindsCoreness == Ended => coreness = Coreness

(***************************************************************************)
(* Round by round: after round k exactly the vertices of coreness at most  *)
(* k have been peeled, and they keep what they have.                       *)
(***************************************************************************)
RoundsPeelTheirCores ==
  phase = "round" =>
    /\ active = {v \in Vertices : Coreness[v] > k}
    /\ \A v \in Vertices \ active : coreness[v] = Coreness[v]

(***************************************************************************)
(* The counts agree with the edges that are left, whoever has subtracted   *)
(* from them and not added back: for a vertex in sample_mode the sum of    *)
(* the shards, k less; for others coreness, until k is reached.            *)
(***************************************************************************)
CountsAreExact ==
  \A d \in active :
    LET left == Cardinality(Remaining(d))
    IN  IF d \in sample_mode
          THEN Total(shards[d]) + k = left
          ELSE \/ coreness[d] + Cardinality(Restoring(d)) = left
               \/ /\ \E w \in Workers : job[w].at = "remove" /\ job[w].edge[2] = d
                  /\ coreness[d] + Cardinality(Restoring(d)) = k /\ left <= k

(***************************************************************************)
(* Nobody in sample_mode is forgotten: as long as no shard is used up more *)
(* than k edges are left, and otherwise the vertex is in resample.         *)
(***************************************************************************)
SampledAreWatched ==
  \A s \in sample_mode : s \in resample \/ \A w \in Workers : shards[s][w] > 0

(* Every round raises k, also if it was taken back, and by one if nothing   *)
(* is reduced: no coreness is passed over and the loop cannot turn forever. *)
KRises == [][phase = "round" /\ phase' # "round" => k' > k]_vars

KCoreInvariant ==
  /\ TypeOK
  /\ RoundsPeelTheirCores
  /\ CountsAreExact
  /\ SampledAreWatched

=============================================================================
