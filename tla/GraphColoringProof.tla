-------------------------- MODULE GraphColoringProof --------------------------
(***************************************************************************)
(* Proofs about GraphColoring for every set of graphs and hashes, every    *)
(* number of tasks and every palette: whatever the order in which tasks    *)
(* take vertices, read colours and count down, the colouring is that of    *)
(* the sequential greedy algorithm.                                        *)
(***************************************************************************)
EXTENDS GraphColoring, FiniteSetTheorems, WellFoundedInduction, TLAPS

-----------------------------------------------------------------------------
(* The graph and the order of the vertices. *)

LEMMA NeighboursAre ==
  ASSUME graph \in Graphs
  PROVE  /\ \A s : Neighbours(s) \subseteq Vertices
         /\ \A s, d : d \in Neighbours(s) <=> <<s, d>> \in graph
         /\ \A s, d : d \in Neighbours(s) <=> s \in Neighbours(d)
         /\ \A s : s \notin Neighbours(s)
<1>1. \A e \in graph : /\ e \in Vertices \X Vertices /\ e[1] # e[2] /\ <<e[2], e[1]>> \in graph
                       /\ e = <<e[1], e[2]>>
  <2>1. \A e \in graph : e \in Vertices \X Vertices /\ e[1] # e[2] /\ <<e[2], e[1]>> \in graph
    BY ColoringAssumption, Zenon
  <2>2. \A e \in Vertices \X Vertices : e = <<e[1], e[2]>>
    OBVIOUS
  <2> QED BY <2>1, <2>2
<1>2. ASSUME NEW s, NEW d PROVE d \in Neighbours(s) <=> <<s, d>> \in graph
  BY <1>1 DEF Neighbours
<1>3. ASSUME NEW s, NEW d, <<s, d>> \in graph
      PROVE  s # d /\ d \in Vertices /\ <<d, s>> \in graph
  BY <1>1, <1>3
<1> QED BY <1>2, <1>3

LEMMA DegreesAre ==
  ASSUME graph \in Graphs
  PROVE  /\ None \in Nat /\ Palette \in Nat /\ Palette > 0 /\ 2 ^ Width = None + 1
         /\ Cardinality(Vertices) \in Nat /\ Cardinality(Vertices) <= None
         /\ \A s \in Vertices :
              /\ IsFiniteSet(Neighbours(s)) /\ deg(s) = Cardinality(Neighbours(s))
              /\ deg(s) \in Nat /\ deg(s) < Cardinality(Vertices) /\ deg(s) < None
              /\ deg(s) = 0 <=> Neighbours(s) = {}
<1>1. /\ Cardinality(Vertices) \in Nat /\ 2 ^ Width \in Nat /\ 2 ^ Width > Cardinality(Vertices)
      /\ IsFiniteSet(Vertices) /\ Palette \in Nat \ {0}
  BY ColoringAssumption, FS_CardinalityType
<1>2. None \in Nat /\ 2 ^ Width = None + 1 /\ Cardinality(Vertices) <= None
  BY <1>1 DEF None
<1>3. ASSUME NEW s \in Vertices
      PROVE  /\ IsFiniteSet(Neighbours(s)) /\ deg(s) = Cardinality(Neighbours(s))
             /\ deg(s) \in Nat /\ deg(s) < Cardinality(Vertices)
             /\ deg(s) = 0 <=> Neighbours(s) = {}
  <2>1. Neighbours(s) \subseteq Vertices \ {s}
    BY NeighboursAre
  <2>2. IsFiniteSet(Vertices \ {s}) /\ Cardinality(Vertices \ {s}) = Cardinality(Vertices) - 1
    BY <1>1, FS_RemoveElement
  <2>3. IsFiniteSet(Neighbours(s)) /\ Cardinality(Neighbours(s)) <= Cardinality(Vertices \ {s})
    BY <2>1, <2>2, FS_Subset
  <2>4. Cardinality(Neighbours(s)) \in Nat /\ (Cardinality(Neighbours(s)) = 0 <=> Neighbours(s) = {})
    BY <2>3, FS_CardinalityType, FS_EmptySet
  <2> QED BY <1>1, <2>2, <2>3, <2>4 DEF deg
<1> QED BY <1>1, <1>2, <1>3

(* Of two vertices exactly one comes before the other. *)
LEMMA BlocksIsAnOrder ==
  ASSUME graph \in Graphs, hash32 \in Hashes, NEW s \in Vertices, NEW d \in Vertices
  PROVE  /\ s # d => Blocks(s, d) \/ Blocks(d, s)
         /\ ~ (Blocks(s, d) /\ Blocks(d, s))
         /\ \A x \in Vertices : Blocks(x, s) /\ Blocks(s, d) => Blocks(x, d)
<1>1. \A x \in Vertices : deg(x) \in Nat /\ hash32[x] \in Nat
  BY DegreesAre, ColoringAssumption
<1>2. hash32[s] = hash32[d] => s = d
  BY ColoringAssumption
<1> QED BY <1>1, <1>2 DEF Blocks

LEMMA BlockersAre ==
  ASSUME graph \in Graphs, hash32 \in Hashes
  PROVE  \A s \in Vertices :
           /\ Blockers(s) \subseteq Neighbours(s) /\ s \notin Blockers(s)
           /\ \A d \in Neighbours(s) : d \in Vertices /\ (d \in Blockers(s) <=> s \notin Blockers(d))
           /\ IsFiniteSet(Blockers(s)) /\ (deg(s) # 0 \/ Blockers(s) = {})
<1> SUFFICES ASSUME NEW s \in Vertices
             PROVE  /\ Blockers(s) \subseteq Neighbours(s) /\ s \notin Blockers(s)
                    /\ \A d \in Neighbours(s) :
                         d \in Vertices /\ (d \in Blockers(s) <=> s \notin Blockers(d))
                    /\ IsFiniteSet(Blockers(s)) /\ (deg(s) # 0 \/ Blockers(s) = {})
  OBVIOUS
<1>1. Blockers(s) \subseteq Neighbours(s) /\ s \notin Blockers(s)
  BY NeighboursAre DEF Blockers
<1>2. ASSUME NEW d \in Neighbours(s)
      PROVE  d \in Vertices /\ (d \in Blockers(s) <=> s \notin Blockers(d))
  <2>1. d \in Vertices /\ s \in Neighbours(d) /\ s # d
    BY NeighboursAre
  <2> QED BY <2>1, BlocksIsAnOrder DEF Blockers
<1>3. IsFiniteSet(Blockers(s)) /\ (deg(s) # 0 \/ Blockers(s) = {})
  BY <1>1, DegreesAre, FS_Subset
<1> QED BY <1>1, <1>2, <1>3

-----------------------------------------------------------------------------
(***************************************************************************)
(* The inductive invariant.  Who has told whom: a neighbour before s is    *)
(* counted once it has its colour, or a task has gone past s for it.       *)
(***************************************************************************)
HasTold(t, d, s) ==
  /\ job[t] # Idle /\ job[t].s = d /\ s \notin job[t].ds
  /\ ~ (job[t].at = "sub" /\ job[t].d = s)
Counted(d, s) == color[d] # None \/ \E t \in Tasks : HasTold(t, d, s)
Uncounted(s) == {d \in Blockers(s) : ~ Counted(d, s)}

Placed == frontier \cup next_frontier \cup Coloring

Jobs ==
  {Idle}
    \cup [at : {"visit"}, s : Vertices, ds : SUBSET Vertices, used : SUBSET Nat]
    \cup [at : {"visit", "sub"}, s : Vertices, ds : SUBSET Vertices, d : Vertices,
          used : SUBSET Nat]

Types ==
  /\ graph \in Graphs /\ hash32 \in Hashes
  /\ color \in [Vertices -> Nat] /\ \A s \in Vertices : color[s] \in 0..deg(s) \cup {None}
  /\ num_blockers \in [Vertices -> Nat]
  /\ frontier \subseteq Vertices /\ next_frontier \subseteq Vertices
  /\ used_color \in [Vertices -> SUBSET Nat]
  /\ \A s \in Vertices : used_color[s] \subseteq Palette..(deg(s) - 1)
  /\ job \in [Tasks -> Jobs]

(* A vertex without colour is in one place at most. *)
PlacesAreApart ==
  /\ frontier \cap next_frontier = {} /\ Coloring \cap (frontier \cup next_frontier) = {}
  /\ \A t, u \in Tasks : job[t] # Idle /\ job[u] # Idle /\ job[t].s = job[u].s => t = u
  /\ \A s \in Placed : color[s] = None
  /\ \A s \in Vertices : color[s] = None /\ s \notin Coloring => used_color[s] = {}

(* Who waits has somebody to wait for, and is placed when there is nobody. *)
CountsAreKept ==
  \A s \in Vertices :
    /\ num_blockers[s] = Cardinality(Uncounted(s))
    /\ s \in Placed => Uncounted(s) = {}
    /\ color[s] # None \/ s \in Placed \/ Uncounted(s) # {}

BlockersGoFirst ==
  \A s \in Vertices : color[s] # None \/ s \in frontier \cup Coloring =>
    \A d \in Blockers(s) : color[d] # None

(* A task knows the colours of the neighbours it has visited. *)
KnowsColors(t) ==
  LET s    == job[t].s
      seen == Neighbours(s) \ job[t].ds
  IN  /\ job[t].ds \subseteq Neighbours(s)
      /\ \A c \in Nat : c \in job[t].used <=> c < Palette /\ \E d \in seen : color[d] = c
      /\ \A c \in Palette..(deg(s) - 1) : c \in used_color[s] <=> \E d \in seen : color[d] = c
      /\ job[t].at = "sub" => job[t].d \in seen /\ color[job[t].d] = None

TasksKnowColors == \A t \in Tasks : job[t] # Idle => KnowsColors(t)

(* The least colour that no neighbour before s has. *)
IsLeastFree(c, s) ==
  /\ c \in 0..deg(s) /\ \A d \in Blockers(s) : color[d] # c
  /\ \A x \in 0..(c - 1) : \E d \in Blockers(s) : color[d] = x

ColorsAreLeast == \A s \in Vertices : color[s] # None => IsLeastFree(color[s], s)

Sound ==
  /\ Types
  /\ PlacesAreApart
  /\ CountsAreKept
  /\ BlockersGoFirst
  /\ TasksKnowColors
  /\ ColorsAreLeast

-----------------------------------------------------------------------------
LEMMA GraphStays ==
  ASSUME graph' = graph, hash32' = hash32
  PROVE  /\ \A s : Neighbours(s)' = Neighbours(s) /\ deg(s)' = deg(s) /\ Blockers(s)' = Blockers(s)
         /\ \A s, d : Blocks(s, d)' = Blocks(s, d)
<1>1. \A s : Neighbours(s)' = Neighbours(s)
  BY DEF Neighbours
<1>2. \A s : deg(s)' = deg(s)
  BY <1>1 DEF deg
<1>3. \A s, d : Blocks(s, d)' = Blocks(s, d)
  BY <1>2 DEF Blocks
<1> QED BY <1>1, <1>2, <1>3 DEF Blockers

LEMMA JobIs ==
  ASSUME Types, NEW t \in Tasks
  PROVE  /\ job[t] \in Jobs /\ Idle.at = "idle"
         /\ job[t] = Idle <=> job[t].at = "idle"
         /\ job[t] # Idle => /\ job[t].at \in {"visit", "sub"} /\ job[t].s \in Vertices
                             /\ job[t].ds \subseteq Vertices /\ job[t].used \subseteq Nat
                             /\ job[t].s \in Coloring
         /\ job[t].at = "sub" => job[t].d \in Vertices
<1>1. job[t] \in Jobs
  BY DEF Types
<1>2. CASE job[t] = Idle
  BY <1>1, <1>2 DEF Idle
<1>3. CASE job[t] \in [at : {"visit"}, s : Vertices, ds : SUBSET Vertices, used : SUBSET Nat]
  <2>1. job[t].at = "visit" /\ job[t].s \in Vertices /\ job[t].ds \subseteq Vertices /\ job[t].used \subseteq Nat
    BY <1>3
  <2>2. job[t] # Idle
    BY <2>1 DEF Idle
  <2> QED BY <1>1, <2>1, <2>2 DEF Coloring, Idle
<1>4. CASE job[t] \in [at : {"visit", "sub"}, s : Vertices, ds : SUBSET Vertices, d : Vertices,
                       used : SUBSET Nat]
  <2>1. /\ job[t].at \in {"visit", "sub"} /\ job[t].s \in Vertices /\ job[t].ds \subseteq Vertices
        /\ job[t].used \subseteq Nat /\ job[t].d \in Vertices
    BY <1>4
  <2>2. job[t] # Idle
    BY <2>1 DEF Idle
  <2> QED BY <1>1, <2>1, <2>2 DEF Coloring, Idle
<1> QED BY <1>1, <1>2, <1>3, <1>4 DEF Jobs

(* No neighbour of a vertex that is being coloured is coloured or taken. *)
LEMMA NeighboursAreApart ==
  ASSUME Sound, NEW s \in frontier \cup Coloring, NEW d \in frontier \cup Coloring
  PROVE  d \notin Neighbours(s)
<1>1. Coloring \subseteq Vertices
  BY JobIs DEF Coloring, Sound
<1>2. s \in Vertices /\ d \in Vertices /\ color[s] = None /\ color[d] = None
  BY <1>1 DEF Sound, Types, PlacesAreApart, Placed
<1>3. d \notin Blockers(s) /\ s \notin Blockers(d)
  BY <1>2 DEF Sound, BlockersGoFirst
<1> QED BY <1>2, <1>3, BlockersAre DEF Sound, Types

LEMMA TakeSound ==
  ASSUME Sound, NEW t \in Tasks, NEW s \in Vertices, Take(t, s)
  PROVE  Sound'
<1> DEFINE new == [at |-> "visit", s |-> s, ds |-> Neighbours(s), used |-> {}]
<1>1. /\ job[t] = Idle /\ s \in frontier /\ frontier' = frontier \ {s} /\ next_frontier' = next_frontier
      /\ color' = color /\ num_blockers' = num_blockers /\ used_color' = used_color
      /\ graph' = graph /\ hash32' = hash32 /\ job' = [job EXCEPT ![t] = new]
  BY DEF Take
<1>2. /\ \A x : Neighbours(x)' = Neighbours(x) /\ deg(x)' = deg(x) /\ Blockers(x)' = Blockers(x)
      /\ None' = None
  BY <1>1, GraphStays DEF None
<1>3. Types /\ PlacesAreApart /\ CountsAreKept /\ BlockersGoFirst /\ TasksKnowColors /\ ColorsAreLeast
  BY DEF Sound
<1>4. /\ new \in Jobs /\ new # Idle /\ new.s = s /\ new.ds = Neighbours(s) /\ new.used = {}
      /\ new.at = "visit"
  <2>1. Neighbours(s) \subseteq Vertices
    BY <1>3, NeighboursAre DEF Types
  <2>2. new \in [at : {"visit"}, s : Vertices, ds : SUBSET Vertices, used : SUBSET Nat]
    BY <2>1
  <2>3. new # Idle
    BY DEF Idle
  <2> QED BY <2>2, <2>3 DEF Jobs
<1> HIDE DEF new
<1>5. job' \in [Tasks -> Jobs] /\ job'[t] = new /\ \A u \in Tasks : u # t => job'[u] = job[u]
  BY <1>1, <1>3, <1>4 DEF Types
<1>6. Coloring' = Coloring \cup {s}
  BY <1>1, <1>4, <1>5 DEF Coloring
<1>7. Placed' = Placed
  BY <1>1, <1>6 DEF Placed
<1>8. Types'
  BY <1>1, <1>2, <1>3, <1>5 DEF Types
<1>9. s \notin Coloring /\ s \notin next_frontier /\ color[s] = None
  BY <1>1, <1>3 DEF PlacesAreApart, Placed
<1>10. PlacesAreApart'
  <2>1. frontier' \cap next_frontier' = {} /\ Coloring' \cap (frontier' \cup next_frontier') = {}
    BY <1>1, <1>3, <1>6, <1>9 DEF PlacesAreApart
  <2>2. ASSUME NEW u \in Tasks, NEW v \in Tasks, job'[u] # Idle, job'[v] # Idle, job'[u].s = job'[v].s
        PROVE  u = v
    <3>1. \A w \in Tasks : job[w] # Idle => job[w].s # s
      BY <1>9 DEF Coloring
    <3> QED BY <1>3, <1>4, <1>5, <2>2, <3>1 DEF PlacesAreApart
  <2>3. \A x \in Placed' : color'[x] = None
    BY <1>1, <1>3, <1>7 DEF PlacesAreApart
  <2>4. \A x \in Vertices : color'[x] = None /\ x \notin Coloring' => used_color'[x] = {}
    BY <1>1, <1>3, <1>6 DEF PlacesAreApart
  <2> QED BY <1>2, <2>1, <2>2, <2>3, <2>4 DEF PlacesAreApart, Idle
<1>11. \A x : Uncounted(x)' = Uncounted(x)
  <2> SUFFICES ASSUME NEW x, NEW d \in Blockers(x) PROVE Counted(d, x)' <=> Counted(d, x)
    BY <1>2 DEF Uncounted
  <2>1. x \in Neighbours(d)
    BY <1>3, NeighboursAre DEF Blockers, Types
  <2>2. ASSUME NEW u \in Tasks PROVE HasTold(u, d, x)' <=> HasTold(u, d, x)
    BY <1>1, <1>4, <1>5, <2>1 DEF HasTold, Idle
  <2> QED BY <1>1, <1>2, <2>2 DEF Counted
<1>12. CountsAreKept'
  BY <1>1, <1>2, <1>3, <1>7, <1>11 DEF CountsAreKept
<1>13. BlockersGoFirst'
  BY <1>1, <1>2, <1>3, <1>6 DEF BlockersGoFirst
<1>14. TasksKnowColors'
  <2> SUFFICES ASSUME NEW u \in Tasks, job'[u] # Idle PROVE KnowsColors(u)'
    BY DEF TasksKnowColors, Idle
  <2>1. CASE u = t
    <3>1. used_color[s] = {}
      BY <1>3, <1>9 DEF PlacesAreApart
    <3> QED BY <1>1, <1>2, <1>4, <1>5, <2>1, <3>1 DEF KnowsColors
  <2>2. CASE u # t
    <3>1. KnowsColors(u) /\ job'[u] = job[u]
      BY <1>3, <1>5, <2>2 DEF TasksKnowColors
    <3> QED BY <1>1, <1>2, <3>1 DEF KnowsColors
  <2> QED BY <2>1, <2>2
<1>15. ColorsAreLeast'
  BY <1>1, <1>2, <1>3 DEF ColorsAreLeast, IsLeastFree
<1> QED BY <1>8, <1>10, <1>12, <1>13, <1>14, <1>15 DEF Sound

LEMMA VisitSound ==
  ASSUME Sound, NEW t \in Tasks, NEW d \in Vertices, Visit(t, d)
  PROVE  Sound'
<1> DEFINE s   == job[t].s
           c   == color[d]
           new == [at   |-> IF c = None THEN "sub" ELSE "visit",
                   s    |-> s, ds |-> job[t].ds \ {d}, d |-> d,
                   used |-> IF c < Palette THEN job[t].used \cup {c} ELSE job[t].used]
<1>1. /\ job[t].at = "visit" /\ d \in job[t].ds /\ frontier' = frontier
      /\ next_frontier' = next_frontier /\ color' = color /\ num_blockers' = num_blockers
      /\ graph' = graph /\ hash32' = hash32 /\ job' = [job EXCEPT ![t] = new]
      /\ used_color' = IF c # None /\ c >= Palette /\ c < deg(s)
                         THEN [used_color EXCEPT ![s] = @ \cup {c}] ELSE used_color
  BY DEF Visit, Marked
<1>2. /\ \A x : Neighbours(x)' = Neighbours(x) /\ deg(x)' = deg(x) /\ Blockers(x)' = Blockers(x)
      /\ None' = None
  BY <1>1, GraphStays DEF None
<1>3. Types /\ PlacesAreApart /\ CountsAreKept /\ BlockersGoFirst /\ TasksKnowColors /\ ColorsAreLeast
  BY DEF Sound
<1>4. /\ job[t] # Idle /\ s \in Vertices /\ s \in Coloring /\ job[t].ds \subseteq Vertices
      /\ job[t].used \subseteq Nat /\ c \in Nat
  BY <1>1, <1>3, JobIs DEF Types, Idle
<1>5. KnowsColors(t) /\ d \in Neighbours(s) /\ color[s] = None
  BY <1>1, <1>3, <1>4 DEF TasksKnowColors, KnowsColors, PlacesAreApart, Placed
<1>6. /\ new \in Jobs /\ new # Idle /\ new.s = s /\ new.ds = job[t].ds \ {d} /\ new.d = d
      /\ new.at = (IF c = None THEN "sub" ELSE "visit")
      /\ new.used = (IF c < Palette THEN job[t].used \cup {c} ELSE job[t].used)
  <2>1. new.used \subseteq Nat /\ new.at \in {"visit", "sub"}
    BY <1>4
  <2>2. new \in [at : {"visit", "sub"}, s : Vertices, ds : SUBSET Vertices, d : Vertices,
                 used : SUBSET Nat]
    BY <1>4, <2>1
  <2>3. new # Idle
    BY DEF Idle
  <2> QED BY <2>2, <2>3 DEF Jobs
<1> HIDE DEF new
<1>7. job' \in [Tasks -> Jobs] /\ job'[t] = new /\ \A u \in Tasks : u # t => job'[u] = job[u]
  BY <1>1, <1>3, <1>6 DEF Types
<1>8. \A u \in Tasks : (job'[u] # Idle <=> job[u] # Idle) /\ job'[u].s = job[u].s
  BY <1>4, <1>6, <1>7
<1>9. Coloring' = Coloring /\ Placed' = Placed
  BY <1>1, <1>8 DEF Coloring, Placed, Idle
<1>10. /\ used_color' \in [Vertices -> SUBSET Nat]
       /\ used_color'[s] = used_color[s] \cup (IF c # None /\ c >= Palette /\ c < deg(s) THEN {c} ELSE {})
       /\ \A x \in Vertices : x # s => used_color'[x] = used_color[x]
  BY <1>1, <1>3, <1>4 DEF Types
<1>11. deg(s) \in Nat /\ Palette \in Nat /\ None \in Nat /\ deg(s) < None
  BY <1>3, <1>4, DegreesAre DEF Types
<1>12. Types'
  <2>1. used_color'[s] \subseteq Palette..(deg(s) - 1)
    BY <1>3, <1>4, <1>10, <1>11 DEF Types
  <2> QED BY <1>1, <1>2, <1>3, <1>7, <1>10, <2>1 DEF Types
<1>13. PlacesAreApart'
  <2>1. \A u, v \in Tasks : job'[u] # Idle /\ job'[v] # Idle /\ job'[u].s = job'[v].s => u = v
    BY <1>3, <1>8 DEF PlacesAreApart
  <2>2. \A x \in Vertices : color'[x] = None /\ x \notin Coloring' => used_color'[x] = {}
    BY <1>1, <1>3, <1>4, <1>9, <1>10 DEF PlacesAreApart
  <2>3. \A x \in Placed' : color'[x] = None'
    BY <1>1, <1>2, <1>3, <1>9 DEF PlacesAreApart
  <2>4. frontier' \cap next_frontier' = {} /\ Coloring' \cap (frontier' \cup next_frontier') = {}
    BY <1>1, <1>3, <1>9 DEF PlacesAreApart
  <2> QED BY <1>2, <2>1, <2>2, <2>3, <2>4 DEF PlacesAreApart, Idle
<1>14. \A x \in Vertices : Uncounted(x)' = Uncounted(x)
  <2> SUFFICES ASSUME NEW x \in Vertices, NEW e \in Blockers(x) PROVE Counted(e, x)' <=> Counted(e, x)
    BY <1>2 DEF Uncounted
  <2>1. CASE c = None
    <3>1. ASSUME NEW u \in Tasks PROVE HasTold(u, e, x)' <=> HasTold(u, e, x)
      BY <1>1, <1>4, <1>6, <1>7, <2>1 DEF HasTold, Idle
    <3> QED BY <1>1, <1>2, <3>1 DEF Counted
  <2>2. CASE c # None
    <3>1. ~ (x = d /\ e = s)
      BY <1>3, <1>5, <2>2 DEF BlockersGoFirst
    <3>2. ASSUME NEW u \in Tasks PROVE HasTold(u, e, x)' <=> HasTold(u, e, x)
      BY <1>1, <1>4, <1>6, <1>7, <2>2, <3>1 DEF HasTold, Idle
    <3> QED BY <1>1, <1>2, <3>2 DEF Counted
  <2> QED BY <2>1, <2>2
<1>15. CountsAreKept'
  BY <1>1, <1>2, <1>3, <1>9, <1>14 DEF CountsAreKept
<1>16. BlockersGoFirst'
  BY <1>1, <1>2, <1>3, <1>9 DEF BlockersGoFirst
<1>17. TasksKnowColors'
  <2> SUFFICES ASSUME NEW u \in Tasks, job'[u] # Idle PROVE KnowsColors(u)'
    BY DEF TasksKnowColors, Idle
  <2>1. CASE u = t
    <3>1. Neighbours(s) \ new.ds = (Neighbours(s) \ job[t].ds) \cup {d}
      BY <1>5, <1>6
    <3>2. \A e \in Nat : e \in new.used <=> e < Palette /\ \E x \in Neighbours(s) \ new.ds : color[x] = e
      BY <1>4, <1>5, <1>6, <3>1 DEF KnowsColors
    <3>3. \A e \in Palette..(deg(s) - 1) :
            e \in used_color'[s] <=> \E x \in Neighbours(s) \ new.ds : color[x] = e
      <4>1. \A e \in Palette..(deg(s) - 1) : e # None /\ e >= Palette /\ e < deg(s)
        BY <1>11
      <4> QED BY <1>4, <1>5, <1>10, <3>1, <4>1 DEF KnowsColors
    <3>4. new.ds \subseteq Neighbours(s) /\ (new.at = "sub" => d \in Neighbours(s) \ new.ds /\ color[d] = None)
      BY <1>5, <1>6, <3>1 DEF KnowsColors
    <3> QED BY <1>1, <1>2, <1>6, <1>7, <2>1, <3>2, <3>3, <3>4 DEF KnowsColors
  <2>2. CASE u # t
    <3>1. KnowsColors(u) /\ job'[u] = job[u]
      BY <1>3, <1>7, <2>2 DEF TasksKnowColors
    <3>2. job[u].s # s /\ job[u].s \in Vertices
      BY <1>3, <1>4, <1>7, <2>2, JobIs DEF PlacesAreApart
    <3>3. used_color'[job[u].s] = used_color[job[u].s]
      BY <1>10, <3>2
    <3> QED BY <1>1, <1>2, <3>1, <3>3 DEF KnowsColors
  <2> QED BY <2>1, <2>2
<1>18. ColorsAreLeast'
  BY <1>1, <1>2, <1>3 DEF ColorsAreLeast, IsLeastFree
<1> QED BY <1>12, <1>13, <1>15, <1>16, <1>17, <1>18 DEF Sound

LEMMA CountDownSound ==
  ASSUME Sound, NEW t \in Tasks, CountDown(t)
  PROVE  Sound'
<1>0. PICK s \in Vertices, d \in Vertices : s = job[t].s /\ d = job[t].d
  <2>1. job[t].at = "sub" /\ Types /\ job[t] # Idle
    BY JobIs DEF CountDown, Sound, Idle
  <2> QED BY <2>1, JobIs
<1> DEFINE new == [job[t] EXCEPT !.at = "visit"]
<1>1. /\ job[t].at = "sub" /\ frontier' = frontier
      /\ num_blockers' = [num_blockers EXCEPT ![d] = (num_blockers[d] - 1) % (2 ^ Width)]
      /\ next_frontier' = IF num_blockers[d] = 1 THEN next_frontier \cup {d} ELSE next_frontier
      /\ color' = color /\ used_color' = used_color
      /\ graph' = graph /\ hash32' = hash32 /\ job' = [job EXCEPT ![t] = new]
  BY <1>0 DEF CountDown, Last
<1>2. /\ \A x : Neighbours(x)' = Neighbours(x) /\ deg(x)' = deg(x) /\ Blockers(x)' = Blockers(x)
      /\ None' = None
  BY <1>1, GraphStays DEF None
<1>3. Types /\ PlacesAreApart /\ CountsAreKept /\ BlockersGoFirst /\ TasksKnowColors /\ ColorsAreLeast
  BY DEF Sound
<1>4. /\ job[t] # Idle /\ s \in Coloring
      /\ s \in Vertices /\ d \in Vertices /\ s = job[t].s /\ d = job[t].d
  BY <1>0, <1>1, <1>3, JobIs
<1>5. KnowsColors(t) /\ d \in Neighbours(s) /\ d \notin job[t].ds /\ color[d] = None /\ color[s] = None
  BY <1>1, <1>3, <1>4 DEF TasksKnowColors, KnowsColors, PlacesAreApart, Placed
<1>6. /\ new \in Jobs /\ new # Idle /\ new.s = s /\ new.ds = job[t].ds /\ new.used = job[t].used
      /\ new.at = "visit"
  <2>1. job[t] \in Jobs
    BY <1>4, JobIs, <1>3
  <2>2. job[t] \in [at : {"visit", "sub"}, s : Vertices, ds : SUBSET Vertices, d : Vertices,
                    used : SUBSET Nat]
    BY <1>1, <2>1 DEF Jobs, Idle
  <2>3. new \in [at : {"visit", "sub"}, s : Vertices, ds : SUBSET Vertices, d : Vertices,
                 used : SUBSET Nat] /\ new.at = "visit"
    BY <2>2
  <2>4. new # Idle
    BY <2>3 DEF Idle
  <2>5. new.s = s /\ new.ds = job[t].ds /\ new.used = job[t].used
    BY <1>4, <2>2
  <2> QED BY <2>3, <2>4, <2>5 DEF Jobs
<1> HIDE DEF new
<1>7. job' \in [Tasks -> Jobs] /\ job'[t] = new /\ \A u \in Tasks : u # t => job'[u] = job[u]
  BY <1>1, <1>3, <1>6 DEF Types
<1>8. \A u \in Tasks : (job'[u] # Idle <=> job[u] # Idle) /\ job'[u].s = job[u].s
  BY <1>4, <1>6, <1>7
<1>9. Coloring' = Coloring
  BY <1>1, <1>8 DEF Coloring, Idle
<1>10. s \in Blockers(d) /\ d \notin Blockers(s)
  <2>1. d \notin Blockers(s)
    BY <1>3, <1>4, <1>5 DEF BlockersGoFirst
  <2> QED BY <1>3, <1>4, <1>5, <2>1, BlockersAre DEF Types
<1>11. s \in Uncounted(d)
  <2>1. \A u \in Tasks : ~ HasTold(u, s, d)
    BY <1>1, <1>3, <1>4 DEF HasTold, PlacesAreApart
  <2> QED BY <1>5, <1>10, <2>1 DEF Uncounted, Counted
<1>12. \A x \in Vertices : x # d => Uncounted(x)' = Uncounted(x)
  <2> SUFFICES ASSUME NEW x \in Vertices, x # d, NEW e \in Blockers(x) PROVE Counted(e, x)' <=> Counted(e, x)
    BY <1>2 DEF Uncounted
  <2>1. ASSUME NEW u \in Tasks PROVE HasTold(u, e, x)' <=> HasTold(u, e, x)
    BY <1>1, <1>4, <1>6, <1>7 DEF HasTold, Idle
  <2> QED BY <1>1, <1>2, <2>1 DEF Counted
<1>13. Uncounted(d)' = Uncounted(d) \ {s}
  <2>1. ASSUME NEW e \in Blockers(d), e # s PROVE Counted(e, d)' <=> Counted(e, d)
    <3>1. ASSUME NEW u \in Tasks PROVE HasTold(u, e, d)' <=> HasTold(u, e, d)
      BY <1>1, <1>4, <1>6, <1>7, <2>1 DEF HasTold, Idle
    <3> QED BY <1>1, <1>2, <3>1 DEF Counted
  <2>2. HasTold(t, s, d)'
    BY <1>4, <1>5, <1>6, <1>7 DEF HasTold, Idle
  <2>3. Counted(s, d)'
    BY <2>2 DEF Counted
  <2> QED BY <1>2, <2>1, <2>3 DEF Uncounted
<1>14. /\ num_blockers[d] \in Nat /\ num_blockers[d] > 0 /\ num_blockers'[d] = num_blockers[d] - 1
       /\ num_blockers'[d] = Cardinality(Uncounted(d)') /\ num_blockers' \in [Vertices -> Nat]
       /\ \A x \in Vertices : x # d => num_blockers'[x] = num_blockers[x]
  <2>1. IsFiniteSet(Uncounted(d)) /\ Uncounted(d) \subseteq Vertices
    <3>1. Blockers(d) \subseteq Vertices /\ IsFiniteSet(Blockers(d))
      BY <1>3, <1>4, BlockersAre, NeighboursAre DEF Types
    <3> QED BY <3>1, FS_Subset DEF Uncounted
  <2>2. Cardinality(Uncounted(d)') = Cardinality(Uncounted(d)) - 1
    BY <1>11, <1>13, <2>1, FS_RemoveElement
  <2>3. num_blockers[d] = Cardinality(Uncounted(d)) /\ num_blockers[d] \in Nat
    BY <1>3, <1>4 DEF CountsAreKept, Types
  <2>4. num_blockers[d] > 0
    BY <1>11, <2>1, <2>3, FS_EmptySet
  <2>5. num_blockers[d] <= Cardinality(Vertices)
    BY <2>1, <2>3, FS_Subset, ColoringAssumption
  <2>6. Cardinality(Vertices) \in Nat /\ None \in Nat /\ Cardinality(Vertices) <= None /\ 2 ^ Width = None + 1
    BY <1>3, DegreesAre DEF Types
  <2>7. (num_blockers[d] - 1) % (2 ^ Width) = num_blockers[d] - 1
    <3>1. num_blockers[d] - 1 \in 0..None
      BY <2>3, <2>4, <2>5, <2>6
    <3>2. \A a \in Nat : \A b \in 0..a : b % (a + 1) = b
      OBVIOUS
    <3> QED BY <2>6, <3>1, <3>2
  <2>8. /\ num_blockers'[d] = num_blockers[d] - 1 /\ num_blockers' \in [Vertices -> Nat]
        /\ \A x \in Vertices : x # d => num_blockers'[x] = num_blockers[x]
    <3>1. num_blockers' = [num_blockers EXCEPT ![d] = num_blockers[d] - 1]
      BY <1>1, <2>7
    <3>2. num_blockers \in [Vertices -> Nat] /\ num_blockers[d] - 1 \in Nat
      BY <1>3, <2>3, <2>4 DEF Types
    <3> QED BY <1>4, <3>1, <3>2
  <2> QED BY <2>2, <2>3, <2>4, <2>8
<1>15. IF num_blockers[d] = 1 THEN Uncounted(d)' = {} ELSE Uncounted(d)' # {}
  <2>1. IsFiniteSet(Uncounted(d)')
    <3>1. Blockers(d) \subseteq Vertices /\ IsFiniteSet(Blockers(d))
      BY <1>3, <1>4, BlockersAre, NeighboursAre DEF Types
    <3> QED BY <1>13, <3>1, FS_Subset DEF Uncounted
  <2>2. Cardinality(Uncounted(d)') = 0 <=> Uncounted(d)' = {}
    BY <2>1, FS_EmptySet
  <2> QED BY <1>14, <2>2
<1>16. d \notin Placed
  BY <1>3, <1>4, <1>11 DEF CountsAreKept
<1>17. Placed' = IF num_blockers[d] = 1 THEN Placed \cup {d} ELSE Placed
  BY <1>1, <1>9 DEF Placed
<1>18. Types'
  BY <1>1, <1>2, <1>3, <1>4, <1>7, <1>14 DEF Types
<1>19. PlacesAreApart'
  <2>1. \A u, v \in Tasks : job'[u] # Idle /\ job'[v] # Idle /\ job'[u].s = job'[v].s => u = v
    BY <1>3, <1>8 DEF PlacesAreApart
  <2>2. \A x \in Vertices : color'[x] = None /\ x \notin Coloring' => used_color'[x] = {}
    BY <1>1, <1>3, <1>9 DEF PlacesAreApart
  <2>3. \A x \in Placed' : color'[x] = None'
    BY <1>1, <1>2, <1>3, <1>5, <1>17 DEF PlacesAreApart
  <2>4. frontier' \cap next_frontier' = {} /\ Coloring' \cap (frontier' \cup next_frontier') = {}
    BY <1>1, <1>3, <1>9, <1>16 DEF PlacesAreApart, Placed
  <2> QED BY <1>2, <2>1, <2>2, <2>3, <2>4 DEF PlacesAreApart, Idle
<1>20. CountsAreKept'
  <2> SUFFICES ASSUME NEW x \in Vertices
               PROVE  /\ num_blockers'[x] = Cardinality(Uncounted(x)')
                      /\ x \in Placed' => Uncounted(x)' = {}
                      /\ color'[x] # None' \/ x \in Placed' \/ Uncounted(x)' # {}
    BY DEF CountsAreKept
  <2>1. CASE x = d
    BY <1>14, <1>15, <1>16, <1>17, <2>1
  <2>2. CASE x # d
    BY <1>1, <1>2, <1>3, <1>12, <1>14, <1>17, <2>2 DEF CountsAreKept
  <2> QED BY <2>1, <2>2
<1>21. BlockersGoFirst'
  BY <1>1, <1>2, <1>3, <1>9 DEF BlockersGoFirst
<1>22. TasksKnowColors'
  <2> SUFFICES ASSUME NEW u \in Tasks, job'[u] # Idle PROVE KnowsColors(u)'
    BY DEF TasksKnowColors, Idle
  <2>1. CASE u = t
    BY <1>1, <1>2, <1>4, <1>5, <1>6, <1>7, <2>1 DEF KnowsColors
  <2>2. CASE u # t
    <3>1. KnowsColors(u) /\ job'[u] = job[u]
      BY <1>3, <1>7, <2>2 DEF TasksKnowColors
    <3> QED BY <1>1, <1>2, <3>1 DEF KnowsColors
  <2> QED BY <2>1, <2>2
<1>23. ColorsAreLeast'
  BY <1>1, <1>2, <1>3 DEF ColorsAreLeast, IsLeastFree
<1> QED BY <1>18, <1>19, <1>20, <1>21, <1>22, <1>23 DEF Sound

-----------------------------------------------------------------------------
(* The choice of a colour. *)

LEMMA MinIsLeast ==
  ASSUME NEW S \in SUBSET Nat, S # {}
  PROVE  Min(S) \in S /\ Min(S) \in Nat /\ \A q \in S : Min(S) <= q
<1>1. \E m \in S : \A d \in S : ~ <<d, m>> \in OpToRel(<, Nat)
  BY WFMin, NatLessThanWellFounded, Zenon
<1>2. PICK m \in S : \A d \in S : ~ <<d, m>> \in OpToRel(<, Nat)
  BY <1>1
<1>3. \A d \in S : m <= d
  <2>1. \A d \in S : ~ d < m
    BY <1>2 DEF OpToRel
  <2> QED BY <2>1
<1>4. Min(S) \in S /\ \A q \in S : Min(S) <= q
  BY <1>3, Zenon DEF Min
<1> QED BY <1>4

LEMMA MinWhenLeast ==
  ASSUME NEW S \in SUBSET Nat, NEW m \in S, \A q \in S : m <= q
  PROVE  Min(S) = m
<1>1. Min(S) \in S /\ Min(S) \in Nat /\ \A q \in S : Min(S) <= q
  BY MinIsLeast
<1>2. Min(S) <= m /\ m <= Min(S) /\ m \in Nat
  BY <1>1
<1> QED BY <1>1, <1>2

(* Neighbours leave one of the colours up to the degree, there are not enough. *)
LEMMA SomeColorIsFree ==
  ASSUME Types, NEW s \in Vertices
  PROVE  \E c \in 0..deg(s) : \A d \in Neighbours(s) : color[d] # c
<1> SUFFICES ASSUME \A c \in 0..deg(s) : \E d \in Neighbours(s) : color[d] = c
             PROVE  FALSE
  OBVIOUS
<1> DEFINE g == [c \in 0..deg(s) |-> CHOOSE d \in Neighbours(s) : color[d] = c]
<1>1. IsFiniteSet(Neighbours(s)) /\ deg(s) = Cardinality(Neighbours(s)) /\ deg(s) \in Nat
  BY DegreesAre DEF Types
<1>2. \A c \in 0..deg(s) : g[c] \in Neighbours(s) /\ color[g[c]] = c
  OBVIOUS
<1>3. g \in Injection(0..deg(s), Neighbours(s))
  <2>1. g \in [0..deg(s) -> Neighbours(s)]
    BY <1>2
  <2>2. \A a, b \in 0..deg(s) : g[a] = g[b] => a = b
    <3> HIDE DEF g
    <3> QED BY <1>2
  <2>3. \A a, b \in DOMAIN g : g[a] = g[b] => a = b
    <3> HIDE DEF g
    <3> QED BY <2>1, <2>2
  <2> HIDE DEF g
  <2> QED BY <2>1, <2>3 DEF Injection, IsInjective
<1>4. Cardinality(0..deg(s)) <= Cardinality(Neighbours(s))
  <2> HIDE DEF g
  <2> QED BY <1>1, <1>3, FS_Injection
<1>5. Cardinality(0..deg(s)) = deg(s) + 1
  BY <1>1, FS_Interval
<1> QED BY <1>1, <1>4, <1>5

(* The choice of a task that has seen all neighbours of s. *)
LEMMA ChosenIsLeast ==
  ASSUME Sound, NEW t \in Tasks, NEW s \in Vertices, job[t].s = s,
         job[t].at = "visit", job[t].ds = {}
  PROVE  IsLeastFree(Chosen(s, job[t].used), s) /\ Chosen(s, job[t].used) \in Nat
<1> DEFINE free == (0..Palette - 1) \ job[t].used
           over == {deg(s)} \cup ((Palette..deg(s) - 1) \ used_color[s])
           c    == Chosen(s, job[t].used)
           Seen(x) == \E d \in Neighbours(s) : color[d] = x
<1>1. /\ deg(s) \in Nat /\ Palette \in Nat /\ Palette > 0 /\ None \in Nat /\ deg(s) < None
      /\ \A d \in Neighbours(s) : d \in Vertices /\ color[d] \in Nat
  BY DegreesAre, NeighboursAre DEF Sound, Types
<1>2. KnowsColors(t) /\ job[t] # Idle /\ s \in Coloring
  BY JobIs DEF Sound, TasksKnowColors, Idle
<1>3. /\ \A x \in Nat : x \in job[t].used <=> x < Palette /\ Seen(x)
      /\ \A x \in Palette..(deg(s) - 1) : x \in used_color[s] <=> Seen(x)
  BY <1>2 DEF KnowsColors
<1>4. \E x \in 0..deg(s) : ~ Seen(x)
  BY SomeColorIsFree DEF Sound, Types
<1>5. \A d \in Neighbours(s) : d \notin Blockers(s) => color[d] = None
  <2> SUFFICES ASSUME NEW d \in Neighbours(s), d \notin Blockers(s) PROVE color[d] = None
    OBVIOUS
  <2>1. s \in Blockers(d) /\ color[s] = None
    BY <1>1, <1>2, BlockersAre DEF Sound, Types, PlacesAreApart, Placed
  <2> QED BY <1>1, <2>1 DEF Sound, BlockersGoFirst
<1> HIDE DEF Seen
<1>6. c \in 0..deg(s) /\ ~ Seen(c) /\ \A x \in 0..(c - 1) : Seen(x)
  <2>1. CASE free # {}
    <3>1. c = Min(free)
      BY <2>1 DEF Chosen
    <3>2. free \in SUBSET Nat /\ \A x \in free : x < Palette
      BY <1>1
    <3>3. c \in free /\ c \in Nat /\ \A x \in free : c <= x
      <4> HIDE DEF free, c
      <4> QED BY <2>1, <3>1, <3>2, MinIsLeast
    <3>4. ~ Seen(c) /\ c < Palette
      <4>1. c \in 0..(Palette - 1) /\ c \notin job[t].used
        BY <3>3
      <4> HIDE DEF c
      <4> QED BY <1>1, <1>3, <4>1
    <3>5. \A x \in 0..(c - 1) : Seen(x)
      <4> SUFFICES ASSUME NEW x \in 0..(c - 1), ~ Seen(x) PROVE FALSE
        OBVIOUS
      <4>1. x \in Nat /\ x < c /\ x < Palette
        <5> HIDE DEF c
        <5> QED BY <1>1, <3>3, <3>4
      <4>2. x \in free
        BY <1>1, <1>3, <4>1
      <4> HIDE DEF c, free
      <4> QED BY <3>3, <4>1, <4>2
    <3>6. c <= deg(s)
      <4> HIDE DEF c
      <4>1. PICK x \in 0..deg(s) : ~ Seen(x)
        BY <1>4
      <4> QED BY <1>1, <3>3, <3>5, <4>1
    <3> HIDE DEF c
    <3> QED BY <1>1, <3>3, <3>4, <3>5, <3>6
  <2>2. CASE free = {}
    <3>1. c = Min(over)
      BY <2>2 DEF Chosen
    <3>2. over \in SUBSET Nat /\ over # {}
      BY <1>1
    <3>3. c \in over /\ c \in Nat /\ \A x \in over : c <= x
      <4> HIDE DEF over, c
      <4> QED BY <3>1, <3>2, MinIsLeast
    <3>4. \A x \in 0..(Palette - 1) : Seen(x)
      BY <1>1, <1>3, <2>2
    <3>5. c <= deg(s)
      <4> HIDE DEF c
      <4> QED BY <1>1, <3>3
    <3>6. \A x \in 0..(c - 1) : Seen(x)
      <4> SUFFICES ASSUME NEW x \in 0..(c - 1), ~ Seen(x) PROVE FALSE
        OBVIOUS
      <4>1. x \in Nat /\ x < c /\ x >= Palette /\ x < deg(s)
        <5> HIDE DEF c
        <5> QED BY <1>1, <3>3, <3>4, <3>5
      <4>2. x \in over
        BY <1>1, <1>3, <4>1
      <4> HIDE DEF c, over
      <4> QED BY <3>3, <4>1, <4>2
    <3>7. ~ Seen(c)
      <4>1. CASE c = deg(s)
        <5>1. PICK x \in 0..deg(s) : ~ Seen(x)
          BY <1>4
        <5> HIDE DEF c
        <5>2. x = c
          BY <1>1, <3>6, <4>1, <5>1
        <5> QED BY <5>1, <5>2
      <4>2. CASE c # deg(s)
        <5>1. c \in Palette..(deg(s) - 1) /\ c \notin used_color[s]
          BY <3>3, <4>2
        <5> HIDE DEF c
        <5> QED BY <1>3, <5>1
      <4> QED BY <4>1, <4>2
    <3> HIDE DEF c
    <3> QED BY <1>1, <3>3, <3>5, <3>6, <3>7
  <2> QED BY <2>1, <2>2
<1> HIDE DEF c
<1>7. \A d \in Blockers(s) : color[d] # c
  BY <1>6 DEF Seen, Blockers
<1>8. \A x \in 0..(c - 1) : \E d \in Blockers(s) : color[d] = x
  <2> SUFFICES ASSUME NEW x \in 0..(c - 1) PROVE \E d \in Blockers(s) : color[d] = x
    OBVIOUS
  <2>1. PICK d \in Neighbours(s) : color[d] = x
    BY <1>6 DEF Seen
  <2>2. x # None
    BY <1>1, <1>6
  <2> QED BY <1>5, <2>1, <2>2
<1>9. c \in Nat
  BY <1>1, <1>6
<1> QED BY <1>6, <1>7, <1>8, <1>9 DEF IsLeastFree, c

LEMMA ChooseSound ==
  ASSUME Sound, NEW t \in Tasks, Choose(t)
  PROVE  Sound'
<1>0. PICK s \in Vertices : s = job[t].s /\ s \in Coloring
  <2>1. Types /\ job[t] # Idle
    BY DEF Choose, Sound, Idle
  <2> QED BY <2>1, JobIs
<1>1. PICK c \in Nat :
      /\ job[t].at = "visit" /\ job[t].ds = {} /\ frontier' = frontier
      /\ next_frontier' = next_frontier /\ num_blockers' = num_blockers
      /\ color' = [color EXCEPT ![s] = c] /\ IsLeastFree(c, s)
      /\ job' = [job EXCEPT ![t] = Idle] /\ used_color' = used_color
      /\ graph' = graph /\ hash32' = hash32
  <2>1. IsLeastFree(Chosen(s, job[t].used), s) /\ Chosen(s, job[t].used) \in Nat
    BY <1>0, ChosenIsLeast DEF Choose
  <2> QED BY <1>0, <2>1 DEF Choose
<1>2. /\ \A x : Neighbours(x)' = Neighbours(x) /\ deg(x)' = deg(x) /\ Blockers(x)' = Blockers(x)
      /\ None' = None
  BY <1>1, GraphStays DEF None
<1>3. Types /\ PlacesAreApart /\ CountsAreKept /\ BlockersGoFirst /\ TasksKnowColors /\ ColorsAreLeast
  BY DEF Sound
<1>4. job[t] # Idle /\ s \in Vertices /\ s \in Coloring /\ s = job[t].s /\ color[s] = None
  BY <1>0, <1>1, <1>3 DEF PlacesAreApart, Placed, Idle
<1>5. c \in 0..deg(s) /\ c # None /\ deg(s) \in Nat /\ None \in Nat
  BY <1>1, <1>3, <1>4, DegreesAre DEF IsLeastFree, Types
<1>6. /\ color' \in [Vertices -> Nat] /\ color'[s] = c
      /\ \A x \in Vertices : x # s => color'[x] = color[x]
  BY <1>1, <1>3 DEF Types
<1>7. job' \in [Tasks -> Jobs] /\ job'[t] = Idle /\ \A u \in Tasks : u # t => job'[u] = job[u]
  BY <1>1, <1>3 DEF Types, Jobs
<1>8. Coloring' = Coloring \ {s}
  <2>1. \A u \in Tasks : u # t /\ job[u] # Idle => job[u].s # s
    BY <1>3, <1>4 DEF PlacesAreApart
  <2> QED BY <1>4, <1>7, <2>1 DEF Coloring, Idle
<1>9. s \notin frontier /\ s \notin next_frontier /\ Placed' = Placed \ {s}
  BY <1>1, <1>3, <1>4, <1>8 DEF PlacesAreApart, Placed
<1>10. Types'
  BY <1>1, <1>2, <1>3, <1>5, <1>6, <1>7 DEF Types
<1>11. PlacesAreApart'
  <2>1. \A u, v \in Tasks : job'[u] # Idle /\ job'[v] # Idle /\ job'[u].s = job'[v].s => u = v
    BY <1>3, <1>7 DEF PlacesAreApart
  <2>2. \A x \in Vertices : color'[x] = None /\ x \notin Coloring' => used_color'[x] = {}
    BY <1>1, <1>3, <1>5, <1>6, <1>8 DEF PlacesAreApart
  <2>3. Placed \subseteq Vertices
    BY <1>3, JobIs DEF Placed, Coloring, Types
  <2>4. \A x \in Placed' : color'[x] = None'
    BY <1>2, <1>3, <1>6, <1>9, <2>3 DEF PlacesAreApart
  <2>5. frontier' \cap next_frontier' = {} /\ Coloring' \cap (frontier' \cup next_frontier') = {}
    BY <1>1, <1>3, <1>8 DEF PlacesAreApart
  <2> QED BY <1>2, <2>1, <2>2, <2>4, <2>5 DEF PlacesAreApart, Idle
<1>12. \A x \in Vertices : Uncounted(x)' = Uncounted(x)
  <2> SUFFICES ASSUME NEW x \in Vertices, NEW e \in Blockers(x) PROVE Counted(e, x)' <=> Counted(e, x)
    BY <1>2 DEF Uncounted
  <2>0. e \in Vertices
    BY <1>3, BlockersAre DEF Types
  <2>1. CASE e = s
    <3>1. HasTold(t, e, x)
      BY <1>1, <1>4, <2>1 DEF HasTold
    <3>2. color'[e] # None'
      BY <1>2, <1>5, <1>6, <2>1
    <3> QED BY <3>1, <3>2 DEF Counted
  <2>2. CASE e # s
    <3>1. ASSUME NEW u \in Tasks PROVE HasTold(u, e, x)' <=> HasTold(u, e, x)
      BY <1>4, <1>7, <2>2 DEF HasTold, Idle
    <3> QED BY <1>2, <1>6, <2>0, <2>2, <3>1 DEF Counted
  <2> QED BY <2>1, <2>2
<1>13. CountsAreKept'
  <2>1. \A x \in Vertices : color'[x] # None \/ x \in Placed' \/ Uncounted(x)' # {}
    BY <1>3, <1>5, <1>6, <1>9, <1>12 DEF CountsAreKept
  <2> QED BY <1>1, <1>2, <1>3, <1>9, <1>12, <2>1 DEF CountsAreKept
<1>14. \A x \in Vertices : color[x] # None => color'[x] = color[x]
  BY <1>4, <1>6
<1>15. \A x \in Vertices : Blockers(x) \subseteq Vertices
  BY <1>3, BlockersAre DEF Types
<1>16. BlockersGoFirst'
  <2> SUFFICES ASSUME NEW x \in Vertices, color'[x] # None \/ x \in frontier \cup (Coloring \ {s}),
                      NEW d \in Blockers(x)
               PROVE  color'[d] # None
    BY <1>1, <1>2, <1>8 DEF BlockersGoFirst
  <2>1. color[x] # None \/ x \in frontier \cup Coloring
    BY <1>4, <1>6
  <2>2. color[d] # None /\ d \in Vertices
    BY <1>3, <1>15, <2>1 DEF BlockersGoFirst
  <2> QED BY <1>14, <2>2
<1>17. TasksKnowColors'
  <2> SUFFICES ASSUME NEW u \in Tasks, job'[u] # Idle PROVE KnowsColors(u)'
    BY DEF TasksKnowColors, Idle
  <2>1. u # t /\ KnowsColors(u) /\ job'[u] = job[u] /\ job[u] # Idle
    BY <1>3, <1>7 DEF TasksKnowColors
  <2>2. job[u].s \in Coloring
    BY <1>3, <2>1, JobIs
  <2>3. s \notin Neighbours(job[u].s)
    BY <1>4, <2>2, NeighboursAreApart
  <2>4. \A d \in Neighbours(job[u].s) : color'[d] = color[d]
    BY <1>3, <1>6, <2>3, NeighboursAre DEF Types
  <2>5. job[u].at = "sub" => job[u].d \in Neighbours(job[u].s)
    BY <2>1 DEF KnowsColors
  <2> QED BY <1>1, <1>2, <2>1, <2>4, <2>5 DEF KnowsColors
<1>18. ColorsAreLeast'
  <2> SUFFICES ASSUME NEW x \in Vertices, color'[x] # None
               PROVE  /\ color'[x] \in 0..deg(x) /\ \A d \in Blockers(x) : color'[d] # color'[x]
                      /\ \A y \in 0..(color'[x] - 1) : \E d \in Blockers(x) : color'[d] = y
    BY <1>2 DEF ColorsAreLeast, IsLeastFree
  <2>1. IsLeastFree(color'[x], x)
    BY <1>1, <1>3, <1>4, <1>6 DEF ColorsAreLeast
  <2>2. \A d \in Blockers(x) : color'[d] = color[d]
    <3>1. x = s \/ color[x] # None
      BY <1>6
    <3>2. \A d \in Blockers(x) : color[d] # None
      BY <1>3, <1>4, <3>1 DEF BlockersGoFirst
    <3> QED BY <1>14, <1>15, <3>2
  <2> QED BY <2>1, <2>2 DEF IsLeastFree
<1> QED BY <1>10, <1>11, <1>13, <1>16, <1>17, <1>18 DEF Sound

LEMMA SwapSound ==
  ASSUME Sound, Swap
  PROVE  Sound'
<1>1. /\ frontier = {} /\ \A t \in Tasks : job[t] = Idle
      /\ frontier' = next_frontier /\ next_frontier' = {} /\ color' = color
      /\ num_blockers' = num_blockers /\ used_color' = used_color /\ job' = job
      /\ graph' = graph /\ hash32' = hash32
  BY DEF Swap
<1>2. /\ \A x : Neighbours(x)' = Neighbours(x) /\ deg(x)' = deg(x) /\ Blockers(x)' = Blockers(x)
      /\ None' = None /\ Idle' = Idle
  BY <1>1, GraphStays DEF None, Idle
<1>3. Types /\ PlacesAreApart /\ CountsAreKept /\ BlockersGoFirst /\ TasksKnowColors /\ ColorsAreLeast
  BY DEF Sound
<1>4. Coloring = {} /\ Coloring' = {} /\ Placed' = Placed
  BY <1>1, <1>2 DEF Coloring, Placed
<1>5. \A x \in Vertices : Uncounted(x)' = Uncounted(x)
  BY <1>1, <1>2 DEF Uncounted, Counted, HasTold
<1>6. Types'
  BY <1>1, <1>2, <1>3 DEF Types
<1>7. PlacesAreApart'
  <2>1. \A u, v \in Tasks : job'[u] # Idle /\ job'[v] # Idle /\ job'[u].s = job'[v].s => u = v
    BY <1>1
  <2> QED BY <1>1, <1>2, <1>3, <1>4, <2>1 DEF PlacesAreApart
<1>8. CountsAreKept'
  BY <1>1, <1>2, <1>3, <1>4, <1>5 DEF CountsAreKept
<1>9. BlockersGoFirst'
  <2> SUFFICES ASSUME NEW x \in Vertices, color[x] # None \/ x \in next_frontier, NEW d \in Blockers(x)
               PROVE  color[d] # None
    BY <1>1, <1>2, <1>4 DEF BlockersGoFirst
  <2>1. CASE color[x] # None
    BY <1>3, <2>1 DEF BlockersGoFirst
  <2>2. CASE x \in next_frontier
    <3>1. Counted(d, x)
      BY <1>3, <2>2 DEF CountsAreKept, Uncounted, Placed
    <3> QED BY <1>1, <3>1 DEF Counted, HasTold
  <2> QED BY <2>1, <2>2
<1>10. TasksKnowColors'
  BY <1>1, <1>2 DEF TasksKnowColors
<1>11. ColorsAreLeast'
  BY <1>1, <1>2, <1>3 DEF ColorsAreLeast, IsLeastFree
<1> QED BY <1>6, <1>7, <1>8, <1>9, <1>10, <1>11 DEF Sound

LEMMA InitSound ==
  ASSUME Init
  PROVE  Sound
<1>1. /\ graph \in Graphs /\ hash32 \in Hashes
      /\ color = [s \in Vertices |-> IF deg(s) = 0 THEN 0 ELSE None]
      /\ num_blockers = [s \in Vertices |-> Cardinality(Blockers(s))]
      /\ frontier = {s \in Vertices : deg(s) > 0 /\ Blockers(s) = {}} /\ next_frontier = {}
      /\ used_color = [s \in Vertices |-> {}]
      /\ job = [t \in Tasks |-> Idle]
  BY DEF Init
<1>2. /\ None \in Nat
      /\ \A s \in Vertices :
           /\ deg(s) \in Nat /\ deg(s) < None /\ (deg(s) = 0 <=> Neighbours(s) = {})
           /\ IsFiniteSet(Blockers(s)) /\ (deg(s) # 0 \/ Blockers(s) = {})
           /\ Blockers(s) \subseteq Vertices /\ Blockers(s) \subseteq Neighbours(s)
           /\ Cardinality(Blockers(s)) \in Nat
  BY <1>1, DegreesAre, BlockersAre, FS_CardinalityType
<1>3. Coloring = {} /\ Placed = frontier
  BY <1>1 DEF Coloring, Placed
<1>4. \A s \in Vertices : color[s] \in Nat /\ (color[s] # None <=> deg(s) = 0) /\ (deg(s) = 0 => color[s] = 0)
  BY <1>1, <1>2
<1>5. \A s \in Vertices : Uncounted(s) = Blockers(s)
  <2> SUFFICES ASSUME NEW s \in Vertices, NEW d \in Blockers(s) PROVE ~ Counted(d, s)
    BY DEF Uncounted
  <2>1. s \in Neighbours(d) /\ d \in Vertices
    BY <1>1, <1>2, NeighboursAre
  <2>2. color[d] = None
    BY <1>2, <1>4, <2>1
  <2> QED BY <1>1, <2>2 DEF Counted, HasTold
<1>6. Types
  <2>1. \A s \in Vertices : color[s] \in 0..deg(s) \cup {None}
    BY <1>2, <1>4
  <2>2. color \in [Vertices -> Nat]
    BY <1>1, <1>2
  <2>3. num_blockers \in [Vertices -> Nat]
    BY <1>1, <1>2
  <2> QED BY <1>1, <2>1, <2>2, <2>3 DEF Types, Jobs
<1>7. PlacesAreApart
  BY <1>1, <1>2, <1>3, <1>4 DEF PlacesAreApart
<1>8. CountsAreKept
  <2> SUFFICES ASSUME NEW s \in Vertices
               PROVE  /\ num_blockers[s] = Cardinality(Uncounted(s))
                      /\ s \in Placed => Uncounted(s) = {}
                      /\ color[s] # None \/ s \in Placed \/ Uncounted(s) # {}
    BY DEF CountsAreKept
  <2> QED BY <1>1, <1>2, <1>3, <1>4, <1>5
<1>9. BlockersGoFirst
  BY <1>1, <1>2, <1>3, <1>4 DEF BlockersGoFirst
<1>10. TasksKnowColors
  BY <1>1 DEF TasksKnowColors
<1>11. ColorsAreLeast
  BY <1>1, <1>2, <1>4 DEF ColorsAreLeast, IsLeastFree
<1> QED BY <1>6, <1>7, <1>8, <1>9, <1>10, <1>11 DEF Sound

LEMMA StepSound ==
  ASSUME Sound, [Next]_vars
  PROVE  Sound'
<1>1. CASE UNCHANGED vars
  <2>1. /\ color' = color /\ num_blockers' = num_blockers /\ frontier' = frontier
        /\ next_frontier' = next_frontier /\ used_color' = used_color /\ job' = job
        /\ graph' = graph /\ hash32' = hash32
    BY <1>1 DEF vars
  <2>2. /\ \A x : Neighbours(x)' = Neighbours(x) /\ deg(x)' = deg(x) /\ Blockers(x)' = Blockers(x)
        /\ None' = None /\ Idle' = Idle
    BY <2>1, GraphStays DEF None, Idle
  <2>3. Coloring' = Coloring /\ Placed' = Placed /\ \A x : Uncounted(x)' = Uncounted(x)
    BY <2>1, <2>2 DEF Coloring, Placed, Uncounted, Counted, HasTold
  <2>4. Types' /\ PlacesAreApart' /\ CountsAreKept' /\ BlockersGoFirst'
    BY <2>1, <2>2, <2>3 DEF Sound, Types, PlacesAreApart, CountsAreKept, BlockersGoFirst
  <2>5. TasksKnowColors' /\ ColorsAreLeast'
    BY <2>1, <2>2 DEF Sound, TasksKnowColors, KnowsColors, ColorsAreLeast, IsLeastFree
  <2> QED BY <2>4, <2>5 DEF Sound
<1>2. CASE Swap
  BY <1>2, SwapSound
<1>3. CASE Done
  BY <1>1, <1>3 DEF Done
<1>4. ASSUME NEW t \in Tasks, CountDown(t) PROVE Sound'
  BY <1>4, CountDownSound
<1>5. ASSUME NEW t \in Tasks, Choose(t) PROVE Sound'
  BY <1>5, ChooseSound
<1>6. ASSUME NEW t \in Tasks, NEW s \in Vertices, Take(t, s) PROVE Sound'
  BY <1>6, TakeSound
<1>7. ASSUME NEW t \in Tasks, NEW s \in Vertices, Visit(t, s) PROVE Sound'
  BY <1>7, VisitSound
<1> QED BY <1>1, <1>2, <1>3, <1>4, <1>5, <1>6, <1>7 DEF Next

LEMMA Soundness == Spec => []Sound
<1>1. Init => Sound
  BY InitSound
<1>2. Sound /\ [Next]_vars => Sound'
  BY StepSound
<1> QED BY <1>1, <1>2, PTL DEF Spec

-----------------------------------------------------------------------------
LEMMA SoundIsRight ==
  ASSUME Sound
  PROVE  ColoringInvariant
<1>1. Types /\ PlacesAreApart /\ CountsAreKept
  BY DEF Sound
<1>2. Coloring \subseteq Vertices
  BY <1>1, JobIs DEF Coloring
<1>3. TypeOK
  <2>1. \A s \in Vertices : num_blockers[s] \in 0..Cardinality(Vertices)
    <3> SUFFICES ASSUME NEW s \in Vertices PROVE num_blockers[s] \in 0..Cardinality(Vertices)
      OBVIOUS
    <3>1. Uncounted(s) \subseteq Vertices
      BY <1>1, BlockersAre DEF Uncounted, Types
    <3>2. IsFiniteSet(Vertices)
      BY ColoringAssumption
    <3>3. Cardinality(Uncounted(s)) <= Cardinality(Vertices)
      BY <3>1, <3>2, FS_Subset
    <3>4. num_blockers[s] = Cardinality(Uncounted(s)) /\ num_blockers[s] \in Nat
      BY <1>1 DEF CountsAreKept, Types
    <3>5. Cardinality(Vertices) \in Nat
      BY <3>2, FS_CardinalityType
    <3> QED BY <3>3, <3>4, <3>5
  <2>2. num_blockers \in [Vertices -> 0..Cardinality(Vertices)]
    BY <1>1, <2>1 DEF Types
  <2> QED BY <1>1, <2>2 DEF TypeOK, Types, PlacesAreApart, Placed
<1>4. RoundsAreIndependent
  <2> SUFFICES ASSUME NEW e \in graph, e[1] \in frontier \cup Coloring, e[2] \in frontier \cup Coloring
               PROVE  FALSE
    BY DEF RoundsAreIndependent
  <2>1. e[2] \in Neighbours(e[1])
    BY DEF Neighbours
  <2> QED BY <2>1, NeighboursAreApart
<1>5. BlockersAreCounted
  <2>1. ASSUME NEW s \in Vertices PROVE s \in Placed => num_blockers[s] = 0
    BY <1>1, FS_EmptySet DEF CountsAreKept
  <2>2. \A s \in Vertices : num_blockers[s] = Cardinality({d \in Blockers(s) : ~ Counted(d, s)})
    BY <1>1 DEF CountsAreKept, Uncounted
  <2> QED BY <2>1, <2>2 DEF BlockersAreCounted, Counted, HasTold, Placed
<1> QED BY <1>3, <1>4, <1>5 DEF ColoringInvariant

(***************************************************************************)
(* A vertex waits exactly as long as neighbours before it have to count    *)
(* down, and no two neighbours are coloured in the same round.             *)
(***************************************************************************)
THEOREM ColoringIsSound == Spec => []ColoringInvariant
<1>1. Sound => ColoringInvariant
  BY SoundIsRight
<1> QED BY <1>1, Soundness, PTL

-----------------------------------------------------------------------------
(***************************************************************************)
(* The sequential algorithm.  The order of the vertices numbers them from  *)
(* 0, and greedy comes to nth(i) when it has coloured all before it.       *)
(***************************************************************************)
Rank(s) == Cardinality(before(s))

LEMMA RanksAre ==
  ASSUME graph \in Graphs, hash32 \in Hashes
  PROVE  /\ \A s \in Vertices : Rank(s) \in 0..(Cardinality(Vertices) - 1)
         /\ \A s, d \in Vertices : Rank(d) < Rank(s) <=> Blocks(d, s)
         /\ \A s, d \in Vertices : Rank(d) = Rank(s) => d = s
<1>1. IsFiniteSet(Vertices) /\ Cardinality(Vertices) \in Nat
  BY ColoringAssumption, FS_CardinalityType
<1>2. ASSUME NEW s \in Vertices
      PROVE  /\ IsFiniteSet(before(s)) /\ Rank(s) \in 0..(Cardinality(Vertices) - 1)
             /\ s \notin before(s)
  <2>1. before(s) \subseteq Vertices \ {s} /\ s \notin before(s)
    BY BlocksIsAnOrder DEF before
  <2>2. IsFiniteSet(Vertices \ {s}) /\ Cardinality(Vertices \ {s}) = Cardinality(Vertices) - 1
    BY <1>1, FS_RemoveElement
  <2>3. IsFiniteSet(before(s)) /\ Cardinality(before(s)) <= Cardinality(Vertices \ {s})
    BY <2>1, <2>2, FS_Subset
  <2>4. Cardinality(before(s)) \in Nat
    BY <2>3, FS_CardinalityType
  <2> QED BY <1>1, <2>1, <2>2, <2>3, <2>4 DEF Rank
<1>3. ASSUME NEW s \in Vertices, NEW d \in Vertices, Blocks(d, s)
      PROVE  Rank(d) < Rank(s)
  <2>1. before(d) \cup {d} \subseteq before(s)
    <3>1. \A x \in Vertices : Blocks(x, d) => Blocks(x, s)
      BY <1>3, BlocksIsAnOrder
    <3> QED BY <1>3, <3>1 DEF before
  <2>2. Cardinality(before(d) \cup {d}) = Rank(d) + 1
    BY <1>2, FS_AddElement DEF Rank
  <2>3. Cardinality(before(d) \cup {d}) <= Cardinality(before(s))
    BY <1>2, <2>1, FS_Subset
  <2>4. Rank(d) \in Nat /\ Rank(s) \in Nat
    BY <1>1, <1>2
  <2> QED BY <2>2, <2>3, <2>4 DEF Rank
<1>4. \A s, d \in Vertices : s = d \/ Blocks(s, d) \/ Blocks(d, s)
  BY BlocksIsAnOrder
<1>5. \A s \in Vertices : Rank(s) \in Nat
  BY <1>1, <1>2
<1> QED BY <1>2, <1>3, <1>4, <1>5

LEMMA RanksAreTaken ==
  ASSUME graph \in Graphs, hash32 \in Hashes, NEW i \in 0..(Cardinality(Vertices) - 1)
  PROVE  nth(i) \in Vertices /\ Rank(nth(i)) = i
<1> DEFINE N == Cardinality(Vertices)
           r == [s \in Vertices |-> Rank(s)]
           R == {Rank(s) : s \in Vertices}
<1>1. IsFiniteSet(Vertices) /\ N \in Nat
  BY ColoringAssumption, FS_CardinalityType
<1>2. R \subseteq 0..(N - 1)
  BY RanksAre
<1>3. r \in Bijection(Vertices, R)
  <2>1. r \in [Vertices -> R] /\ \A a, b \in Vertices : r[a] = r[b] => a = b
    BY RanksAre
  <2>2. \A x \in R : \E s \in Vertices : r[s] = x
    OBVIOUS
  <2> HIDE DEF r, R
  <2>3. \A a, b \in DOMAIN r : r[a] = r[b] => a = b
    BY <2>1
  <2> QED BY <2>1, <2>2, <2>3 DEF Bijection, Injection, Surjection, IsInjective
<1>4. Cardinality(R) = N
  <2> HIDE DEF r, R
  <2> QED BY <1>1, <1>3, FS_Bijection DEF ExistsBijection
<1>5. IsFiniteSet(0..(N - 1)) /\ Cardinality(0..(N - 1)) = N
  <2> HIDE DEF N
  <2>1. 0 \in Int /\ N - 1 \in Int
    BY <1>1
  <2>2. Cardinality(0..(N - 1)) = IF 0 > N - 1 THEN 0 ELSE (N - 1) - 0 + 1
    BY <2>1, FS_Interval
  <2> QED BY <1>1, <2>1, <2>2, FS_Interval
<1>6. R = 0..(N - 1)
  <2> HIDE DEF R, N
  <2> QED BY <1>2, <1>4, <1>5, FS_Subset
<1>7. \E s \in Vertices : Rank(s) = i
  BY <1>6
<1> QED BY <1>7 DEF nth, Rank

(* A step of the sequential algorithm gives the next vertex the colour that *)
(* the tasks gave it.                                                       *)
LEMMA GreedyAgrees ==
  ASSUME Sound, \A s \in Vertices : color[s] # None, NEW s \in Vertices, NEW prev,
         prev = [x \in Vertices |-> IF Rank(x) < Rank(s) THEN color[x] ELSE None]
  PROVE  /\ Min(0..deg(s) \ {prev[d] : d \in Neighbours(s)}) = color[s]
         /\ [prev EXCEPT ![s] = color[s]] =
              [x \in Vertices |-> IF Rank(x) < Rank(s) + 1 THEN color[x] ELSE None]
<1> DEFINE taken == {prev[d] : d \in Neighbours(s)}
<1>1. /\ deg(s) \in Nat /\ deg(s) < None /\ None \in Nat /\ IsLeastFree(color[s], s)
      /\ \A d \in Neighbours(s) : d \in Vertices
      /\ \A x \in Vertices : Rank(x) \in Nat /\ (Rank(x) = Rank(s) => x = s)
  BY DegreesAre, NeighboursAre, RanksAre DEF Sound, Types, ColorsAreLeast
<1>2. \A d \in Neighbours(s) : prev[d] = IF d \in Blockers(s) THEN color[d] ELSE None
  BY <1>1, RanksAre DEF Sound, Types, Blockers
<1>3. color[s] \in 0..deg(s) \ taken /\ 0..deg(s) \ taken \in SUBSET Nat
  <2>1. \A d \in Neighbours(s) : prev[d] # color[s]
    BY <1>1, <1>2 DEF IsLeastFree
  <2> QED BY <1>1, <2>1 DEF IsLeastFree
<1>4. \A c \in 0..deg(s) \ taken : color[s] <= c
  <2> SUFFICES ASSUME NEW c \in 0..deg(s), c < color[s] PROVE \E d \in Neighbours(s) : prev[d] = c
    BY <1>1, <1>3
  <2>1. PICK d \in Blockers(s) : color[d] = c
    BY <1>1, <1>3 DEF IsLeastFree
  <2> QED BY <1>2, <2>1 DEF Blockers
<1>5. Min(0..deg(s) \ taken) = color[s]
  <2> HIDE DEF taken
  <2> QED BY <1>3, <1>4, MinWhenLeast
<1>6. \A x \in Vertices : [prev EXCEPT ![s] = color[s]][x] = IF Rank(x) < Rank(s) + 1 THEN color[x] ELSE None
  BY <1>1
<1> QED BY <1>5, <1>6

LEMMA GreedyIs ==
  ASSUME Sound, \A s \in Vertices : color[s] # None
  PROVE  Greedy = color
<1> DEFINE N == Cardinality(Vertices)
           Step(f, i) ==
             IF i = 0 THEN [s \in Vertices |-> None]
                      ELSE LET prev == f[i - 1]
                               s    == nth(i - 1)
                           IN  [prev EXCEPT ![s] = Min(0..deg(s) \ {prev[d] : d \in Neighbours(s)})]
           Runs(f) == f = [i \in 0..N |-> Step(f, i)]
           g == [i \in 0..N |-> [x \in Vertices |-> IF Rank(x) < i THEN color[x] ELSE None]]
<1>1. /\ N \in Nat /\ color \in [Vertices -> Nat]
      /\ \A x \in Vertices : Rank(x) \in Nat /\ Rank(x) < N
  BY RanksAre, DegreesAre DEF Sound, Types
<1>2. ASSUME NEW f, NEW i \in 0..N, i = 0 \/ f[i - 1] = g[i - 1]
      PROVE  Step(f, i) = g[i]
  <2>1. CASE i = 0
    <3>1. g[0] = [x \in Vertices |-> None]
      BY <1>1
    <3> HIDE DEF g
    <3> QED BY <2>1, <3>1
  <2>2. CASE i # 0
    <3>1. i - 1 \in 0..(N - 1) /\ i - 1 \in 0..N
      BY <1>1, <2>2
    <3>2. nth(i - 1) \in Vertices /\ Rank(nth(i - 1)) = i - 1
      BY <3>1, RanksAreTaken DEF Sound, Types
    <3> DEFINE s == nth(i - 1)
               prev == [x \in Vertices |-> IF Rank(x) < Rank(s) THEN color[x] ELSE None]
    <3>3. f[i - 1] = prev
      BY <1>2, <2>2, <3>1, <3>2
    <3>4. s \in Vertices
      BY <3>2
    <3>5. /\ Min(0..deg(s) \ {prev[d] : d \in Neighbours(s)}) = color[s]
          /\ [prev EXCEPT ![s] = color[s]] =
               [x \in Vertices |-> IF Rank(x) < Rank(s) + 1 THEN color[x] ELSE None]
      <4> HIDE DEF s
      <4> QED BY <3>4, GreedyAgrees
    <3>6. g[i] = [x \in Vertices |-> IF Rank(x) < Rank(s) + 1 THEN color[x] ELSE None]
      <4>1. Rank(s) + 1 = i
        BY <3>1, <3>2
      <4> QED BY <4>1
    <3>7. Step(f, i) = [f[i - 1] EXCEPT ![s] = Min(0..deg(s) \ {f[i - 1][d] : d \in Neighbours(s)})]
      BY <2>2
    <3> HIDE DEF g, Step, prev, s
    <3>8. Step(f, i) = [prev EXCEPT ![s] = Min(0..deg(s) \ {prev[d] : d \in Neighbours(s)})]
      BY <3>3, <3>7, Zenon
    <3>9. Step(f, i) = [prev EXCEPT ![s] = color[s]]
      BY <3>5, <3>8, Zenon
    <3> QED BY <3>5, <3>6, <3>9, Zenon
  <2> QED BY <2>1, <2>2
<1>3. Runs(g)
  <2>1. \A i \in 0..N : Step(g, i) = g[i]
    <3> SUFFICES ASSUME NEW i \in 0..N PROVE Step(g, i) = g[i]
      OBVIOUS
    <3> HIDE DEF Step, g
    <3> QED BY <1>2
  <2>2. g = [i \in 0..N |-> g[i]]
    OBVIOUS
  <2> HIDE DEF g, Step
  <2> QED BY <2>1, <2>2
<1>4. Runs(greedy)
  <2>1. greedy = CHOOSE f : Runs(f)
    BY Zenon DEF greedy
  <2> HIDE DEF Runs
  <2>2. Runs(CHOOSE f : Runs(f))
    BY <1>3, Zenon
  <2> QED BY <2>1, <2>2, Zenon
<1>5. \A i \in 0..N : greedy[i] = Step(greedy, i)
  <2> HIDE DEF Step
  <2> QED BY <1>4
<1>6. \A i \in 0..N : greedy[i] = g[i]
  <2> HIDE DEF g, Step, N
  <2> SUFFICES ASSUME NEW k \in 0..N, greedy[k] # g[k] PROVE FALSE
    OBVIOUS
  <2> DEFINE Wrong == {i \in 0..N : greedy[i] # g[i]}
  <2>1. Wrong \in SUBSET Nat /\ Wrong # {}
    BY <1>1
  <2>2. Min(Wrong) \in Wrong /\ Min(Wrong) \in Nat /\ \A q \in Wrong : Min(Wrong) <= q
    <3> HIDE DEF Wrong
    <3> QED BY <2>1, MinIsLeast
  <2>3. PICK i \in 0..N : greedy[i] # g[i] /\ \A q \in Wrong : i <= q
    BY <2>2
  <2>4. i = 0 \/ greedy[i - 1] = g[i - 1]
    BY <1>1, <2>3
  <2> QED BY <1>2, <1>5, <2>3, <2>4
<1>7. g[N] = color
  <2>1. g[N] = [x \in Vertices |-> IF Rank(x) < N THEN color[x] ELSE None]
    BY <1>1
  <2> HIDE DEF g, N
  <2> QED BY <1>1, <2>1
<1>8. N \in 0..N
  BY <1>1
<1> HIDE DEF g
<1> QED BY <1>6, <1>7, <1>8 DEF Greedy

(* No vertex is left over: the first without a colour waits for nobody. *)
LEMMA AllAreColored ==
  ASSUME Sound, Ended, NEW s \in Vertices
  PROVE  color[s] # None
<1> SUFFICES ASSUME color[s] = None PROVE FALSE
  OBVIOUS
<1> DEFINE Left == {Rank(x) : x \in {y \in Vertices : color[y] = None}}
<1>1. \A x \in Vertices : Rank(x) \in Nat
  BY RanksAre DEF Sound, Types
<1>2. Left \in SUBSET Nat /\ Left # {}
  BY <1>1
<1>3. Min(Left) \in Left /\ \A q \in Left : Min(Left) <= q
  <2> HIDE DEF Left
  <2> QED BY <1>2, MinIsLeast
<1>4. PICK x \in Vertices : color[x] = None /\ \A y \in Vertices : color[y] = None => Rank(x) <= Rank(y)
  BY <1>3
<1>5. Placed = {}
  BY DEF Ended, Placed, Coloring
<1>6. PICK d \in Blockers(x) : ~ Counted(d, x)
  BY <1>4, <1>5 DEF Sound, CountsAreKept, Uncounted
<1>7. color[d] = None /\ d \in Vertices /\ Blocks(d, x)
  BY <1>6, BlockersAre DEF Counted, Blockers, Sound, Types
<1> QED BY <1>1, <1>4, <1>7, RanksAre DEF Sound, Types

LEMMA SoundIsGreedy ==
  ASSUME Sound
  PROVE  FindsGreedyColoring
<1>1. Ended => color = Greedy
  BY AllAreColored, GreedyIs
<1>2. ASSUME NEW e \in graph, color[e[1]] = color[e[2]] PROVE color[e[1]] = None
  <2>1. e[2] \in Neighbours(e[1])
    BY DEF Neighbours
  <2>2. e[1] \in Vertices /\ e[2] \in Vertices
    BY <2>1, NeighboursAre DEF Sound, Types
  <2>3. e[2] \in Blockers(e[1]) \/ e[1] \in Blockers(e[2])
    BY <2>1, <2>2, BlockersAre DEF Sound, Types
  <2> QED BY <1>2, <2>2, <2>3 DEF Sound, ColorsAreLeast, IsLeastFree
<1> QED BY <1>1, <1>2 DEF FindsGreedyColoring

(***************************************************************************)
(* The colouring is proper at all times, and at the end it is the one of   *)
(* the sequential algorithm, whatever the order in which tasks ran.        *)
(***************************************************************************)
THEOREM GreedyColoringIsFound == Spec => []FindsGreedyColoring
<1>1. Sound => FindsGreedyColoring
  BY SoundIsGreedy
<1> QED BY <1>1, Soundness, PTL

=============================================================================
