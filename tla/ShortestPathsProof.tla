-------------------------- MODULE ShortestPathsProof --------------------------
(***************************************************************************)
(* Proofs about the shortest paths that bellman_ford and dijkstra find,    *)
(* for every number of vertices, every set of graphs, every weight, every  *)
(* largest distance and every set of threads.                              *)
(***************************************************************************)
EXTENDS Dijkstra, BellmanFord, WordsProof, FiniteSetTheorems

-----------------------------------------------------------------------------
(* Shortest paths: sums, and what one more edge does to distances.         *)

DistancesToAll == [Indices -> 0..Max]

LEMMA PathConstants ==
  /\ Max \in Nat \ {0} /\ source \in Indices /\ n \in Nat \ {0} /\ Indices = 0..(n - 1)
  /\ IsFiniteSet(Indices) /\ Cardinality(Indices) = n
  /\ \A G \in Graphs : \A e \in G : /\ e[1] \in Indices /\ e[2] \in Indices /\ e[3] \in Nat
                                    /\ e = <<e[1], e[2], e[3]>>
<1>1. n \in Nat \ {0} /\ Indices = 0..(n - 1)
  BY WordsAssumption, Parameters
<1>2. IsFiniteSet(Indices) /\ Cardinality(Indices) = n
  <2>1. /\ IsFiniteSet(0..(n - 1))
        /\ Cardinality(0..(n - 1)) = IF 0 > n - 1 THEN 0 ELSE (n - 1) - 0 + 1
    BY <1>1, FS_Interval
  <2> QED BY <1>1, <2>1
<1> QED BY <1>1, <1>2, ShortestPathsAssumption

LEMMA PlusIs ==
  ASSUME NEW a \in 0..Max, NEW w \in Nat
  PROVE  /\ Plus(a, w) \in 0..Max /\ a <= Plus(a, w)
         /\ \A b \in 0..Max : a <= b => Plus(a, w) <= Plus(b, w)
BY PathConstants DEF Plus

LEMMA FirstOf ==
  ASSUME NEW a \in 0..Max, NEW S, S \subseteq 0..Max
  PROVE  /\ First({a} \cup S) \in 0..Max /\ First({a} \cup S) <= a
         /\ \A b \in S : First({a} \cup S) <= b
         /\ First({a} \cup S) = a \/ First({a} \cup S) \in S
<1>1. {a} \cup S \in SUBSET Nat /\ {a} \cup S # {}
  BY PathConstants
<1>2. First({a} \cup S) \in {a} \cup S /\ \A q \in {a} \cup S : First({a} \cup S) <= q
  BY <1>1, FirstIsLeast
<1> QED BY <1>2

LEMMA FirstOfTwo ==
  ASSUME NEW a \in 0..Max, NEW b \in 0..Max
  PROVE  First({a, b}) \in 0..Max /\ First({a, b}) <= a /\ First({a, b}) <= b
         /\ (First({a, b}) = a \/ First({a, b}) = b)
<1>1. {a, b} \in SUBSET Nat /\ {a, b} # {}
  BY PathConstants
<1>2. First({a, b}) \in {a, b} /\ \A q \in {a, b} : First({a, b}) <= q
  BY <1>1, FirstIsLeast
<1> QED BY <1>2

OneMore(G, f) ==
  [v \in Indices |-> First({f[v]} \cup {Plus(f[e[1]], e[3]) : e \in InEdges(G, v)})]

Start == [v \in Indices |-> IF v = source THEN 0 ELSE Max]

LEMMA StartIs == Start \in DistancesToAll
BY PathConstants DEF Start, DistancesToAll

LEMMA OneMoreIs ==
  ASSUME NEW G \in Graphs, NEW f \in DistancesToAll
  PROVE  /\ OneMore(G, f) \in DistancesToAll
         /\ \A v \in Indices : OneMore(G, f)[v] <= f[v]
         /\ \A e \in G : OneMore(G, f)[e[2]] <= Plus(f[e[1]], e[3])
         /\ \A v \in Indices :
              OneMore(G, f)[v] < f[v] =>
                \E e \in G : e[2] = v /\ OneMore(G, f)[v] = Plus(f[e[1]], e[3])
<1> DEFINE over(v) == {Plus(f[e[1]], e[3]) : e \in InEdges(G, v)}
<1>1. ASSUME NEW v \in Indices
      PROVE  /\ OneMore(G, f)[v] = First({f[v]} \cup over(v))
             /\ f[v] \in 0..Max /\ over(v) \subseteq 0..Max
  <2>1. \A e \in InEdges(G, v) : Plus(f[e[1]], e[3]) \in 0..Max
    <3> SUFFICES ASSUME NEW e \in InEdges(G, v) PROVE Plus(f[e[1]], e[3]) \in 0..Max
      OBVIOUS
    <3>1. e[1] \in Indices /\ e[3] \in Nat
      BY PathConstants DEF InEdges
    <3>2. f[e[1]] \in 0..Max
      BY <3>1 DEF DistancesToAll
    <3> QED BY <3>1, <3>2, PlusIs
  <2> QED BY <2>1 DEF OneMore, DistancesToAll
<1>2. ASSUME NEW v \in Indices
      PROVE  /\ OneMore(G, f)[v] \in 0..Max /\ OneMore(G, f)[v] <= f[v]
             /\ \A b \in over(v) : OneMore(G, f)[v] <= b
             /\ OneMore(G, f)[v] = f[v] \/ OneMore(G, f)[v] \in over(v)
  <2>1. PICK S : S = over(v)
    OBVIOUS
  <2> HIDE DEF over
  <2>2. f[v] \in 0..Max /\ S \subseteq 0..Max /\ OneMore(G, f)[v] = First({f[v]} \cup S)
    BY <1>1, <2>1
  <2> QED BY <2>1, <2>2, FirstOf
<1>3. OneMore(G, f) \in DistancesToAll
  <2>1. OneMore(G, f) = [v \in Indices |-> OneMore(G, f)[v]]
    BY DEF OneMore
  <2> QED BY <1>2, <2>1 DEF DistancesToAll
<1>4. ASSUME NEW e \in G PROVE OneMore(G, f)[e[2]] <= Plus(f[e[1]], e[3])
  <2>1. e[2] \in Indices /\ Plus(f[e[1]], e[3]) \in over(e[2])
    BY PathConstants DEF InEdges
  <2> QED BY <1>2, <2>1
<1>5. ASSUME NEW v \in Indices, OneMore(G, f)[v] < f[v]
      PROVE  \E e \in G : e[2] = v /\ OneMore(G, f)[v] = Plus(f[e[1]], e[3])
  <2>1. OneMore(G, f)[v] \in over(v)
    BY <1>1, <1>2, <1>5
  <2> QED BY <2>1 DEF InEdges
<1> QED BY <1>2, <1>3, <1>4, <1>5

-----------------------------------------------------------------------------
(* WalkDistances is what its recursion says, for every number of edges. *)

LEMMA UpFromZero ==
  ASSUME NEW Good, 0 \in Good, \A k \in Nat : k \in Good => k + 1 \in Good
  PROVE  \A k \in Nat : k \in Good
<1> DEFINE Not == {k \in Nat : k \notin Good}
<1>1. SUFFICES ASSUME Not # {} PROVE FALSE
  OBVIOUS
<1>2. First(Not) \in Not /\ \A q \in Not : First(Not) <= q
  <2>1. Not \in SUBSET Nat /\ Not # {}
    BY <1>1
  <2> HIDE DEF Not
  <2> QED BY <2>1, FirstIsLeast
<1>3. PICK k \in Not : \A q \in Not : k <= q
  BY <1>2
<1>4. k # 0 /\ k - 1 \in Nat /\ (k - 1) + 1 = k
  BY <1>3
<1>5. k - 1 \in Good
  BY <1>3, <1>4
<1> QED BY <1>3, <1>4, <1>5

Walks(G, m, f) == f = [k \in 0..m |-> IF k = 0 THEN Start ELSE OneMore(G, f[k - 1])]

LEMMA WalksExist ==
  ASSUME NEW G \in Graphs
  PROVE  \A m \in Nat : \E f \in [0..m -> DistancesToAll] : Walks(G, m, f)
<1> DEFINE Good == {m \in Nat : \E f \in [0..m -> DistancesToAll] : Walks(G, m, f)}
<1>1. 0 \in Good
  <2> DEFINE f == [k \in 0..0 |-> Start]
  <2>1. f \in [0..0 -> DistancesToAll]
    BY StartIs
  <2>2. f = [k \in 0..0 |-> IF k = 0 THEN Start ELSE OneMore(G, f[k - 1])]
    <3>1. \A k \in 0..0 : k = 0
      OBVIOUS
    <3> QED BY <3>1
  <2>3. Walks(G, 0, f)
    BY <2>2 DEF Walks
  <2> HIDE DEF f
  <2> QED BY <2>1, <2>3
<1>2. ASSUME NEW m \in Nat, m \in Good PROVE m + 1 \in Good
  <2>1. PICK f \in [0..m -> DistancesToAll] : Walks(G, m, f)
    BY <1>2
  <2> DEFINE g == [k \in 0..(m + 1) |-> IF k = m + 1 THEN OneMore(G, f[m]) ELSE f[k]]
  <2>2. OneMore(G, f[m]) \in DistancesToAll
    BY <2>1, OneMoreIs
  <2>3. g \in [0..(m + 1) -> DistancesToAll]
    BY <2>1, <2>2
  <2>4. \A k \in 0..(m + 1) : g[k] = IF k = 0 THEN Start ELSE OneMore(G, g[k - 1])
    <3> SUFFICES ASSUME NEW k \in 0..(m + 1)
                 PROVE  g[k] = IF k = 0 THEN Start ELSE OneMore(G, g[k - 1])
      OBVIOUS
    <3>1. CASE k = m + 1
      <4>1. k # 0 /\ k - 1 = m /\ m \in 0..(m + 1) /\ m # m + 1
        BY <3>1
      <4> QED BY <3>1, <4>1
    <3>2. CASE k # m + 1
      <4>1. k \in 0..m
        BY <3>2
      <4>2. f[k] = IF k = 0 THEN Start ELSE OneMore(G, f[k - 1])
        BY <2>1, <4>1 DEF Walks
      <4>3. k # 0 => k - 1 \in 0..(m + 1) /\ k - 1 # m + 1
        BY <4>1
      <4>4. g[k] = f[k] /\ (k # 0 => g[k - 1] = f[k - 1])
        BY <3>2, <4>3
      <4> HIDE DEF g
      <4> QED BY <4>2, <4>4
    <3> QED BY <3>1, <3>2
  <2>5. Walks(G, m + 1, g)
    <3>1. g = [k \in 0..(m + 1) |-> g[k]]
      OBVIOUS
    <3> HIDE DEF g
    <3> QED BY <2>4, <3>1 DEF Walks
  <2> HIDE DEF g
  <2> QED BY <2>3, <2>5
<1>3. \A m \in Nat : m \in Good
  <2> HIDE DEF Good
  <2> QED BY <1>1, <1>2, UpFromZero
<1> QED BY <1>3

LEMMA WalksAgree ==
  ASSUME NEW G, NEW m \in Nat, NEW j \in Nat, NEW f, Walks(G, m, f), NEW g, Walks(G, j, g)
  PROVE  \A k \in Nat : k <= m /\ k <= j => f[k] = g[k]
<1> DEFINE Good == {k \in Nat : k <= m /\ k <= j => f[k] = g[k]}
<1>1. 0 \in Good
  BY DEF Walks
<1>2. ASSUME NEW k \in Nat, k \in Good PROVE k + 1 \in Good
  <2> SUFFICES ASSUME k + 1 <= m, k + 1 <= j PROVE f[k + 1] = g[k + 1]
    OBVIOUS
  <2>1. k + 1 \in 0..m /\ k + 1 \in 0..j /\ k + 1 # 0 /\ (k + 1) - 1 = k /\ k <= m /\ k <= j
    OBVIOUS
  <2>2. f[k + 1] = OneMore(G, f[k]) /\ g[k + 1] = OneMore(G, g[k])
    BY <2>1 DEF Walks
  <2> QED BY <1>2, <2>1, <2>2
<1>3. \A k \in Nat : k \in Good
  <2> HIDE DEF Good
  <2> QED BY <1>1, <1>2, UpFromZero
<1> QED BY <1>3

LEMMA WalksAre ==
  ASSUME NEW G \in Graphs
  PROVE  /\ \A m \in Nat : WalkDistances(G, m) \in DistancesToAll
         /\ WalkDistances(G, 0) = Start
         /\ \A m \in Nat : WalkDistances(G, m + 1) = OneMore(G, WalkDistances(G, m))
<1> DEFINE walks(m) == CHOOSE f : Walks(G, m, f)
<1>1. ASSUME NEW m \in Nat
      PROVE  /\ WalkDistances(G, m) = walks(m)[m] /\ Walks(G, m, walks(m))
             /\ WalkDistances(G, m) \in DistancesToAll
  <2>1. WalkDistances(G, m) = walks(m)[m]
    BY DEF WalkDistances, Walks, Start, OneMore
  <2>2. PICK f \in [0..m -> DistancesToAll] : Walks(G, m, f)
    BY WalksExist
  <2>3. Walks(G, m, walks(m))
    BY <2>2, Zenon
  <2>4. walks(m)[m] = f[m]
    <3> HIDE DEF walks
    <3> QED BY <2>2, <2>3, WalksAgree
  <2> QED BY <2>1, <2>2, <2>3, <2>4
<1> HIDE DEF walks
<1>2. WalkDistances(G, 0) = Start
  BY <1>1 DEF Walks
<1>3. ASSUME NEW m \in Nat
      PROVE  WalkDistances(G, m + 1) = OneMore(G, WalkDistances(G, m))
  <2>1. m + 1 \in Nat /\ m + 1 \in 0..(m + 1) /\ m + 1 # 0 /\ (m + 1) - 1 = m
    OBVIOUS
  <2>2. walks(m + 1)[m + 1] = OneMore(G, walks(m + 1)[m])
    BY <1>1, <2>1 DEF Walks
  <2>3. walks(m + 1)[m] = walks(m)[m]
    BY <1>1, <2>1, WalksAgree
  <2> QED BY <1>1, <2>1, <2>2, <2>3
<1> QED BY <1>1, <1>2, <1>3

-----------------------------------------------------------------------------
(***************************************************************************)
(* Walks of n - 1 edges are long enough. The least length of any walk to v *)
(* is first reached after some number of edges; whatever number that is,   *)
(* each smaller number is that of another vertex, and there are only n.    *)
(***************************************************************************)
Limit(G, v) == First({WalkDistances(G, m)[v] : m \in Nat})
Edges(G, v) == First({m \in Nat : WalkDistances(G, m)[v] = Limit(G, v)})

LEMMA LimitIs ==
  ASSUME NEW G \in Graphs, NEW v \in Indices
  PROVE  /\ Limit(G, v) \in 0..Max
         /\ \A m \in Nat : Limit(G, v) <= WalkDistances(G, m)[v]
         /\ Edges(G, v) \in Nat /\ WalkDistances(G, Edges(G, v))[v] = Limit(G, v)
         /\ \A m \in Nat : WalkDistances(G, m)[v] = Limit(G, v) => Edges(G, v) <= m
<1> DEFINE lengths == {WalkDistances(G, m)[v] : m \in Nat}
           exact   == {m \in Nat : WalkDistances(G, m)[v] = Limit(G, v)}
<1>1. \A m \in Nat : WalkDistances(G, m)[v] \in 0..Max
  BY WalksAre DEF DistancesToAll
<1>2. lengths \subseteq 0..Max /\ lengths \in SUBSET Nat /\ lengths # {}
  <2>1. WalkDistances(G, 0)[v] \in lengths
    OBVIOUS
  <2>2. 0..Max \subseteq Nat
    BY PathConstants
  <2> QED BY <1>1, <2>1, <2>2
<1>3. Limit(G, v) \in lengths /\ \A q \in lengths : Limit(G, v) <= q
  <2>1. Limit(G, v) = First(lengths)
    BY DEF Limit
  <2> HIDE DEF lengths
  <2> QED BY <1>2, <2>1, FirstIsLeast
<1>4. exact \in SUBSET Nat /\ exact # {}
  BY <1>3
<1>5. Edges(G, v) \in exact /\ \A q \in exact : Edges(G, v) <= q
  <2>1. Edges(G, v) = First(exact)
    BY DEF Edges
  <2> HIDE DEF exact
  <2> QED BY <1>4, <2>1, FirstIsLeast
<1>6. Limit(G, v) \in 0..Max
  <2> HIDE DEF lengths
  <2> QED BY <1>2, <1>3
<1> QED BY <1>3, <1>5, <1>6

LEMMA WalksShrink ==
  ASSUME NEW G \in Graphs, NEW v \in Indices, NEW m \in Nat, NEW k \in Nat, m <= k
  PROVE  WalkDistances(G, k)[v] <= WalkDistances(G, m)[v]
<1> DEFINE Good == {j \in Nat : WalkDistances(G, m + j)[v] <= WalkDistances(G, m)[v]}
<1>1. \A j \in Nat : WalkDistances(G, j)[v] \in 0..Max
  BY WalksAre DEF DistancesToAll
<1>2. 0 \in Good
  BY <1>1
<1>3. ASSUME NEW j \in Nat, j \in Good PROVE j + 1 \in Good
  <2>1. m + j \in Nat /\ m + (j + 1) = (m + j) + 1
    OBVIOUS
  <2>2. WalkDistances(G, (m + j) + 1)[v] <= WalkDistances(G, m + j)[v]
    BY <2>1, WalksAre, OneMoreIs
  <2>3. /\ WalkDistances(G, (m + j) + 1)[v] \in 0..Max
        /\ WalkDistances(G, m + j)[v] \in 0..Max /\ WalkDistances(G, m)[v] \in 0..Max
    BY <1>1, <2>1
  <2> QED BY <1>3, <2>1, <2>2, <2>3
<1>4. \A j \in Nat : j \in Good
  <2> HIDE DEF Good
  <2> QED BY <1>2, <1>3, UpFromZero
<1>5. k - m \in Nat /\ m + (k - m) = k
  OBVIOUS
<1> QED BY <1>4, <1>5

LEMMA LimitIsRelaxed ==
  ASSUME NEW G \in Graphs
  PROVE  \A e \in G : Limit(G, e[2]) <= Plus(Limit(G, e[1]), e[3])
<1> SUFFICES ASSUME NEW e \in G PROVE Limit(G, e[2]) <= Plus(Limit(G, e[1]), e[3])
  OBVIOUS
<1>1. e[1] \in Indices /\ e[2] \in Indices /\ e[3] \in Nat
  BY PathConstants
<1> DEFINE m == Edges(G, e[1])
<1>2. m \in Nat /\ WalkDistances(G, m)[e[1]] = Limit(G, e[1])
  BY <1>1, LimitIs
<1>3. WalkDistances(G, m + 1)[e[2]] <= Plus(Limit(G, e[1]), e[3])
  BY <1>2, WalksAre, OneMoreIs
<1>4. /\ Limit(G, e[2]) <= WalkDistances(G, m + 1)[e[2]] /\ m + 1 \in Nat
      /\ Limit(G, e[2]) \in Int /\ Limit(G, e[1]) \in 0..Max
  BY <1>1, <1>2, LimitIs
<1>5. WalkDistances(G, m + 1)[e[2]] \in 0..Max
  BY <1>1, <1>4, WalksAre DEF DistancesToAll
<1>6. Plus(Limit(G, e[1]), e[3]) \in 0..Max
  BY <1>1, <1>4, PlusIs
<1> QED BY <1>3, <1>4, <1>5, <1>6

(* The last edge of a shortest walk comes from a vertex that needs one less. *)
LEMMA OneEdgeLess ==
  ASSUME NEW G \in Graphs, NEW v \in Indices, Edges(G, v) > 0
  PROVE  \E u \in Indices : Edges(G, u) = Edges(G, v) - 1
<1> DEFINE h == Edges(G, v) - 1
<1>1. h \in Nat /\ h + 1 = Edges(G, v)
  BY LimitIs
<1>2. WalkDistances(G, h)[v] \in 0..Max /\ WalkDistances(G, h + 1)[v] \in 0..Max
  BY <1>1, WalksAre DEF DistancesToAll
<1>3. WalkDistances(G, h + 1)[v] = Limit(G, v) /\ Limit(G, v) \in 0..Max
  BY <1>1, LimitIs
<1>4. WalkDistances(G, h)[v] # Limit(G, v) /\ Limit(G, v) <= WalkDistances(G, h)[v]
  <2>1. ~ Edges(G, v) <= h
    BY <1>1
  <2> QED BY <1>1, <2>1, LimitIs
<1>5. WalkDistances(G, h + 1)[v] < WalkDistances(G, h)[v]
  BY <1>2, <1>3, <1>4
<1>6. PICK e \in G : e[2] = v /\ Limit(G, v) = Plus(WalkDistances(G, h)[e[1]], e[3])
  BY <1>1, <1>3, <1>5, WalksAre, OneMoreIs
<1> DEFINE u == e[1]
           a == WalkDistances(G, h)[u]
           b == Limit(G, u)
<1>7. u \in Indices /\ e[3] \in Nat
  BY PathConstants
<1>8. a \in 0..Max /\ b \in 0..Max /\ b <= a
  <2>1. a \in 0..Max
    BY <1>1, <1>7, WalksAre DEF DistancesToAll
  <2> QED BY <1>1, <1>7, <2>1, LimitIs
<1>9. Limit(G, v) <= Plus(b, e[3]) /\ Limit(G, v) = Plus(a, e[3]) /\ Limit(G, v) < Max
  <2>1. Limit(G, e[2]) <= Plus(Limit(G, e[1]), e[3])
    BY LimitIsRelaxed
  <2>2. Limit(G, v) < Max
    BY <1>2, <1>3, <1>5, PathConstants
  <2> QED BY <1>6, <2>1, <2>2
<1>10. a = b
  <2> HIDE DEF a, b
  <2> QED BY <1>7, <1>8, <1>9, PathConstants DEF Plus
<1>11. Edges(G, u) <= h
  BY <1>1, <1>7, <1>10, LimitIs
<1>12. ASSUME Edges(G, u) < h PROVE FALSE
  <2> DEFINE k == h - 1
  <2>1. k \in Nat /\ k + 1 = h /\ Edges(G, u) \in Nat /\ Edges(G, u) <= k
    BY <1>1, <1>7, <1>12, LimitIs
  <2>2. WalkDistances(G, k)[u] <= WalkDistances(G, Edges(G, u))[u]
    BY <1>7, <2>1, WalksShrink
  <2>3. WalkDistances(G, k)[u] \in 0..Max
    BY <1>7, <2>1, WalksAre DEF DistancesToAll
  <2>4. WalkDistances(G, k)[u] = b
    BY <1>7, <1>8, <2>1, <2>2, <2>3, LimitIs
  <2>5. WalkDistances(G, h)[v] <= Plus(b, e[3])
    BY <1>6, <2>1, <2>4, WalksAre, OneMoreIs
  <2> QED BY <1>2, <1>3, <1>4, <1>9, <1>10, <2>5
<1>13. Edges(G, u) \in Nat
  BY <1>7, LimitIs
<1> QED BY <1>1, <1>7, <1>11, <1>12, <1>13

LEMMA FewEdges ==
  ASSUME NEW G \in Graphs, NEW v \in Indices
  PROVE  Edges(G, v) <= n - 1
<1> DEFINE h == Edges(G, v)
           Good == {j \in Nat : j <= h => \E u \in Indices : Edges(G, u) = h - j}
<1>1. h \in Nat
  BY LimitIs
<1>2. 0 \in Good
  BY <1>1
<1>3. ASSUME NEW j \in Nat, j \in Good PROVE j + 1 \in Good
  <2> SUFFICES ASSUME j + 1 <= h PROVE \E u \in Indices : Edges(G, u) = h - (j + 1)
    OBVIOUS
  <2>1. PICK u \in Indices : Edges(G, u) = h - j
    BY <1>1, <1>3
  <2>2. Edges(G, u) > 0 /\ h - (j + 1) = Edges(G, u) - 1
    BY <1>1, <2>1
  <2> HIDE DEF h
  <2> QED BY <2>2, OneEdgeLess
<1>4. \A j \in Nat : j \in Good
  <2> HIDE DEF Good
  <2> QED BY <1>2, <1>3, UpFromZero
<1>5. \A k \in 0..h : \E u \in Indices : Edges(G, u) = k
  <2> SUFFICES ASSUME NEW k \in 0..h PROVE \E u \in Indices : Edges(G, u) = k
    OBVIOUS
  <2>1. h - k \in Nat /\ h - k <= h /\ h - (h - k) = k
    BY <1>1
  <2> HIDE DEF h
  <2> QED BY <1>4, <2>1
<1> DEFINE f == [k \in 0..h |-> CHOOSE u \in Indices : Edges(G, u) = k]
<1>6. \A k \in 0..h : f[k] \in Indices /\ Edges(G, f[k]) = k
  <2> SUFFICES ASSUME NEW k \in 0..h PROVE f[k] \in Indices /\ Edges(G, f[k]) = k
    OBVIOUS
  <2>1. f[k] = CHOOSE u \in Indices : Edges(G, u) = k
    OBVIOUS
  <2> HIDE DEF f, h
  <2> QED BY <1>5, <2>1, Zenon
<1>7. f \in Injection(0..h, Indices)
  <2>1. f = [k \in 0..h |-> f[k]]
    OBVIOUS
  <2> HIDE DEF f
  <2>2. f \in [0..h -> Indices]
    BY <1>6, <2>1
  <2>3. \A a, b \in DOMAIN f : f[a] = f[b] => a = b
    BY <1>6, <2>2
  <2> QED BY <2>2, <2>3 DEF Injection, IsInjective
<1>8. IsFiniteSet(0..h) /\ Cardinality(0..h) = h + 1
  <2>1. /\ IsFiniteSet(0..h)
        /\ Cardinality(0..h) = IF 0 > h THEN 0 ELSE h - 0 + 1
    BY <1>1, FS_Interval
  <2> QED BY <1>1, <2>1
<1>9. Cardinality(0..h) <= Cardinality(Indices)
  <2> HIDE DEF f
  <2> QED BY <1>7, <1>8, PathConstants, FS_Injection
<1> QED BY <1>1, <1>8, <1>9, PathConstants

(* What the result is: exact at the source, with every edge relaxed, and no *)
(* longer than any walk. *)
LEMMA DistancesAre ==
  ASSUME NEW G \in Graphs
  PROVE  /\ Distances(G) \in DistancesToAll
         /\ \A e \in G : Distances(G)[e[2]] <= Plus(Distances(G)[e[1]], e[3])
         /\ \A v \in Indices : \A m \in Nat : Distances(G)[v] <= WalkDistances(G, m)[v]
         /\ \A v \in Indices : WalkDistances(G, n)[v] = Distances(G)[v]
         /\ Distances(G)[source] = 0
<1>1. n - 1 \in Nat /\ n \in Nat /\ source \in Indices
  BY PathConstants
<1>2. \A v \in Indices : \A m \in Nat : m >= n - 1 => WalkDistances(G, m)[v] = Limit(G, v)
  <2> SUFFICES ASSUME NEW v \in Indices, NEW m \in Nat, m >= n - 1
               PROVE  WalkDistances(G, m)[v] = Limit(G, v)
    OBVIOUS
  <2>1. Edges(G, v) \in Nat /\ Edges(G, v) <= m
    BY <1>1, FewEdges, LimitIs
  <2>2. WalkDistances(G, m)[v] <= Limit(G, v)
    BY <2>1, LimitIs, WalksShrink
  <2>3. WalkDistances(G, m)[v] \in 0..Max
    BY WalksAre DEF DistancesToAll
  <2> QED BY <2>2, <2>3, LimitIs
<1>3. \A v \in Indices : Distances(G)[v] = Limit(G, v) /\ WalkDistances(G, n)[v] = Limit(G, v)
  BY <1>1, <1>2 DEF Distances
<1>4. Distances(G) \in DistancesToAll
  BY <1>1, WalksAre DEF Distances
<1>5. \A e \in G : e[1] \in Indices /\ e[2] \in Indices
  BY PathConstants
<1>6. Distances(G)[source] = 0
  <2>1. WalkDistances(G, 0)[source] = 0
    BY <1>1, WalksAre DEF Start
  <2>2. Limit(G, source) <= 0 /\ Limit(G, source) \in 0..Max
    BY <1>1, <2>1, LimitIs
  <2> QED BY <1>1, <1>3, <2>2
<1> QED BY <1>3, <1>4, <1>5, <1>6, LimitIs, LimitIsRelaxed

(***************************************************************************)
(* What is below h is exact when every edge is relaxed whose source is     *)
(* below h: a shortest walk to a vertex below h passes only such vertices. *)
(***************************************************************************)
LEMMA ExactBelow ==
  ASSUME NEW G \in Graphs, NEW f \in DistancesToAll, NEW h \in 0..Max, f[source] = 0,
         \A v \in Indices : f[v] >= Distances(G)[v],
         \A e \in G : f[e[1]] < h => f[e[2]] <= Plus(f[e[1]], e[3])
  PROVE  \A v \in Indices : Distances(G)[v] < h => f[v] = Distances(G)[v]
<1> DEFINE Good == {m \in Nat : \A v \in Indices : WalkDistances(G, m)[v] < h =>
                                                      f[v] <= WalkDistances(G, m)[v]}
<1>1. 0 \in Good
  <2>1. \A v \in Indices : WalkDistances(G, 0)[v] = IF v = source THEN 0 ELSE Max
    BY WalksAre DEF Start
  <2>2. \A v \in Indices : WalkDistances(G, 0)[v] < h => v = source
    BY <2>1, PathConstants
  <2> QED BY <2>1, <2>2, PathConstants
<1>2. ASSUME NEW m \in Nat, m \in Good PROVE m + 1 \in Good
  <2> DEFINE w == WalkDistances(G, m)
  <2> SUFFICES ASSUME NEW v \in Indices, OneMore(G, w)[v] < h
               PROVE  f[v] <= OneMore(G, w)[v]
    BY WalksAre
  <2>1. w \in DistancesToAll /\ (\A u \in Indices : w[u] < h => f[u] <= w[u])
    BY <1>2, WalksAre
  <2> HIDE DEF w
  <2>2. OneMore(G, w)[v] \in 0..Max /\ w[v] \in 0..Max /\ OneMore(G, w)[v] <= w[v]
    BY <2>1, OneMoreIs DEF DistancesToAll
  <2>3. CASE OneMore(G, w)[v] < w[v]
    <3>1. PICK e \in G : e[2] = v /\ OneMore(G, w)[v] = Plus(w[e[1]], e[3])
      BY <2>1, <2>3, OneMoreIs
    <3>2. e[1] \in Indices /\ e[3] \in Nat /\ w[e[1]] \in 0..Max /\ f[e[1]] \in 0..Max
          /\ f[v] \in 0..Max
      BY <2>1, PathConstants DEF DistancesToAll
    <3>3. w[e[1]] <= Plus(w[e[1]], e[3]) /\ Plus(w[e[1]], e[3]) \in 0..Max
      BY <3>2, PlusIs
    <3>4. w[e[1]] < h
      BY <2>2, <3>1, <3>2, <3>3
    <3>5. f[e[1]] <= w[e[1]]
      BY <2>1, <3>2, <3>4
    <3>6. f[e[1]] < h
      BY <3>2, <3>4, <3>5
    <3>7. /\ f[v] <= Plus(f[e[1]], e[3]) /\ Plus(f[e[1]], e[3]) \in 0..Max
          /\ Plus(f[e[1]], e[3]) <= Plus(w[e[1]], e[3])
      BY <3>1, <3>2, <3>5, <3>6, PlusIs
    <3> QED BY <3>1, <3>2, <3>3, <3>7
  <2>4. CASE ~ OneMore(G, w)[v] < w[v]
    <3>1. OneMore(G, w)[v] = w[v]
      BY <2>2, <2>4
    <3> QED BY <2>1, <3>1
  <2> QED BY <2>3, <2>4
<1>3. \A m \in Nat : m \in Good
  <2> HIDE DEF Good
  <2> QED BY <1>1, <1>2, UpFromZero
<1>4. ASSUME NEW v \in Indices, Distances(G)[v] < h PROVE f[v] = Distances(G)[v]
  <2>1. n - 1 \in Nat /\ Distances(G) = WalkDistances(G, n - 1)
    BY PathConstants DEF Distances
  <2>2. f[v] <= Distances(G)[v]
    BY <1>3, <1>4, <2>1
  <2>3. Distances(G)[v] \in 0..Max /\ f[v] \in 0..Max
    BY DistancesAre DEF DistancesToAll
  <2> QED BY <2>2, <2>3
<1> QED BY <1>4

-----------------------------------------------------------------------------
(***************************************************************************)
(* The inductive invariant. A round leaves no job and no next frontier;    *)
(* what a worker has in hand is no shorter than the distance it is about,  *)
(* and what it pushes is no longer than any walk of round edges.           *)
(***************************************************************************)
RoundsAreApart == ~ inside => Waiting /\ next_frontier = {}

AtMostN == inside => round < n

JobsAreRight ==
  \A t \in Threads :
    /\ job[t].at = "idle" => job[t] = NoVertex
    /\ job[t].at # "idle" => job[t].s \notin frontier
    /\ job[t].at = "pull" => job[t].edges \subseteq InEdges(graph, job[t].s)
    /\ job[t].at = "push" => job[t].edges \subseteq OutEdges(graph, job[t].s)
    /\ job[t].at \in {"pull", "push"} => job[t].value >= Distances(graph)[job[t].s]
    /\ job[t].at = "push" => job[t].value <= WalkDistances(graph, round)[job[t].s]

NeverTooShort == \A v \in Indices : dist[v] >= Distances(graph)[v]

AsWalks == \A v \in Indices : dist[v] <= WalkDistances(graph, round)[v]

(* The source of edge e is yet to push over it in this round. *)
Comes(e) ==
  \/ e[1] \in frontier
  \/ \E t \in Threads : job[t].s = e[1] /\ job[t].at \in {"pull", "read"}

PushesOver(t, e) == job[t].at = "push" /\ e \in job[t].edges /\ job[t].s = e[1]

(* Over each edge the next walks have been taken, or will be. *)
CoversNext ==
  inside =>
    \A e \in graph : \/ Comes(e) \/ \E t \in Threads : PushesOver(t, e)
                     \/ dist[e[2]] <= Plus(WalkDistances(graph, round)[e[1]], e[3])

(***************************************************************************)
(* Each edge is relaxed, or will be in this round with the distance its    *)
(* source has now, or in the next.                                         *)
(***************************************************************************)
RelaxesAll ==
  \A e \in graph : \/ Comes(e) \/ e[1] \in next_frontier
                   \/ \E t \in Threads : PushesOver(t, e) /\ job[t].value <= dist[e[1]]
                   \/ dist[e[2]] <= Plus(dist[e[1]], e[3])

RoundsAreSound ==
  /\ BellmanFordTypeOK
  /\ graph \in Graphs
  /\ RoundsAreApart /\ AtMostN /\ JobsAreRight
  /\ NeverTooShort /\ AsWalks
  /\ CoversNext /\ RelaxesAll

LEMMA GraphIs ==
  ASSUME graph \in Graphs
  PROVE  /\ graph \subseteq Indices \X Indices \X Nat
         /\ \A e \in graph : e[1] \in Indices /\ e[2] \in Indices /\ e[3] \in Nat
         /\ Distances(graph) \in DistancesToAll
         /\ \A m \in Nat : WalkDistances(graph, m) \in DistancesToAll
BY PathConstants, ShortestPathsAssumption, DistancesAre, WalksAre

LEMMA InitialRounds == BellmanFordInit => RoundsAreSound
<1> SUFFICES ASSUME BellmanFordInit PROVE RoundsAreSound
  OBVIOUS
<1>1. graph \in Graphs /\ dist = Start /\ frontier = {source} /\ round = 0
      /\ inside = FALSE
  BY DEF BellmanFordInit, Start
<1>2. \A t \in Threads : job[t] = NoVertex
  BY DEF BellmanFordInit
<1>3. dist = WalkDistances(graph, 0) /\ dist \in DistancesToAll
  BY <1>1, WalksAre, StartIs
<1>4. BellmanFordTypeOK
  <2>1. NoVertex \in [at : {"idle", "pull", "read", "push"}, s : Indices,
                      edges : SUBSET graph, value : 0..Max]
    BY PathConstants DEF NoVertex
  <2>2. job = [t \in Threads |-> NoVertex] /\ next_frontier = {}
    BY DEF BellmanFordInit
  <2>3. /\ job \in [Threads -> [at : {"idle", "pull", "read", "push"}, s : Indices,
                               edges : SUBSET graph, value : 0..Max]]
        /\ \A t, u \in Threads :
             t # u /\ job[t] # NoVertex /\ job[u] # NoVertex => job[t].s # job[u].s
    BY <1>2, <2>1, <2>2
  <2>4. /\ graph \subseteq Indices \X Indices \X Nat /\ dist \in [Indices -> 0..Max]
        /\ frontier \subseteq Indices /\ next_frontier \subseteq Indices
        /\ round \in 0..n /\ inside \in BOOLEAN
    <3>1. graph \subseteq Indices \X Indices \X Nat /\ dist \in [Indices -> 0..Max]
      BY <1>1, <1>3, GraphIs DEF DistancesToAll
    <3>2. /\ frontier \subseteq Indices /\ next_frontier \subseteq Indices
          /\ round \in 0..n
      BY <1>1, <2>2, PathConstants
    <3>3. inside \in BOOLEAN
      BY <1>1, Zenon
    <3> QED BY <3>1, <3>2, <3>3
  <2> QED BY <2>3, <2>4 DEF BellmanFordTypeOK
<1>5. RoundsAreApart /\ AtMostN /\ CoversNext
  BY <1>1, <1>2 DEF BellmanFordInit, RoundsAreApart, Waiting, AtMostN, CoversNext
<1>6. JobsAreRight
  BY <1>2 DEF JobsAreRight, NoVertex
<1>7. AsWalks /\ NeverTooShort
  <2>1. \A v \in Indices : dist[v] \in 0..Max /\ Distances(graph)[v] <= dist[v]
    BY <1>1, <1>3, DistancesAre DEF DistancesToAll
  <2> QED BY <1>1, <1>3, <2>1, GraphIs DEF AsWalks, NeverTooShort, DistancesToAll
<1>8. RelaxesAll
  <2> SUFFICES ASSUME NEW e \in graph, e[1] # source
               PROVE  dist[e[2]] <= Plus(dist[e[1]], e[3])
    BY <1>1 DEF RelaxesAll, Comes
  <2>1. e[1] \in Indices /\ e[2] \in Indices /\ e[3] \in Nat
    BY <1>1, GraphIs
  <2>2. dist[e[1]] = Max /\ dist[e[2]] \in 0..Max
    BY <1>1, <1>3, <2>1 DEF Start, DistancesToAll
  <2> QED BY <2>1, <2>2, PathConstants, PlusIs
<1> QED BY <1>1, <1>4, <1>5, <1>6, <1>7, <1>8 DEF RoundsAreSound

-----------------------------------------------------------------------------
(* The steps. A step of one worker changes only its job; distances only     *)
(* decrease.                                                                *)

JobType == [at : {"idle", "pull", "read", "push"}, s : Indices, edges : SUBSET graph,
            value : 0..Max]

LEMMA FactsOfRounds ==
  ASSUME RoundsAreSound
  PROVE  /\ dist \in [Indices -> 0..Max] /\ job \in [Threads -> JobType]
         /\ \A v \in Indices : dist[v] \in 0..Max
         /\ \A t \in Threads : /\ job[t] \in JobType /\ job[t].value \in 0..Max
                               /\ job[t].s \in Indices /\ job[t].edges \subseteq graph
         /\ frontier \subseteq Indices /\ next_frontier \subseteq Indices
         /\ round \in 0..n /\ round \in Nat /\ inside \in BOOLEAN /\ graph \in Graphs
         /\ \A e \in graph : e[1] \in Indices /\ e[2] \in Indices /\ e[3] \in Nat
         /\ \A v \in Indices : /\ Distances(graph)[v] \in 0..Max
                               /\ WalkDistances(graph, round)[v] \in 0..Max
         /\ n \in Nat \ {0} /\ Max \in Nat /\ source \in Indices
<1>1. /\ dist \in [Indices -> 0..Max] /\ job \in [Threads -> JobType]
      /\ frontier \subseteq Indices /\ next_frontier \subseteq Indices
      /\ round \in 0..n /\ inside \in BOOLEAN /\ graph \in Graphs
  BY DEF RoundsAreSound, BellmanFordTypeOK, JobType
<1>2. \A t \in Threads : /\ job[t] \in JobType /\ job[t].value \in 0..Max
                         /\ job[t].s \in Indices /\ job[t].edges \subseteq graph
  BY <1>1 DEF JobType
<1>3. round \in Nat
  BY <1>1, PathConstants
<1>4. \A v \in Indices : /\ Distances(graph)[v] \in 0..Max
                         /\ WalkDistances(graph, round)[v] \in 0..Max
  BY <1>1, <1>3, GraphIs DEF DistancesToAll
<1> QED BY <1>1, <1>2, <1>3, <1>4, GraphIs, PathConstants

(* Worker t goes on with job c, on distances no longer than before. *)
LEMMA OneJob ==
  ASSUME RoundsAreSound, NEW t \in Threads, NEW c \in JobType,
         job' = [job EXCEPT ![t] = c], UNCHANGED <<graph, round>>, inside' = inside, inside,
         dist' \in [Indices -> 0..Max], \A v \in Indices : dist'[v] <= dist[v],
         \A v \in Indices : dist'[v] >= Distances(graph)[v],
         frontier' \subseteq frontier, next_frontier' \subseteq Indices,
         c.at = "idle" => c = NoVertex,
         c.at # "idle" => c.s \notin frontier',
         c.at = "pull" => c.edges \subseteq InEdges(graph, c.s),
         c.at = "push" => c.edges \subseteq OutEdges(graph, c.s),
         c.at # "idle" => \A u \in Threads : u # t /\ job[u] # NoVertex => job[u].s # c.s,
         c.at \in {"pull", "push"} => c.value >= Distances(graph)[c.s],
         c.at = "push" => c.value <= WalkDistances(graph, round)[c.s],
         CoversNext', RelaxesAll'
  PROVE  RoundsAreSound'
<1> USE FactsOfRounds
<1>1. job' \in [Threads -> JobType] /\ job'[t] = c /\ \A u \in Threads \ {t} : job'[u] = job[u]
  OBVIOUS
<1>2. BellmanFordTypeOK'
  <2>1. \A u, v \in Threads :
          u # v /\ job'[u] # NoVertex /\ job'[v] # NoVertex => job'[u].s # job'[v].s
    <3> SUFFICES ASSUME NEW u \in Threads, NEW v \in Threads, u # v,
                        job'[u] # NoVertex, job'[v] # NoVertex
                 PROVE  job'[u].s # job'[v].s
      OBVIOUS
    <3>1. CASE u = t
      BY <1>1, <3>1
    <3>2. CASE v = t
      BY <1>1, <3>2
    <3>3. CASE u # t /\ v # t
      BY <1>1, <3>3 DEF RoundsAreSound, BellmanFordTypeOK
    <3> QED BY <3>1, <3>2, <3>3
  <2>2. /\ graph' \subseteq Indices \X Indices \X Nat
        /\ job' \in [Threads -> [at : {"idle", "pull", "read", "push"}, s : Indices,
                                 edges : SUBSET graph', value : 0..Max]]
    BY <1>1, GraphIs DEF JobType
  <2>3. dist' \in [Indices -> 0..Max] /\ frontier' \subseteq Indices
        /\ next_frontier' \subseteq Indices /\ round' \in 0..n /\ inside' \in BOOLEAN
    OBVIOUS
  <2> QED BY <2>1, <2>2, <2>3 DEF BellmanFordTypeOK
<1>3. RoundsAreApart' /\ AtMostN'
  BY DEF RoundsAreApart, AtMostN, RoundsAreSound
<1>4. JobsAreRight'
  BY <1>1 DEF JobsAreRight, RoundsAreSound
<1>5. NeverTooShort' /\ AsWalks'
  <2>1. ASSUME NEW v \in Indices PROVE dist'[v] <= WalkDistances(graph, round)[v]
    <3>1. dist[v] <= WalkDistances(graph, round)[v] /\ dist'[v] <= dist[v]
      BY DEF RoundsAreSound, AsWalks
    <3>2. dist'[v] \in 0..Max
      OBVIOUS
    <3> QED BY <3>1, <3>2
  <2> QED BY <2>1 DEF NeverTooShort, AsWalks
<1> QED BY <1>2, <1>3, <1>4, <1>5 DEF RoundsAreSound

(* Lower distances at the end keep what was said of an edge, and lower ones *)
(* at the source if it is yet to push.                                      *)
LEMMA StillRelaxed ==
  ASSUME RoundsAreSound, NEW e \in graph, dist' \in [Indices -> 0..Max],
         \A v \in Indices : dist'[v] <= dist[v]
  PROVE  /\ \A a \in 0..Max : dist[e[2]] <= Plus(a, e[3]) => dist'[e[2]] <= Plus(a, e[3])
         /\ dist'[e[1]] = dist[e[1]] /\ dist[e[2]] <= Plus(dist[e[1]], e[3]) =>
              dist'[e[2]] <= Plus(dist'[e[1]], e[3])
<1>1. ASSUME NEW a \in 0..Max, dist[e[2]] <= Plus(a, e[3]) PROVE dist'[e[2]] <= Plus(a, e[3])
  <2>1. e[2] \in Indices /\ e[3] \in Nat /\ Plus(a, e[3]) \in 0..Max
    BY FactsOfRounds, PlusIs
  <2>2. dist'[e[2]] \in 0..Max /\ dist[e[2]] \in 0..Max /\ dist'[e[2]] <= dist[e[2]]
    BY <2>1, FactsOfRounds
  <2> QED BY <1>1, <2>1, <2>2
<1> QED BY <1>1, FactsOfRounds

LEMMA OthersApart ==
  ASSUME RoundsAreSound, NEW t \in Threads, job[t].at # "idle"
  PROVE  /\ job[t].s \notin frontier
         /\ \A u \in Threads : u # t /\ job[u] # NoVertex => job[u].s # job[t].s
         /\ \A u \in Threads : u # t /\ job[u].at # "idle" => job[u].s # job[t].s
         /\ inside
<1>1. NoVertex.at = "idle"
  BY DEF NoVertex
<1>2. job[t] # NoVertex
  BY <1>1
<1>3. inside
  BY <1>2 DEF RoundsAreSound, RoundsAreApart, Waiting
<1> QED BY <1>1, <1>2, <1>3 DEF RoundsAreSound, BellmanFordTypeOK, JobsAreRight

LEMMA TakeSound ==
  ASSUME RoundsAreSound, NEW t \in Threads, NEW v \in frontier, Take(t, v) PROVE RoundsAreSound'
<1> DEFINE c == [at |-> "pull", s |-> v, edges |-> InEdges(graph, v), value |-> Max]
<1>1. /\ job' = [job EXCEPT ![t] = c] /\ frontier' = frontier \ {v} /\ inside
      /\ job[t] = NoVertex /\ UNCHANGED <<dist, next_frontier, round, inside, graph>>
  BY DEF Take
<1>2. v \in Indices /\ c \in JobType
  BY FactsOfRounds DEF JobType, InEdges
<1>3. /\ job'[t].at = "pull" /\ job'[t].s = v /\ job[t].at = "idle"
      /\ \A u \in Threads \ {t} : job'[u] = job[u]
  BY <1>1, FactsOfRounds DEF NoVertex
<1>4. \A e \in graph : Comes(e) => Comes(e)'
  BY <1>1, <1>3 DEF Comes
<1>5. \A e \in graph : \A u \in Threads : PushesOver(u, e) => PushesOver(u, e)' /\ job'[u] = job[u]
  BY <1>3 DEF PushesOver
<1>6. CoversNext'
  BY <1>1, <1>4, <1>5 DEF CoversNext, RoundsAreSound
<1>7. RelaxesAll'
  BY <1>1, <1>4, <1>5 DEF RelaxesAll, RoundsAreSound
<1>8. \A u \in Threads : u # t /\ job[u] # NoVertex => job[u].s # v
  BY DEF RoundsAreSound, JobsAreRight
<1>9. /\ c.at = "pull" /\ c.s = v /\ c.value = Max /\ c.edges = InEdges(graph, v)
      /\ c.value >= Distances(graph)[v]
  BY <1>2, FactsOfRounds
<1>10. /\ dist' \in [Indices -> 0..Max] /\ \A i \in Indices : dist'[i] <= dist[i]
       /\ \A i \in Indices : dist'[i] >= Distances(graph)[i]
       /\ frontier' \subseteq frontier /\ next_frontier' \subseteq Indices /\ v \notin frontier'
  BY <1>1, FactsOfRounds DEF RoundsAreSound, NeverTooShort
<1> HIDE DEF c
<1> QED BY <1>1, <1>2, <1>6, <1>7, <1>8, <1>9, <1>10, OneJob

LEMMA PullSound ==
  ASSUME RoundsAreSound, NEW t \in Threads, NEW p \in job[t].edges, Pull(t, p) PROVE RoundsAreSound'
<1> DEFINE c == [job[t] EXCEPT !.edges = @ \ {p}, !.value = First({@, Plus(dist[p[1]], p[3])})]
           v == job[t].s
<1>1. /\ job' = [job EXCEPT ![t] = c] /\ job[t].at = "pull"
      /\ UNCHANGED <<dist, frontier, next_frontier, round, inside, graph>>
  BY FactsOfRounds DEF Pull
<1>2. /\ p \in graph /\ p[1] \in Indices /\ p[3] \in Nat /\ p[2] = v
      /\ dist[p[1]] \in 0..Max /\ v \in Indices /\ job[t].edges \subseteq InEdges(graph, v)
      /\ job[t].value >= Distances(graph)[v]
  BY <1>1, FactsOfRounds DEF RoundsAreSound, JobsAreRight, InEdges
<1>3. /\ Plus(dist[p[1]], p[3]) \in 0..Max
      /\ Plus(dist[p[1]], p[3]) >= Distances(graph)[v]
  <2>1. Distances(graph)[p[1]] \in 0..Max /\ Distances(graph)[p[1]] <= dist[p[1]]
    BY <1>2, FactsOfRounds DEF RoundsAreSound, NeverTooShort
  <2>2. Plus(Distances(graph)[p[1]], p[3]) <= Plus(dist[p[1]], p[3])
    BY <1>2, <2>1, PlusIs
  <2>3. Distances(graph)[v] <= Plus(Distances(graph)[p[1]], p[3])
    BY <1>2, FactsOfRounds, DistancesAre
  <2>4. /\ Plus(dist[p[1]], p[3]) \in 0..Max /\ Plus(Distances(graph)[p[1]], p[3]) \in 0..Max
        /\ Distances(graph)[v] \in 0..Max
    BY <1>2, <2>1, FactsOfRounds, PlusIs
  <2> QED BY <2>2, <2>3, <2>4
<1>4. /\ c \in JobType /\ c.at = "pull" /\ c.s = v /\ c.edges \subseteq InEdges(graph, v)
      /\ c.value >= Distances(graph)[v]
  <2> DEFINE x == First({job[t].value, Plus(dist[p[1]], p[3])})
  <2>1. x \in 0..Max /\ (x = job[t].value \/ x = Plus(dist[p[1]], p[3]))
    BY <1>3, FactsOfRounds, FirstOfTwo
  <2>2. /\ c = [job[t] EXCEPT !.edges = @ \ {p}, !.value = x]
        /\ job[t] \in JobType
    BY FactsOfRounds
  <2> HIDE DEF x
  <2>3. c \in JobType /\ c.at = "pull" /\ c.s = v /\ c.edges = job[t].edges \ {p} /\ c.value = x
    BY <1>1, <2>1, <2>2 DEF JobType
  <2> QED BY <1>2, <1>3, <2>1, <2>3
<1> HIDE DEF c
<1>5. job'[t] = c /\ \A u \in Threads \ {t} : job'[u] = job[u]
  BY <1>1, FactsOfRounds
<1>6. \A e \in graph : Comes(e) => Comes(e)'
  BY <1>1, <1>4, <1>5 DEF Comes
<1>7. \A e \in graph : \A u \in Threads : PushesOver(u, e) => PushesOver(u, e)' /\ job'[u] = job[u]
  BY <1>1, <1>5 DEF PushesOver
<1>8. CoversNext'
  BY <1>1, <1>6, <1>7 DEF CoversNext, RoundsAreSound
<1>9. RelaxesAll'
  BY <1>1, <1>6, <1>7 DEF RelaxesAll, RoundsAreSound
<1>10. /\ dist' \in [Indices -> 0..Max] /\ \A i \in Indices : dist'[i] <= dist[i]
       /\ \A i \in Indices : dist'[i] >= Distances(graph)[i]
       /\ frontier' \subseteq frontier /\ next_frontier' \subseteq Indices
  BY <1>1, FactsOfRounds DEF RoundsAreSound, NeverTooShort
<1>11. /\ v \notin frontier' /\ inside
       /\ \A u \in Threads : u # t /\ job[u] # NoVertex => job[u].s # v
  BY <1>1, OthersApart
<1> QED BY <1>1, <1>4, <1>8, <1>9, <1>10, <1>11, OneJob

LEMMA LowerSound ==
  ASSUME RoundsAreSound, NEW t \in Threads, Lower(t) PROVE RoundsAreSound'
<1> DEFINE c == [job[t] EXCEPT !.at = "read"]
           v == job[t].s
           x == First({dist[v], job[t].value})
<1>1. /\ job' = [job EXCEPT ![t] = c] /\ job[t].at = "pull" /\ dist' = [dist EXCEPT ![v] = x]
      /\ UNCHANGED <<frontier, next_frontier, round, inside, graph>>
  BY FactsOfRounds DEF Lower
<1>2. c \in JobType /\ c.at = "read" /\ c.s = v /\ v \in Indices /\ dist[v] \in 0..Max
  BY FactsOfRounds DEF JobType
<1>3. x \in 0..Max /\ x <= dist[v] /\ x >= Distances(graph)[v]
  <2>1. dist[v] >= Distances(graph)[v] /\ job[t].value >= Distances(graph)[v]
    BY <1>1, <1>2 DEF RoundsAreSound, NeverTooShort, JobsAreRight
  <2>2. x \in 0..Max /\ x <= dist[v] /\ (x = dist[v] \/ x = job[t].value)
    BY <1>2, FactsOfRounds, FirstOfTwo
  <2> HIDE DEF x
  <2> QED BY <2>1, <2>2
<1> HIDE DEF c, x
<1>4. /\ job'[t] = c /\ \A u \in Threads \ {t} : job'[u] = job[u]
      /\ \A i \in Indices : dist'[i] = IF i = v THEN x ELSE dist[i]
  BY <1>1, FactsOfRounds
<1>5. /\ dist' \in [Indices -> 0..Max] /\ \A i \in Indices : dist'[i] <= dist[i]
      /\ \A i \in Indices : dist'[i] >= Distances(graph)[i]
      /\ frontier' \subseteq frontier /\ next_frontier' \subseteq Indices
  BY <1>1, <1>2, <1>3, <1>4, FactsOfRounds DEF RoundsAreSound, NeverTooShort
<1>6. /\ v \notin frontier' /\ inside
      /\ \A u \in Threads : u # t /\ job[u] # NoVertex => job[u].s # v
      /\ \A u \in Threads : u # t /\ job[u].at # "idle" => job[u].s # v
  BY <1>1, OthersApart
<1>7. \A e \in graph : (Comes(e) => Comes(e)') /\ (e[1] = v => Comes(e)')
  BY <1>1, <1>2, <1>4 DEF Comes
<1>8. \A e \in graph : \A u \in Threads : PushesOver(u, e) => PushesOver(u, e)' /\ job'[u] = job[u]
  BY <1>1, <1>4 DEF PushesOver
<1>9. CoversNext'
  <2> SUFFICES ASSUME NEW e \in graph
               PROVE  \/ Comes(e)' \/ \E u \in Threads : PushesOver(u, e)'
                      \/ dist'[e[2]] <= Plus(WalkDistances(graph, round)[e[1]], e[3])
    BY <1>1 DEF CoversNext
  <2>1. \/ Comes(e) \/ \E u \in Threads : PushesOver(u, e)
        \/ dist[e[2]] <= Plus(WalkDistances(graph, round)[e[1]], e[3])
    BY <1>6 DEF RoundsAreSound, CoversNext
  <2>2. WalkDistances(graph, round)[e[1]] \in 0..Max
    BY FactsOfRounds
  <2> QED BY <1>5, <1>7, <1>8, <2>1, <2>2, StillRelaxed
<1>10. RelaxesAll'
  <2> SUFFICES ASSUME NEW e \in graph, e[1] # v
               PROVE  \/ Comes(e)' \/ e[1] \in next_frontier'
                      \/ \E u \in Threads : PushesOver(u, e)' /\ job'[u].value <= dist'[e[1]]
                      \/ dist'[e[2]] <= Plus(dist'[e[1]], e[3])
    BY <1>1, <1>7 DEF RelaxesAll
  <2>1. dist'[e[1]] = dist[e[1]]
    BY <1>4, FactsOfRounds
  <2>2. \/ Comes(e) \/ e[1] \in next_frontier
        \/ \E u \in Threads : PushesOver(u, e) /\ job[u].value <= dist[e[1]]
        \/ dist[e[2]] <= Plus(dist[e[1]], e[3])
    BY DEF RoundsAreSound, RelaxesAll
  <2>3. CASE Comes(e) \/ e[1] \in next_frontier
    BY <1>1, <1>7, <2>3
  <2>4. CASE \E u \in Threads : PushesOver(u, e) /\ job[u].value <= dist[e[1]]
    BY <1>8, <2>1, <2>4
  <2>5. CASE dist[e[2]] <= Plus(dist[e[1]], e[3])
    BY <1>5, <2>1, <2>5, StillRelaxed
  <2> QED BY <2>2, <2>3, <2>4, <2>5
<1> QED BY <1>1, <1>2, <1>5, <1>6, <1>9, <1>10, OneJob

LEMMA ReadSound ==
  ASSUME RoundsAreSound, NEW t \in Threads, ReadDistance(t) PROVE RoundsAreSound'
<1> DEFINE v == job[t].s
           c == [at |-> "push", s |-> v, edges |-> OutEdges(graph, v), value |-> dist[v]]
<1>1. /\ job' = [job EXCEPT ![t] = c] /\ job[t].at = "read"
      /\ UNCHANGED <<dist, frontier, next_frontier, round, inside, graph>>
  BY FactsOfRounds DEF ReadDistance, DistanceOf
<1>2. c \in JobType /\ v \in Indices /\ dist[v] \in 0..Max
  BY FactsOfRounds DEF JobType, OutEdges
<1>3. /\ c.at = "push" /\ c.s = v /\ c.value = dist[v] /\ c.edges = OutEdges(graph, v)
      /\ c.value >= Distances(graph)[v] /\ c.value <= WalkDistances(graph, round)[v]
  BY <1>2 DEF RoundsAreSound, NeverTooShort, AsWalks
<1> HIDE DEF c
<1>4. job'[t] = c /\ \A u \in Threads \ {t} : job'[u] = job[u]
  BY <1>1, FactsOfRounds
<1>5. \A e \in graph : e[1] = v => PushesOver(t, e)' /\ job'[t].value <= dist[e[1]]
  BY <1>2, <1>3, <1>4, FactsOfRounds DEF PushesOver, OutEdges
<1>6. \A e \in graph : Comes(e) /\ e[1] # v => Comes(e)'
  BY <1>1, <1>4 DEF Comes
<1>7. \A e \in graph : \A u \in Threads : PushesOver(u, e) => PushesOver(u, e)' /\ job'[u] = job[u]
  BY <1>1, <1>4 DEF PushesOver
<1>8. CoversNext'
  BY <1>1, <1>5, <1>6, <1>7 DEF CoversNext, RoundsAreSound
<1>9. RelaxesAll'
  <2> SUFFICES ASSUME NEW e \in graph, e[1] # v
               PROVE  \/ Comes(e)' \/ e[1] \in next_frontier'
                      \/ \E u \in Threads : PushesOver(u, e)' /\ job'[u].value <= dist'[e[1]]
                      \/ dist'[e[2]] <= Plus(dist'[e[1]], e[3])
    BY <1>1, <1>5 DEF RelaxesAll
  <2>1. \/ Comes(e) \/ e[1] \in next_frontier
        \/ \E u \in Threads : PushesOver(u, e) /\ job[u].value <= dist[e[1]]
        \/ dist[e[2]] <= Plus(dist[e[1]], e[3])
    BY DEF RoundsAreSound, RelaxesAll
  <2> QED BY <1>1, <1>6, <1>7, <2>1
<1>10. /\ dist' \in [Indices -> 0..Max] /\ \A i \in Indices : dist'[i] <= dist[i]
       /\ \A i \in Indices : dist'[i] >= Distances(graph)[i]
       /\ frontier' \subseteq frontier /\ next_frontier' \subseteq Indices
  BY <1>1, FactsOfRounds DEF RoundsAreSound, NeverTooShort
<1>11. /\ v \notin frontier' /\ inside
       /\ \A u \in Threads : u # t /\ job[u] # NoVertex => job[u].s # v
  BY <1>1, OthersApart
<1> QED BY <1>1, <1>2, <1>3, <1>8, <1>9, <1>10, <1>11, OneJob

LEMMA PushSound ==
  ASSUME RoundsAreSound, NEW t \in Threads, NEW p \in job[t].edges, Push(t, p) PROVE RoundsAreSound'
<1> DEFINE v == job[t].s
           c == [job[t] EXCEPT !.edges = @ \ {p}]
           d == p[2]
           x == Plus(job[t].value, p[3])
<1>1. /\ job' = [job EXCEPT ![t] = c] /\ job[t].at = "push"
      /\ UNCHANGED <<frontier, round, inside, graph>>
      /\ \/ x < dist[d] /\ dist' = [dist EXCEPT ![d] = x] /\ next_frontier' = next_frontier \cup {d}
         \/ ~ x < dist[d] /\ UNCHANGED <<dist, next_frontier>>
  BY FactsOfRounds DEF Push, InsertNext
<1>2. /\ v \in Indices /\ p \in graph /\ p[1] = v /\ d \in Indices /\ p[3] \in Nat
      /\ job[t].edges \subseteq OutEdges(graph, v) /\ job[t].value \in 0..Max
      /\ job[t].value >= Distances(graph)[v]
      /\ job[t].value <= WalkDistances(graph, round)[v]
  BY <1>1, FactsOfRounds DEF RoundsAreSound, JobsAreRight, OutEdges
<1>3. /\ c \in JobType /\ c.at = "push" /\ c.s = v /\ c.edges = job[t].edges \ {p}
      /\ c.value = job[t].value
  BY <1>1, FactsOfRounds DEF JobType
<1>4. x \in 0..Max /\ x >= Distances(graph)[d]
  <2>1. Distances(graph)[v] \in 0..Max /\ Distances(graph)[d] \in 0..Max
    BY <1>2, FactsOfRounds
  <2>2. /\ Plus(Distances(graph)[v], p[3]) <= x /\ x \in 0..Max
        /\ Plus(Distances(graph)[v], p[3]) \in 0..Max
    BY <1>2, <2>1, PlusIs
  <2>3. Distances(graph)[d] <= Plus(Distances(graph)[v], p[3])
    BY <1>2, FactsOfRounds, DistancesAre
  <2> HIDE DEF x
  <2> QED BY <2>1, <2>2, <2>3
<1> DEFINE lowered == x < dist[d]
<1> HIDE DEF c, x
<1>5. /\ job'[t] = c /\ \A u \in Threads \ {t} : job'[u] = job[u]
      /\ \A u \in Threads : job'[u].at = job[u].at /\ job'[u].s = job[u].s
                            /\ job'[u].value = job[u].value
  BY <1>1, <1>3, FactsOfRounds
<1>6. /\ \A i \in Indices : dist'[i] = IF lowered /\ i = d THEN x ELSE dist[i]
      /\ next_frontier \subseteq next_frontier' /\ (lowered => d \in next_frontier')
  BY <1>1, FactsOfRounds
<1>7. /\ dist' \in [Indices -> 0..Max] /\ \A i \in Indices : dist'[i] <= dist[i]
      /\ \A i \in Indices : dist'[i] >= Distances(graph)[i]
      /\ frontier' \subseteq frontier /\ next_frontier' \subseteq Indices
  <2>1. dist' \in [Indices -> 0..Max] /\ next_frontier' \subseteq Indices
    BY <1>1, <1>2, <1>4, FactsOfRounds
  <2>2. dist[d] \in 0..Max
    BY <1>2, FactsOfRounds
  <2>3. \A i \in Indices : dist'[i] <= dist[i] /\ dist'[i] >= Distances(graph)[i]
    BY <1>4, <1>6, <2>2, FactsOfRounds DEF RoundsAreSound, NeverTooShort
  <2> QED BY <1>1, <2>1, <2>3
<1>8. /\ v \notin frontier' /\ inside
      /\ \A u \in Threads : u # t /\ job[u] # NoVertex => job[u].s # v
  BY <1>1, OthersApart
<1>9. dist'[d] <= x
  BY <1>2, <1>4, <1>6, FactsOfRounds
<1>10. \A e \in graph : Comes(e) => Comes(e)'
  BY <1>1, <1>5 DEF Comes
<1>11. \A e \in graph : \A u \in Threads :
         PushesOver(u, e) => PushesOver(u, e)' \/ (u = t /\ e = p)
  BY <1>1, <1>3, <1>5 DEF PushesOver
<1>12. ASSUME NEW a \in 0..Max, job[t].value <= a PROVE dist'[d] <= Plus(a, p[3])
  <2>1. x <= Plus(a, p[3]) /\ Plus(a, p[3]) \in 0..Max
    BY <1>2, <1>12, PlusIs DEF x
  <2>2. dist'[d] \in 0..Max
    BY <1>2, <1>7
  <2> QED BY <1>4, <1>9, <2>1, <2>2
<1>13. CoversNext'
  <2> SUFFICES ASSUME NEW e \in graph
               PROVE  \/ Comes(e)' \/ \E u \in Threads : PushesOver(u, e)'
                      \/ dist'[e[2]] <= Plus(WalkDistances(graph, round)[e[1]], e[3])
    BY <1>1 DEF CoversNext
  <2>1. \/ Comes(e) \/ \E u \in Threads : PushesOver(u, e)
        \/ dist[e[2]] <= Plus(WalkDistances(graph, round)[e[1]], e[3])
    BY <1>8 DEF RoundsAreSound, CoversNext
  <2>2. WalkDistances(graph, round)[e[1]] \in 0..Max
    BY FactsOfRounds
  <2>3. e = p => dist'[e[2]] <= Plus(WalkDistances(graph, round)[e[1]], e[3])
    BY <1>2, <1>12, <2>2
  <2> QED BY <1>7, <1>10, <1>11, <2>1, <2>2, <2>3, StillRelaxed
<1>14. RelaxesAll'
  <2> SUFFICES ASSUME NEW e \in graph, ~ (lowered /\ e[1] = d)
               PROVE  \/ Comes(e)' \/ e[1] \in next_frontier'
                      \/ \E u \in Threads : PushesOver(u, e)' /\ job'[u].value <= dist'[e[1]]
                      \/ dist'[e[2]] <= Plus(dist'[e[1]], e[3])
    BY <1>1, <1>6 DEF RelaxesAll
  <2>1. dist'[e[1]] = dist[e[1]] /\ dist[e[1]] \in 0..Max
    BY <1>6, FactsOfRounds
  <2>2. \/ Comes(e) \/ e[1] \in next_frontier
        \/ \E u \in Threads : PushesOver(u, e) /\ job[u].value <= dist[e[1]]
        \/ dist[e[2]] <= Plus(dist[e[1]], e[3])
    BY DEF RoundsAreSound, RelaxesAll
  <2>3. CASE Comes(e) \/ e[1] \in next_frontier
    BY <1>6, <1>10, <2>3
  <2>4. CASE \E u \in Threads : PushesOver(u, e) /\ job[u].value <= dist[e[1]]
    <3>1. PICK u \in Threads : PushesOver(u, e) /\ job[u].value <= dist[e[1]]
      BY <2>4
    <3>2. CASE PushesOver(u, e)'
      BY <1>5, <2>1, <3>1, <3>2
    <3>3. CASE u = t /\ e = p
      BY <1>12, <2>1, <3>1, <3>3
    <3> QED BY <1>11, <3>1, <3>2, <3>3
  <2>5. CASE dist[e[2]] <= Plus(dist[e[1]], e[3])
    BY <1>7, <2>1, <2>5, StillRelaxed
  <2> QED BY <2>2, <2>3, <2>4, <2>5
<1>15. c.edges \subseteq OutEdges(graph, c.s)
  BY <1>2, <1>3
<1> QED BY <1>1, <1>2, <1>3, <1>7, <1>8, <1>13, <1>14, <1>15, OneJob

LEMMA LeaveSound ==
  ASSUME RoundsAreSound, NEW t \in Threads, Leave(t) PROVE RoundsAreSound'
<1>1. /\ job' = [job EXCEPT ![t] = NoVertex] /\ job[t].at = "push" /\ job[t].edges = {}
      /\ UNCHANGED <<dist, frontier, next_frontier, round, inside, graph>>
  BY DEF Leave
<1>2. /\ NoVertex \in JobType /\ NoVertex.at = "idle"
  BY FactsOfRounds DEF NoVertex, JobType
<1>3. job'[t] = NoVertex /\ \A u \in Threads \ {t} : job'[u] = job[u]
  BY <1>1, FactsOfRounds
<1>4. \A e \in graph : Comes(e) => Comes(e)'
  BY <1>1, <1>3 DEF Comes
<1>5. \A e \in graph : \A u \in Threads : PushesOver(u, e) => PushesOver(u, e)' /\ job'[u] = job[u]
  BY <1>1, <1>3 DEF PushesOver
<1>6. CoversNext'
  BY <1>1, <1>4, <1>5 DEF CoversNext, RoundsAreSound
<1>7. RelaxesAll'
  BY <1>1, <1>4, <1>5 DEF RelaxesAll, RoundsAreSound
<1>8. /\ dist' \in [Indices -> 0..Max] /\ \A i \in Indices : dist'[i] <= dist[i]
      /\ \A i \in Indices : dist'[i] >= Distances(graph)[i]
      /\ frontier' \subseteq frontier /\ next_frontier' \subseteq Indices
  BY <1>1, FactsOfRounds DEF RoundsAreSound, NeverTooShort
<1>9. inside
  BY <1>1, OthersApart
<1> QED BY <1>1, <1>2, <1>6, <1>7, <1>8, <1>9, OneJob

-----------------------------------------------------------------------------
(* Between rounds. *)

LEMMA WaitingHolds ==
  ASSUME RoundsAreSound, Waiting, next_frontier = {}
  PROVE  \A e \in graph : e[1] \in frontier \/ dist[e[2]] <= Plus(dist[e[1]], e[3])
<1>1. \A t \in Threads : job[t].at = "idle"
  BY DEF Waiting, NoVertex
<1> QED BY <1>1 DEF RoundsAreSound, RelaxesAll, Comes, PushesOver

LEMMA BeginSound ==
  ASSUME RoundsAreSound, Begin PROVE RoundsAreSound'
<1>1. /\ ~ inside /\ inside' = TRUE /\ round < n
      /\ UNCHANGED <<dist, frontier, next_frontier, round, job, graph>>
  BY DEF Begin, More
<1>2. Waiting /\ next_frontier = {}
  BY <1>1 DEF RoundsAreSound, RoundsAreApart
<1>3. CoversNext'
  <2> SUFFICES ASSUME NEW e \in graph, e[1] \notin frontier
               PROVE  dist[e[2]] <= Plus(WalkDistances(graph, round)[e[1]], e[3])
    BY <1>1 DEF CoversNext, Comes
  <2>1. dist[e[2]] <= Plus(dist[e[1]], e[3])
    BY <1>2, WaitingHolds
  <2>2. /\ e[3] \in Nat /\ dist[e[1]] \in 0..Max /\ dist[e[2]] \in 0..Max
        /\ WalkDistances(graph, round)[e[1]] \in 0..Max
        /\ dist[e[1]] <= WalkDistances(graph, round)[e[1]]
    BY FactsOfRounds DEF RoundsAreSound, AsWalks
  <2>3. /\ Plus(dist[e[1]], e[3]) <= Plus(WalkDistances(graph, round)[e[1]], e[3])
        /\ Plus(dist[e[1]], e[3]) \in 0..Max
        /\ Plus(WalkDistances(graph, round)[e[1]], e[3]) \in 0..Max
    BY <2>2, PlusIs
  <2> QED BY <2>1, <2>2, <2>3
<1>4. BellmanFordTypeOK'
  BY <1>1 DEF RoundsAreSound, BellmanFordTypeOK
<1>5. RoundsAreApart' /\ AtMostN' /\ JobsAreRight' /\ NeverTooShort' /\ AsWalks'
  BY <1>1 DEF RoundsAreSound, RoundsAreApart, AtMostN, JobsAreRight, NeverTooShort, AsWalks
<1>6. RelaxesAll'
  BY <1>1 DEF RoundsAreSound, RelaxesAll, Comes, PushesOver
<1> QED BY <1>1, <1>3, <1>4, <1>5, <1>6 DEF RoundsAreSound

LEMMA SwapSound ==
  ASSUME RoundsAreSound, SwapFrontiers PROVE RoundsAreSound'
<1>1. /\ inside /\ inside' = FALSE /\ frontier = {} /\ Waiting /\ round' = round + 1
      /\ frontier' = next_frontier /\ next_frontier' = {} /\ UNCHANGED <<dist, job, graph>>
  BY DEF SwapFrontiers
<1>2. \A t \in Threads : job[t] = NoVertex /\ job[t].at = "idle"
  BY <1>1 DEF Waiting, NoVertex
<1>3. AsWalks'
  <2> SUFFICES ASSUME NEW v \in Indices PROVE dist[v] <= WalkDistances(graph, round + 1)[v]
    BY <1>1 DEF AsWalks
  <2> DEFINE w == WalkDistances(graph, round)
  <2>1. WalkDistances(graph, round + 1) = OneMore(graph, w) /\ w \in DistancesToAll
    BY FactsOfRounds, WalksAre
  <2>2. OneMore(graph, w)[v] <= w[v] /\ dist[v] <= w[v]
    BY <2>1, FactsOfRounds, OneMoreIs DEF RoundsAreSound, AsWalks
  <2>3. OneMore(graph, w)[v] \in 0..Max /\ w[v] \in 0..Max /\ dist[v] \in 0..Max
    BY <2>1, FactsOfRounds, OneMoreIs DEF DistancesToAll
  <2>4. CASE OneMore(graph, w)[v] < w[v]
    <3>1. PICK e \in graph : e[2] = v /\ OneMore(graph, w)[v] = Plus(w[e[1]], e[3])
      BY <2>1, <2>4, FactsOfRounds, OneMoreIs
    <3>2. dist[e[2]] <= Plus(w[e[1]], e[3])
      BY <1>1, <1>2 DEF RoundsAreSound, CoversNext, Comes, PushesOver
    <3> QED BY <2>1, <3>1, <3>2
  <2> QED BY <2>1, <2>2, <2>3, <2>4
<1>4. BellmanFordTypeOK'
  <2>1. round' \in 0..n
    BY <1>1, FactsOfRounds DEF RoundsAreSound, AtMostN
  <2>2. inside' \in BOOLEAN
    BY <1>1, Zenon
  <2> QED BY <1>1, <2>1, <2>2 DEF RoundsAreSound, BellmanFordTypeOK
<1>5. RoundsAreApart' /\ AtMostN' /\ NeverTooShort' /\ CoversNext'
  BY <1>1, <1>2 DEF RoundsAreSound, RoundsAreApart, Waiting, AtMostN, NeverTooShort, CoversNext
<1>6. JobsAreRight'
  BY <1>1, <1>2 DEF JobsAreRight
<1>7. RelaxesAll'
  <2> SUFFICES ASSUME NEW e \in graph, e[1] \notin next_frontier
               PROVE  dist[e[2]] <= Plus(dist[e[1]], e[3])
    BY <1>1 DEF RelaxesAll, Comes
  <2> QED BY <1>1, <1>2 DEF RoundsAreSound, RelaxesAll, Comes, PushesOver
<1> QED BY <1>1, <1>3, <1>4, <1>5, <1>6, <1>7 DEF RoundsAreSound

LEMMA RoundsStaySound ==
  ASSUME RoundsAreSound, [BellmanFordNext]_bellman_ford_vars PROVE RoundsAreSound'
<1>1. CASE UNCHANGED bellman_ford_vars
  BY <1>1 DEF bellman_ford_vars, RoundsAreSound, BellmanFordTypeOK, RoundsAreApart, Waiting,
              AtMostN, JobsAreRight, NeverTooShort, AsWalks, CoversNext, RelaxesAll, Comes, PushesOver
<1>2. CASE Over
  BY <1>1, <1>2 DEF Over
<1>3. CASE BellmanFordNext /\ ~ Over
  BY <1>3, TakeSound, PullSound, PushSound, LowerSound, ReadSound, LeaveSound, BeginSound,
     SwapSound DEF BellmanFordNext
<1> QED BY <1>1, <1>2, <1>3

(***************************************************************************)
(* At the end every edge is relaxed, or n rounds have covered all walks.   *)
(***************************************************************************)
LEMMA SameDistances ==
  ASSUME RoundsAreSound, \A v \in Indices : dist[v] <= Distances(graph)[v]
  PROVE  dist = Distances(graph)
<1>1. \A v \in Indices : dist[v] = Distances(graph)[v]
  BY FactsOfRounds DEF RoundsAreSound, NeverTooShort
<1>2. dist \in [Indices -> 0..Max] /\ Distances(graph) \in [Indices -> 0..Max]
  BY FactsOfRounds, DistancesAre DEF DistancesToAll
<1> QED BY <1>1, <1>2

LEMMA RelaxedIsShortest ==
  ASSUME RoundsAreSound, RoundsOver
  PROVE  dist = Distances(graph)
<1>1. ~ inside /\ Waiting /\ next_frontier = {} /\ ~ (round < n /\ frontier # {})
  BY DEF RoundsOver, More, RoundsAreSound, RoundsAreApart
<1>2. \A v \in Indices : dist[v] >= Distances(graph)[v] /\ dist[v] <= WalkDistances(graph, round)[v]
  BY DEF RoundsAreSound, NeverTooShort, AsWalks
<1>3. CASE round = n
  <2>1. \A v \in Indices : dist[v] <= Distances(graph)[v]
    BY <1>2, <1>3, FactsOfRounds, DistancesAre
  <2> QED BY <2>1, SameDistances
<1>4. CASE frontier = {}
  <2>1. graph \in Graphs /\ dist \in DistancesToAll /\ source \in Indices /\ Max \in 0..Max
    BY FactsOfRounds, PathConstants DEF RoundsAreSound, DistancesToAll
  <2>2. dist[source] = 0
    <3>1. WalkDistances(graph, 0)[source] = 0
      BY <2>1, WalksAre DEF Start
    <3>2. WalkDistances(graph, round)[source] <= 0
      BY <2>1, <3>1, FactsOfRounds, WalksShrink
    <3>3. WalkDistances(graph, round)[source] \in 0..Max /\ dist[source] \in 0..Max
      BY <2>1, FactsOfRounds, GraphIs DEF DistancesToAll
    <3> QED BY <1>2, <2>1, <3>2, <3>3
  <2>3. \A e \in graph : dist[e[2]] <= Plus(dist[e[1]], e[3])
    BY <1>1, <1>4, WaitingHolds
  <2>4. \A v \in Indices : Distances(graph)[v] < Max => dist[v] = Distances(graph)[v]
    BY <1>2, <2>1, <2>2, <2>3, ExactBelow
  <2>5. \A v \in Indices : dist[v] <= Distances(graph)[v]
    BY <2>1, <2>4, DistancesAre DEF DistancesToAll
  <2> QED BY <2>5, SameDistances
<1> QED BY <1>1, <1>3, <1>4, FactsOfRounds

LEMMA RoundsGive == RoundsAreSound => BellmanFordInvariant /\ FindsShortestPaths
<1> SUFFICES ASSUME RoundsAreSound PROVE BellmanFordInvariant /\ FindsShortestPaths
  OBVIOUS
<1>1. EdgesAreRelaxed
  BY WaitingHolds DEF EdgesAreRelaxed, RoundsAreSound, RoundsAreApart
<1>2. RoundsCoverWalks
  BY DEF RoundsCoverWalks, RoundsAreSound, NeverTooShort, AsWalks
<1>3. FindsShortestPaths
  BY RelaxedIsShortest DEF FindsShortestPaths
<1> QED BY <1>1, <1>2, <1>3 DEF BellmanFordInvariant, RoundsAreSound

(* The rounds of bellman_ford achieve what they should. *)
THEOREM RoundsAreEnough == BellmanFordSpec => []BellmanFordInvariant
<1>1. RoundsAreSound => BellmanFordInvariant
  BY RoundsGive
<1>2. RoundsAreSound /\ [BellmanFordNext]_bellman_ford_vars => RoundsAreSound'
  BY RoundsStaySound
<1> QED BY <1>1, <1>2, InitialRounds, PTL DEF BellmanFordSpec

(* bellman_ford ends with the shortest distances. *)
THEOREM ShortestPathsAreFound == BellmanFordSpec => []FindsShortestPaths
<1>1. RoundsAreSound => FindsShortestPaths
  BY RoundsGive
<1>2. RoundsAreSound /\ [BellmanFordNext]_bellman_ford_vars => RoundsAreSound'
  BY RoundsStaySound
<1> QED BY <1>1, <1>2, InitialRounds, PTL DEF BellmanFordSpec

-----------------------------------------------------------------------------
(***************************************************************************)
(* dijkstra. Its map is an instance of IndexMap, and Tree of the proofs    *)
(* about it: their definitions say the same.                               *)
(***************************************************************************)
Tree == INSTANCE IndexMapProof WITH sequence <- dist

LEMMA MapAssumed == Tree!Geometry /\ Tree!Priorities
BY WordsAssumption, ShortestPathsAssumption DEF Geometry, Tree!Geometry, Tree!Priorities

LEMMA SameInit == Map!Init => Tree!Init
BY DEF Map!Init, Tree!Init, Map!Levels, Tree!Levels, Map!Indices, Tree!Indices, Map!Values, Tree!Values,
  Map!InUse, Tree!InUse, Map!AllBelow, Tree!AllBelow, Map!Idle, Tree!Idle, Map!Nodes, Tree!Nodes,
  Map!NumWords, Tree!NumWords, Map!Length, Tree!Length, Map!OfWord, Tree!OfWord, Map!Top, Tree!Top,
  Map!First, Tree!First

LEMMA SameLower ==
  ASSUME NEW t, NEW i, NEW v, Map!Lower(t, i, v) PROVE Tree!Lower(t, i, v)
BY DEF Map!Lower, Tree!Lower, Map!Idle, Tree!Idle, Map!tree, Tree!tree, Map!history, Tree!history

LEMMA SameInsert ==
  ASSUME NEW t, Map!Insert(t) PROVE Tree!Insert(t)
BY DEF Map!Insert, Tree!Insert, Map!Stops, Tree!Stops, Map!OfWord, Tree!OfWord, Map!Pos, Tree!Pos,
  Map!AddBit, Tree!AddBit, Map!Top, Tree!Top, Map!Idle, Tree!Idle, Map!Upwards, Tree!Upwards,
  Map!word_id, Tree!word_id, Map!First, Tree!First

LEMMA SameRepair ==
  ASSUME Map!Repair PROVE Tree!Repair
BY DEF Map!Repair, Tree!Repair, Map!repair, Tree!repair, Map!NewlyDirty, Tree!NewlyDirty,
  Map!Reached, Tree!Reached, Map!Repaired, Tree!Repaired, Map!Old, Tree!Old, Map!Levels, Tree!Levels,
  Map!Top, Tree!Top, Map!word_id, Tree!word_id, Map!Nodes, Tree!Nodes, Map!NumWords, Tree!NumWords,
  Map!Length, Tree!Length, Map!First, Tree!First, Map!OfWord, Tree!OfWord, Map!Resting, Tree!Resting,
  Map!Idle, Tree!Idle

LEMMA SameExtract ==
  ASSUME NEW h, Map!ExtractMin(h) PROVE Tree!ExtractMin(h)
BY DEF Map!ExtractMin, Tree!ExtractMin, Map!Selected, Tree!Selected, Map!empty, Tree!empty,
  Map!Word, Tree!Word, Map!Levels, Tree!Levels, Map!Top, Tree!Top, Map!word_id, Tree!word_id,
  Map!OfWord, Tree!OfWord, Map!tree, Tree!tree

LEMMA SameTest ==
  ASSUME NEW w, Map!LeafTest(w) PROVE Tree!LeafTest(w)
BY DEF Map!LeafTest, Tree!LeafTest, Map!First, Tree!First, Map!Extracted, Tree!Extracted, Map!tree,
  Tree!tree

LEMMA SameKeep ==
  ASSUME NEW w, Map!LeafKeep(w) PROVE Tree!LeafKeep(w)
BY DEF Map!LeafKeep, Tree!LeafKeep, Map!First, Tree!First, Map!tree, Tree!tree, Map!history,
  Tree!history

LEMMA SameFinish ==
  ASSUME Map!Finish PROVE Tree!Finish
BY DEF Map!Finish, Tree!Finish, Map!Joined, Tree!Joined, Map!Leave, Tree!Leave,
  Map!LeftOver, Tree!LeftOver, Map!Selected, Tree!Selected, Map!empty, Tree!empty,
  Map!Word, Tree!Word, Map!Levels, Tree!Levels, Map!Top, Tree!Top, Map!word_id, Tree!word_id,
  Map!Nodes, Tree!Nodes, Map!NumWords, Tree!NumWords, Map!Length, Tree!Length, Map!First, Tree!First,
  Map!OfWord, Tree!OfWord, Map!Resting, Tree!Resting, Map!Idle, Tree!Idle

LEMMA SameType ==
  ASSUME Tree!TypeOK PROVE Map!TypeOK
BY DEF Map!TypeOK, Tree!TypeOK, Map!Levels, Tree!Levels, Map!Indices, Tree!Indices, Map!Values, Tree!Values,
  Map!Nodes, Tree!Nodes, Map!NumWords, Tree!NumWords, Map!Length, Tree!Length, Map!Top, Tree!Top

LEMMA MapSteps ==
  ASSUME Tree!Sound, [Tree!Next]_(Tree!vars) PROVE Tree!Sound'
BY MapAssumed, Tree!StepSound

-----------------------------------------------------------------------------
(* Vertex v is marked for the next repair, or about to be. *)
Waits(v) == v \in inserted \/ \E t \in Threads : climber[t].layer = 0 /\ climber[t].index = v

LEMMA FactsOfMap ==
  ASSUME Tree!Sound
  PROVE  /\ Map!TypeOK /\ dist \in [Indices -> 0..Max] /\ threshold \in 0..Max
         /\ held \subseteq Indices /\ called \subseteq Indices /\ inserted \subseteq Indices
         /\ climber \in [Threads -> [index : Indices, layer : 0..Layers]]
         /\ phase = "clean" => inserted = {} /\ \A v \in Indices : ~ Waits(v)
         /\ phase # "extract" => DOMAIN leaf = {} /\ called = {}
         /\ phase = "extract" => /\ called \cap held = {}
                                 /\ \A w \in DOMAIN leaf : leaf[w].todo \subseteq held
<1>1. /\ dist \in [Indices -> 0..Max] /\ threshold \in 0..Max
      /\ held \subseteq Indices /\ called \subseteq Indices /\ inserted \subseteq Indices
      /\ climber \in [Threads -> [index : Indices, layer : 0..Layers]]
  BY DEF Tree!Sound, Tree!TypeOK, Tree!Indices, Indices, Tree!Values
<1>2. Map!TypeOK
  BY SameType DEF Tree!Sound
<1>3. /\ phase = "clean" => inserted = {} /\ \A t \in Threads : climber[t].layer = Layers
      /\ phase # "extract" => DOMAIN leaf = {} /\ called = {}
  BY DEF Tree!Sound, Tree!PhasesAreApart, Tree!Resting, Tree!Idle
<1>4. phase = "clean" => \A v \in Indices : ~ Waits(v)
  <2>1. Layers # 0
    BY WordsAssumption, Parameters
  <2> QED BY <1>3, <2>1 DEF Waits
<1>5. phase = "extract" => /\ called \cap held = {}
                           /\ \A w \in DOMAIN leaf : leaf[w].todo \subseteq held
  BY DEF Tree!Sound, Tree!Extraction, Tree!LeafIsSound
<1> QED BY <1>1, <1>2, <1>3, <1>4, <1>5

(* After a repair the least value of the tree bounds those of its elements. *)
LEMMA LeastOfAll ==
  ASSUME Tree!Sound, phase = "clean"
  PROVE  min_value \in 0..Max /\ \A v \in held : min_value <= dist[v]
<1>1. Tree!TreeIsExact
  BY MapAssumed, Tree!SoundIsMapInvariant DEF Tree!MapInvariant
<1>2. /\ Top \in Levels /\ Top + 1 = Layers /\ 0 \in 0..(NumWords(Top) - 1)
      /\ held \subseteq Indices /\ dist \in [Indices -> 0..Max] /\ 0 \in Indices
  <2>1. Top \in Levels /\ Top + 1 = Layers /\ 0 \in Indices
    BY WordsAssumption, Parameters
  <2>2. NumWords(Top) = Length(Layers) /\ Pos(Layers, 0) \in 0..(Length(Layers) - 1)
        /\ Pos(Layers, 0) = 0
    BY <2>1, WordsAssumption, WordsAreNodes, PositionsInLayer
  <2> QED BY <2>1, <2>2, FactsOfMap
<1> DEFINE values == {dist[v] : v \in held}
<1>3. Tree!Below(Top, 0) = held
  <2>1. \A v \in held : Pos(Layers, v) = 0
    BY <1>2, WordsAssumption, PositionsInLayer
  <2> QED BY <1>2, <2>1 DEF Tree!Below, Tree!Pos, Pos
<1>4. min_value = First({Max} \cup values)
  <2>1. Top \in Tree!Levels /\ 0 \in Tree!Nodes(Top)
    BY <1>2 DEF Tree!Levels, Tree!Top, Levels, Top, Tree!Nodes, Tree!NumWords, NumWords,
      Tree!Length, Length
  <2>2. augval[Top][0] = Tree!First({Max} \cup {dist[v] : v \in Tree!Below(Top, 0)})
    BY <1>1, <2>1 DEF Tree!TreeIsExact
  <2> QED BY <1>3, <2>2 DEF Tree!First, First, min_value
<1>5. values \subseteq 0..Max /\ Max \in 0..Max
  BY <1>2, PathConstants
<1>6. /\ First({Max} \cup values) \in 0..Max
      /\ \A b \in values : First({Max} \cup values) <= b
  <2> HIDE DEF values
  <2> QED BY <1>5, FirstOf
<1> QED BY <1>4, <1>6

-----------------------------------------------------------------------------
(***************************************************************************)
(* The inductive invariant. Each edge is relaxed, or its source is in the  *)
(* map, on its way into it, or about to offer its present distance; below  *)
(* the threshold of an extraction all distances are final, and so are      *)
(* those of the vertices handed out.                                       *)
(***************************************************************************)
Offer == [from : Indices, to : Indices, offer : 0..Max]

UserTypes ==
  /\ graph \in Graphs /\ running \subseteq called /\ pushes \subseteq Offer
  /\ caller \in [Threads -> Indices \cup {Nobody}] /\ state \in {"start", "loop", "done"}

StatesAreRight ==
  /\ state = "start" => phase = "clean" /\ dist = [v \in Indices |-> Max]
  /\ state # "start" => dist[source] = 0
  /\ state = "done" => phase = "clean" /\ dist = Distances(graph)

OnlyInExtraction == phase # "extract" => running = {} /\ pushes = {}

NoneTooShort == NeverTooShort /\ \A p \in pushes : p.offer >= Distances(graph)[p.to]

Offered(e) == \E p \in pushes : p.to = e[2] /\ p.offer <= Plus(dist[e[1]], e[3])
IsRelaxed(e) == dist[e[2]] <= Plus(dist[e[1]], e[3])

EdgesAreOwed ==
  \A e \in graph : Waits(e[1]) \/ e[1] \in held \cup running \/ Offered(e) \/ IsRelaxed(e)

FinalBelow ==
  phase = "extract" =>
    \A v \in Indices : Distances(graph)[v] < threshold => dist[v] = Distances(graph)[v]

DijkstraSound ==
  /\ UserTypes /\ StatesAreRight /\ OnlyInExtraction
  /\ NoneTooShort /\ EdgesAreOwed
  /\ FinalBelow /\ ExtractedAreFinal

LEMMA PlusOfMax == \A w \in Nat : Plus(Max, w) = Max
BY PathConstants DEF Plus

LEMMA EdgeIs ==
  ASSUME Tree!Sound, graph \in Graphs, NEW e \in graph
  PROVE  /\ e[1] \in Indices /\ e[2] \in Indices /\ e[3] \in Nat
         /\ dist[e[1]] \in 0..Max /\ dist[e[2]] \in 0..Max
         /\ Plus(dist[e[1]], e[3]) \in 0..Max
<1>1. e[1] \in Indices /\ e[2] \in Indices /\ e[3] \in Nat
  BY PathConstants
<1>2. dist[e[1]] \in 0..Max /\ dist[e[2]] \in 0..Max
  BY <1>1, FactsOfMap
<1> QED BY <1>1, <1>2, PlusIs

LEMMA InitialSearch == DijkstraInit => Tree!Sound /\ DijkstraSound
<1> SUFFICES ASSUME DijkstraInit PROVE Tree!Sound /\ DijkstraSound
  OBVIOUS
<1>1. Tree!Sound
  BY MapAssumed, SameInit, Tree!InitSound DEF DijkstraInit
<1>2. /\ dist = [v \in Indices |-> Max] /\ graph \in Graphs /\ running = {} /\ pushes = {}
      /\ caller = [t \in Threads |-> Nobody] /\ state = "start" /\ phase = "clean" /\ called = {}
  BY DEF DijkstraInit, Map!Init
<1>3. UserTypes /\ StatesAreRight /\ OnlyInExtraction /\ FinalBelow /\ ExtractedAreFinal
  BY <1>2 DEF UserTypes, StatesAreRight, OnlyInExtraction, FinalBelow, ExtractedAreFinal
<1>4. NoneTooShort
  BY <1>2, GraphIs DEF NoneTooShort, NeverTooShort, DistancesToAll
<1>5. EdgesAreOwed
  BY <1>2, GraphIs, PlusOfMax, PathConstants DEF EdgesAreOwed, IsRelaxed
<1> QED BY <1>1, <1>3, <1>4, <1>5 DEF DijkstraSound

-----------------------------------------------------------------------------
(* A distance is lowered, and its vertex is on its way into the map. *)
LEMMA DistanceFalls ==
  ASSUME Tree!Sound, DijkstraSound, NEW t \in Threads, NEW i \in Indices, NEW d \in 0..Max,
         Map!Lower(t, i, d), d >= Distances(graph)[i], graph' = graph
  PROVE  /\ dist' \in [Indices -> 0..Max] /\ dist'[i] = d
         /\ \A v \in Indices : dist'[v] <= dist[v] /\ (v # i => dist'[v] = dist[v])
         /\ Waits(i)' /\ \A v \in Indices : Waits(v) => Waits(v)'
         /\ held' = held /\ called' = called /\ (phase' = "extract" <=> phase = "extract")
         /\ NeverTooShort' /\ FinalBelow' /\ ExtractedAreFinal'
<1>1. /\ d < dist[i] /\ dist' = [dist EXCEPT ![i] = d] /\ climber[t] = Map!Idle
      /\ climber' = [climber EXCEPT ![t] = [index |-> i, layer |-> 0]]
      /\ held' = held /\ called' = called /\ inserted' = inserted /\ threshold' = threshold
      /\ phase' = IF phase = "clean" THEN "user" ELSE phase
  BY DEF Map!Lower, Map!history
<1>2. /\ dist \in [Indices -> 0..Max] /\ called \subseteq Indices
      /\ climber \in [Threads -> [index : Indices, layer : 0..Layers]] /\ graph \in Graphs
  BY FactsOfMap DEF DijkstraSound, UserTypes
<1>3. /\ dist' \in [Indices -> 0..Max] /\ dist'[i] = d
      /\ \A v \in Indices : dist'[v] <= dist[v] /\ (v # i => dist'[v] = dist[v])
  BY <1>1, <1>2
<1>4. climber[t].layer # 0
  BY <1>1, WordsAssumption, Parameters DEF Map!Idle
<1>5. Waits(i)' /\ \A v \in Indices : Waits(v) => Waits(v)'
  BY <1>1, <1>2, <1>4 DEF Waits
<1>6. NeverTooShort'
  BY <1>3 DEF DijkstraSound, NoneTooShort, NeverTooShort
<1>7. \A v \in Indices : Distances(graph)[v] \in 0..Max /\ Distances(graph)[v] <= dist'[v]
  BY <1>2, <1>6, GraphIs DEF DistancesToAll, NeverTooShort
<1>8. \A v \in Indices : dist[v] = Distances(graph)[v] => dist'[v] = Distances(graph)[v]
  BY <1>3, <1>7
<1>9. FinalBelow' /\ ExtractedAreFinal'
  BY <1>1, <1>2, <1>8 DEF DijkstraSound, FinalBelow, ExtractedAreFinal
<1> QED BY <1>1, <1>3, <1>5, <1>6, <1>9

(* The source is at 0; all other distances are still Max, and stay relaxed. *)
LEMMA InsertSourceSound ==
  ASSUME Tree!Sound, Tree!Sound', DijkstraSound, NEW t \in Threads, InsertSource(t)
  PROVE  DijkstraSound'
<1>1. /\ state = "start" /\ state' = "loop" /\ Map!Lower(t, source, 0)
      /\ UNCHANGED <<graph, running, pushes, caller>>
  BY DEF InsertSource
<1>2. /\ dist = [v \in Indices |-> Max] /\ phase = "clean" /\ graph \in Graphs
      /\ running = {} /\ pushes = {}
  BY <1>1 DEF DijkstraSound, StatesAreRight, UserTypes, OnlyInExtraction
<1>3. source \in Indices /\ 0 \in 0..Max /\ Distances(graph)[source] = 0
  BY <1>2, PathConstants, DistancesAre
<1>4. /\ dist' \in [Indices -> 0..Max] /\ dist'[source] = 0
      /\ \A v \in Indices : dist'[v] <= dist[v] /\ (v # source => dist'[v] = dist[v])
      /\ Waits(source)' /\ held' = held /\ called' = called
      /\ NeverTooShort' /\ FinalBelow' /\ ExtractedAreFinal'
  BY <1>1, <1>3, DistanceFalls
<1>5. UserTypes' /\ StatesAreRight' /\ OnlyInExtraction' /\ NoneTooShort'
  BY <1>1, <1>2, <1>4
  DEF DijkstraSound, UserTypes, StatesAreRight, OnlyInExtraction, NoneTooShort
<1>6. ASSUME NEW e \in graph, e[1] # source PROVE IsRelaxed(e)'
  <2>1. e[1] \in Indices /\ e[2] \in Indices /\ e[3] \in Nat
    BY <1>2, PathConstants
  <2>2. dist'[e[1]] = Max /\ dist'[e[2]] <= Max
    BY <1>2, <1>4, <1>6, <2>1
  <2> QED BY <2>1, <2>2, PlusOfMax DEF IsRelaxed
<1>7. EdgesAreOwed'
  BY <1>1, <1>4, <1>6 DEF EdgesAreOwed
<1> QED BY <1>4, <1>5, <1>7 DEF DijkstraSound

LEMMA ImproveSound ==
  ASSUME Tree!Sound, Tree!Sound', DijkstraSound, NEW t \in Threads, NEW p \in pushes, Improve(t, p)
  PROVE  DijkstraSound'
<1>1. /\ phase = "extract" /\ graph \in Graphs /\ pushes \subseteq Offer
      /\ p.from \in Indices /\ p.to \in Indices /\ p.offer \in 0..Max
      /\ p.offer >= Distances(graph)[p.to] /\ state # "start" /\ state # "done"
  BY DEF DijkstraSound, OnlyInExtraction, UserTypes, Offer, NoneTooShort, StatesAreRight
<1>2. pushes' = pushes \ {p} /\ UNCHANGED <<graph, running, state>>
  BY DEF Improve
<1>3. \A e \in graph : /\ e[1] \in Indices /\ e[2] \in Indices /\ e[3] \in Nat
                       /\ dist[e[1]] \in 0..Max /\ dist[e[2]] \in 0..Max
                       /\ Plus(dist[e[1]], e[3]) \in 0..Max
  BY <1>1, EdgeIs
<1>4. CASE p.offer < dist[p.to]
  <2>1. Map!Lower(t, p.to, p.offer) /\ caller' = [caller EXCEPT ![t] = p.from]
    BY <1>4 DEF Improve
  <2> DEFINE i == p.to
  <2>2. /\ dist' \in [Indices -> 0..Max] /\ dist'[i] = p.offer
        /\ \A v \in Indices : dist'[v] <= dist[v] /\ (v # i => dist'[v] = dist[v])
        /\ Waits(i)' /\ \A v \in Indices : Waits(v) => Waits(v)'
        /\ held' = held /\ called' = called /\ (phase' = "extract" <=> phase = "extract")
        /\ NeverTooShort' /\ FinalBelow' /\ ExtractedAreFinal'
    BY <1>1, <1>2, <2>1, DistanceFalls
  <2>3. UserTypes' /\ OnlyInExtraction' /\ NoneTooShort'
    BY <1>1, <1>2, <2>1, <2>2 DEF DijkstraSound, UserTypes, OnlyInExtraction, NoneTooShort
  <2>4. StatesAreRight'
    <3>1. dist[source] = 0 /\ source \in Indices
      BY <1>1, PathConstants DEF DijkstraSound, StatesAreRight
    <3>2. dist'[source] = 0
      BY <2>2, <3>1
    <3> QED BY <1>1, <1>2, <3>2 DEF StatesAreRight
  <2>5. ASSUME NEW e \in graph
        PROVE  Waits(e[1])' \/ e[1] \in (held \cup running)' \/ Offered(e)' \/ IsRelaxed(e)'
    <3>1. CASE e[1] = i
      BY <2>2, <3>1
    <3>2. CASE e[1] # i
      <4>1. dist'[e[1]] = dist[e[1]] /\ dist'[e[2]] <= dist[e[2]] /\ dist'[e[2]] \in 0..Max
        BY <1>3, <2>2, <3>2
      <4>2. CASE Offered(e)
        <5>1. PICK q \in pushes : q.to = e[2] /\ q.offer <= Plus(dist[e[1]], e[3])
          BY <4>2 DEF Offered
        <5>2. CASE q = p
          BY <2>2, <4>1, <5>1, <5>2 DEF IsRelaxed
        <5>3. CASE q # p
          BY <1>2, <4>1, <5>1, <5>3 DEF Offered
        <5> QED BY <5>2, <5>3
      <4>3. CASE IsRelaxed(e)
        BY <1>3, <4>1, <4>3 DEF IsRelaxed
      <4> QED BY <1>2, <1>3, <2>2, <4>2, <4>3 DEF DijkstraSound, EdgesAreOwed
    <3> QED BY <3>1, <3>2
  <2> QED BY <1>2, <2>2, <2>3, <2>4, <2>5 DEF DijkstraSound, EdgesAreOwed
<1>5. CASE ~ p.offer < dist[p.to]
  <2>1. UNCHANGED <<map, caller>>
    BY <1>5 DEF Improve
  <2>2. /\ dist' = dist /\ phase' = phase /\ threshold' = threshold /\ climber' = climber
        /\ held' = held /\ inserted' = inserted /\ called' = called /\ caller' = caller
    BY <2>1 DEF map
  <2>3. /\ UserTypes' /\ StatesAreRight' /\ OnlyInExtraction' /\ NoneTooShort' /\ FinalBelow'
        /\ ExtractedAreFinal'
    BY <1>2, <2>2 DEF DijkstraSound, UserTypes, StatesAreRight, OnlyInExtraction, NoneTooShort,
      NeverTooShort, FinalBelow, ExtractedAreFinal
  <2>4. dist[p.to] <= p.offer
    BY <1>1, <1>5, FactsOfMap
  <2>5. ASSUME NEW e \in graph
        PROVE  Waits(e[1])' \/ e[1] \in (held \cup running)' \/ Offered(e)' \/ IsRelaxed(e)'
    <3>1. CASE Offered(e)
      <4>1. PICK q \in pushes : q.to = e[2] /\ q.offer <= Plus(dist[e[1]], e[3])
        BY <3>1 DEF Offered
      <4>2. CASE q = p
        BY <1>1, <1>3, <2>2, <2>4, <4>1, <4>2 DEF IsRelaxed
      <4>3. CASE q # p
        BY <1>2, <2>2, <4>1, <4>3 DEF Offered
      <4> QED BY <4>2, <4>3
    <3> QED BY <1>2, <2>2, <3>1 DEF DijkstraSound, EdgesAreOwed, Waits, IsRelaxed
  <2> QED BY <1>2, <2>3, <2>5 DEF DijkstraSound, EdgesAreOwed
<1> QED BY <1>4, <1>5

LEMMA InsertStepSound ==
  ASSUME Tree!Sound, Tree!Sound', DijkstraSound, NEW t \in Threads, Insert(t)
  PROVE  DijkstraSound'
<1>1. /\ climber[t].layer < Layers /\ inserted' = inserted \cup {climber[t].index}
      /\ \A u \in Threads : u # t => climber'[u] = climber[u]
      /\ UNCHANGED <<dist, phase, threshold, held, called, graph, running, pushes, state>>
  <2>1. Map!Insert(t) /\ UNCHANGED <<graph, running, pushes, state>>
    BY DEF Insert
  <2>2. climber \in [Threads -> [index : Indices, layer : 0..Layers]]
    BY FactsOfMap
  <2> QED BY <2>1, <2>2 DEF Map!Insert
<1>2. \A v \in Indices : Waits(v) => Waits(v)'
  BY <1>1 DEF Waits
<1>3. caller' \in [Threads -> Indices \cup {Nobody}]
  BY DEF Insert, DijkstraSound, UserTypes
<1>4. /\ UserTypes' /\ StatesAreRight' /\ OnlyInExtraction' /\ NoneTooShort' /\ FinalBelow'
      /\ ExtractedAreFinal'
  BY <1>1, <1>3 DEF DijkstraSound, UserTypes, StatesAreRight, OnlyInExtraction, NoneTooShort,
    NeverTooShort, FinalBelow, ExtractedAreFinal
<1>5. \A e \in graph : e[1] \in Indices
  BY EdgeIs DEF DijkstraSound, UserTypes
<1>6. EdgesAreOwed'
  BY <1>1, <1>2, <1>5 DEF DijkstraSound, EdgesAreOwed, Offered, IsRelaxed
<1> QED BY <1>4, <1>6 DEF DijkstraSound

LEMMA RepairStepSound ==
  ASSUME Tree!Sound, Tree!Sound', DijkstraSound, Repair
  PROVE  DijkstraSound'
<1>1. /\ state = "loop" /\ phase = "user" /\ phase' = "clean" /\ held' = held \cup inserted
      /\ \A t \in Threads : climber[t] = Map!Idle
      /\ UNCHANGED <<dist, called, graph, running, pushes, caller, state>>
  BY DEF Repair, Map!Repair, user, Map!Resting
<1>2. \A v \in Indices : Waits(v) => v \in inserted
  <2>1. Layers # 0
    BY WordsAssumption, Parameters
  <2> QED BY <1>1, <2>1 DEF Waits, Map!Idle
<1>3. /\ UserTypes' /\ StatesAreRight' /\ OnlyInExtraction' /\ NoneTooShort' /\ FinalBelow'
      /\ ExtractedAreFinal'
  BY <1>1 DEF DijkstraSound, UserTypes, StatesAreRight, OnlyInExtraction, NoneTooShort,
    NeverTooShort, FinalBelow, ExtractedAreFinal
<1>4. \A e \in graph : e[1] \in Indices
  BY EdgeIs DEF DijkstraSound, UserTypes
<1>5. EdgesAreOwed'
  BY <1>1, <1>2, <1>4 DEF DijkstraSound, EdgesAreOwed, Offered, IsRelaxed
<1> QED BY <1>3, <1>5 DEF DijkstraSound

(***************************************************************************)
(* After a repair an edge is relaxed if its source is below all elements,  *)
(* so that distances below the least element are final.                    *)
(***************************************************************************)
LEMMA CleanIsFinal ==
  ASSUME Tree!Sound, DijkstraSound, phase = "clean", state # "start"
  PROVE  \A v \in Indices : Distances(graph)[v] < min_value => dist[v] = Distances(graph)[v]
<1>1. min_value \in 0..Max /\ \A v \in held : min_value <= dist[v]
  BY LeastOfAll
<1>2. /\ graph \in Graphs /\ dist \in DistancesToAll /\ dist[source] = 0
      /\ running = {} /\ pushes = {}
      /\ \A v \in Indices : dist[v] >= Distances(graph)[v] /\ ~ Waits(v)
  BY FactsOfMap DEF DijkstraSound, UserTypes, StatesAreRight, OnlyInExtraction, NoneTooShort,
    NeverTooShort, DistancesToAll
<1>3. ASSUME NEW e \in graph, dist[e[1]] < min_value
      PROVE  dist[e[2]] <= Plus(dist[e[1]], e[3])
  <2>1. e[1] \in Indices /\ dist[e[1]] \in 0..Max
    BY <1>2, EdgeIs
  <2>2. e[1] \notin held
    BY <1>1, <1>3, <2>1
  <2> QED BY <1>2, <2>1, <2>2 DEF DijkstraSound, EdgesAreOwed, Offered, IsRelaxed
<1> DEFINE h == min_value
<1>4. h \in 0..Max /\ \A e \in graph : dist[e[1]] < h => dist[e[2]] <= Plus(dist[e[1]], e[3])
  BY <1>1, <1>3
<1> HIDE DEF h
<1>5. \A v \in Indices : Distances(graph)[v] < h => dist[v] = Distances(graph)[v]
  BY <1>2, <1>4, ExactBelow
<1> QED BY <1>5 DEF h

LEMMA ExtractMinSound ==
  ASSUME Tree!Sound, Tree!Sound', DijkstraSound, ExtractMin
  PROVE  DijkstraSound'
<1>1. /\ state = "loop" /\ phase = "clean" /\ phase' = "extract" /\ threshold' = min_value
      /\ called' = {}
      /\ UNCHANGED <<dist, climber, held, inserted, graph, running, pushes, caller, state>>
  BY DEF ExtractMin, Map!ExtractMin, user
<1>2. FinalBelow'
  BY <1>1, CleanIsFinal DEF FinalBelow
<1>3. /\ UserTypes' /\ StatesAreRight' /\ OnlyInExtraction' /\ NoneTooShort'
      /\ ExtractedAreFinal'
  BY <1>1 DEF DijkstraSound, UserTypes, StatesAreRight, OnlyInExtraction, NoneTooShort,
    NeverTooShort, ExtractedAreFinal
<1>4. EdgesAreOwed'
  BY <1>1 DEF DijkstraSound, EdgesAreOwed, Offered, IsRelaxed, Waits
<1> QED BY <1>2, <1>3, <1>4 DEF DijkstraSound

LEMMA BreakSound ==
  ASSUME Tree!Sound, Tree!Sound', DijkstraSound, Break
  PROVE  DijkstraSound'
<1>1. /\ state = "loop" /\ phase = "clean" /\ min_value = Max /\ state' = "done"
      /\ UNCHANGED <<map, graph, running, pushes, caller>>
  BY DEF Break
<1>2. UNCHANGED <<dist, phase, threshold, climber, held, inserted, called, graph, running, pushes,
                  caller>>
  BY <1>1 DEF map
<1>3. graph \in Graphs /\ dist \in [Indices -> 0..Max] /\ Distances(graph) \in [Indices -> 0..Max]
      /\ \A v \in Indices : dist[v] >= Distances(graph)[v]
  BY FactsOfMap, GraphIs
  DEF DijkstraSound, UserTypes, NoneTooShort, NeverTooShort, DistancesToAll
<1>4. ASSUME NEW v \in Indices PROVE dist[v] = Distances(graph)[v]
  <2>1. CASE Distances(graph)[v] < Max
    BY <1>1, <2>1, CleanIsFinal
  <2>2. CASE ~ Distances(graph)[v] < Max
    BY <1>3, <2>2, PathConstants
  <2> QED BY <2>1, <2>2
<1>5. dist = Distances(graph)
  BY <1>3, <1>4
<1>6. StatesAreRight'
  BY <1>1, <1>2, <1>5 DEF DijkstraSound, StatesAreRight
<1>7. /\ UserTypes' /\ OnlyInExtraction' /\ NoneTooShort' /\ FinalBelow' /\ ExtractedAreFinal'
  BY <1>1, <1>2 DEF DijkstraSound, UserTypes, OnlyInExtraction, NoneTooShort, NeverTooShort,
    FinalBelow, ExtractedAreFinal
<1>8. EdgesAreOwed'
  BY <1>2 DEF DijkstraSound, EdgesAreOwed, Offered, IsRelaxed, Waits
<1> QED BY <1>6, <1>7, <1>8 DEF DijkstraSound

-----------------------------------------------------------------------------
(* A vertex is handed out: its distance is at most the threshold, and so final. *)
LEMMA LeafTestSound ==
  ASSUME Tree!Sound, Tree!Sound', DijkstraSound, NEW w \in DOMAIN leaf, LeafTest(w)
  PROVE  DijkstraSound'
<1> DEFINE i == Map!First(leaf[w].todo)
<1>1. /\ phase = "extract" /\ called \cap held = {} /\ leaf[w].todo \subseteq held
      /\ held \subseteq Indices /\ dist \in [Indices -> 0..Max] /\ threshold \in 0..Max
  BY FactsOfMap
<1>2. /\ Map!LeafTest(w) /\ running' = running \cup (called' \ called)
      /\ UNCHANGED <<dist, phase, threshold, climber, inserted, graph, pushes, caller, state>>
  BY DEF LeafTest, Map!LeafTest
<1>3. i \in held /\ i \in Indices
  <2>1. leaf[w].todo # {} /\ leaf[w].todo \in SUBSET Nat
    BY <1>1, <1>2, PathConstants DEF Map!LeafTest
  <2>2. First(leaf[w].todo) \in leaf[w].todo
    BY <2>1, FirstIsLeast
  <2> QED BY <1>1, <2>2 DEF Map!First, First
<1>4. CASE Map!Extracted(i)
  <2>1. held' = held \ {i} /\ called' = called \cup {i} /\ dist[i] <= threshold
    BY <1>2, <1>4 DEF Map!LeafTest, Map!Extracted
  <2> HIDE DEF i
  <2>2. running' = running \cup {i}
    BY <1>1, <1>2, <1>3, <2>1
  <2>3. dist[i] = Distances(graph)[i]
    <3>1. Distances(graph)[i] \in 0..Max /\ dist[i] \in 0..Max /\ dist[i] >= Distances(graph)[i]
      BY <1>1, <1>3, GraphIs
      DEF DijkstraSound, UserTypes, NoneTooShort, NeverTooShort, DistancesToAll
    <3>2. Distances(graph)[i] < threshold => dist[i] = Distances(graph)[i]
      BY <1>1, <1>3 DEF DijkstraSound, FinalBelow
    <3> QED BY <1>1, <2>1, <3>1, <3>2
  <2>4. ExtractedAreFinal'
    BY <1>2, <2>1, <2>3 DEF DijkstraSound, ExtractedAreFinal
  <2>5. UserTypes' /\ StatesAreRight' /\ OnlyInExtraction' /\ NoneTooShort' /\ FinalBelow'
    BY <1>1, <1>2, <2>1, <2>2 DEF DijkstraSound, UserTypes, StatesAreRight, OnlyInExtraction,
      NoneTooShort, NeverTooShort, FinalBelow
  <2>6. EdgesAreOwed'
    BY <1>2, <2>1, <2>2 DEF DijkstraSound, EdgesAreOwed, Offered, IsRelaxed, Waits
  <2> QED BY <2>4, <2>5, <2>6 DEF DijkstraSound
<1>5. CASE ~ Map!Extracted(i)
  <2>1. held' = held /\ called' = called
    BY <1>2, <1>5 DEF Map!LeafTest
  <2>2. running' = running
    BY <1>2, <2>1
  <2>3. /\ UserTypes' /\ StatesAreRight' /\ OnlyInExtraction' /\ NoneTooShort' /\ FinalBelow'
        /\ ExtractedAreFinal'
    BY <1>2, <2>1, <2>2 DEF DijkstraSound, UserTypes, StatesAreRight, OnlyInExtraction,
      NoneTooShort, NeverTooShort, FinalBelow, ExtractedAreFinal
  <2>4. EdgesAreOwed'
    BY <1>2, <2>1, <2>2 DEF DijkstraSound, EdgesAreOwed, Offered, IsRelaxed, Waits
  <2> QED BY <2>3, <2>4 DEF DijkstraSound
<1> QED BY <1>4, <1>5

LEMMA LeafKeepSound ==
  ASSUME Tree!Sound, Tree!Sound', DijkstraSound, NEW w \in DOMAIN leaf, LeafKeep(w)
  PROVE  DijkstraSound'
<1>1. UNCHANGED <<dist, phase, threshold, climber, held, inserted, called, graph, running, pushes,
                  caller, state>>
  BY DEF LeafKeep, Map!LeafKeep, Map!history, user
<1>2. /\ UserTypes' /\ StatesAreRight' /\ OnlyInExtraction' /\ NoneTooShort' /\ FinalBelow'
      /\ ExtractedAreFinal'
  BY <1>1 DEF DijkstraSound, UserTypes, StatesAreRight, OnlyInExtraction, NoneTooShort,
    NeverTooShort, FinalBelow, ExtractedAreFinal
<1>3. EdgesAreOwed'
  BY <1>1 DEF DijkstraSound, EdgesAreOwed, Offered, IsRelaxed, Waits
<1> QED BY <1>2, <1>3 DEF DijkstraSound

LEMMA FinishSound ==
  ASSUME Tree!Sound, Tree!Sound', DijkstraSound, Finish
  PROVE  DijkstraSound'
<1>1. /\ running = {} /\ pushes = {} /\ phase = "extract" /\ phase' = "user" /\ called' = {}
      /\ UNCHANGED <<dist, climber, held, inserted, graph, running, pushes, caller, state>>
  BY DEF Finish, Map!Finish, Map!Joined, user
<1>2. /\ UserTypes' /\ StatesAreRight' /\ OnlyInExtraction' /\ NoneTooShort' /\ FinalBelow'
      /\ ExtractedAreFinal'
  BY <1>1 DEF DijkstraSound, UserTypes, StatesAreRight, OnlyInExtraction, NoneTooShort,
    NeverTooShort, FinalBelow, ExtractedAreFinal
<1>3. EdgesAreOwed'
  BY <1>1 DEF DijkstraSound, EdgesAreOwed, Offered, IsRelaxed, Waits
<1> QED BY <1>2, <1>3 DEF DijkstraSound

LEMMA RelaxSound ==
  ASSUME Tree!Sound, Tree!Sound', DijkstraSound, NEW s \in running, Relax(s)
  PROVE  DijkstraSound'
<1>1. /\ running' = running \ {s} /\ pushes' = pushes \cup Offers(s)
      /\ UNCHANGED <<map, graph, caller, state>>
  BY DEF Relax
<1>2. UNCHANGED <<dist, phase, threshold, climber, held, inserted, called, graph, caller, state>>
  BY <1>1 DEF map
<1>3. phase = "extract" /\ s \in Indices /\ graph \in Graphs /\ dist[s] \in 0..Max
      /\ Distances(graph)[s] <= dist[s] /\ Distances(graph)[s] \in 0..Max
  BY FactsOfMap, GraphIs DEF DijkstraSound, OnlyInExtraction, UserTypes, NoneTooShort, NeverTooShort,
    DistancesToAll
<1>4. ASSUME NEW p \in Offers(s)
      PROVE  p \in Offer /\ p.offer >= Distances(graph)[p.to]
  <2>1. PICK e \in graph : e[1] = s /\ p = [from |-> s, to |-> e[2], offer |-> Plus(dist[s], e[3])]
    BY DEF Offers, OutEdges
  <2>2. e[2] \in Indices /\ e[3] \in Nat
    BY <1>3, EdgeIs
  <2>3. Plus(dist[s], e[3]) \in 0..Max /\ Plus(Distances(graph)[s], e[3]) \in 0..Max
        /\ Plus(Distances(graph)[s], e[3]) <= Plus(dist[s], e[3])
    BY <1>3, <2>2, PlusIs
  <2>4. Distances(graph)[e[2]] <= Plus(Distances(graph)[s], e[3])
        /\ Distances(graph)[e[2]] \in 0..Max
    BY <1>3, <2>1, <2>2, DistancesAre DEF DistancesToAll
  <2>5. p.to = e[2] /\ p.offer = Plus(dist[s], e[3])
    BY <2>1
  <2> QED BY <1>3, <2>1, <2>2, <2>3, <2>4, <2>5 DEF Offer
<1>5. UserTypes' /\ NoneTooShort'
  BY <1>1, <1>2, <1>4 DEF DijkstraSound, UserTypes, NoneTooShort, NeverTooShort
<1>6. StatesAreRight' /\ OnlyInExtraction' /\ FinalBelow' /\ ExtractedAreFinal'
  BY <1>2, <1>3 DEF DijkstraSound, StatesAreRight, OnlyInExtraction, FinalBelow, ExtractedAreFinal
<1>7. ASSUME NEW e \in graph, e[1] = s PROVE Offered(e)'
  <2> DEFINE p == [from |-> s, to |-> e[2], offer |-> Plus(dist[s], e[3])]
  <2>1. p \in pushes' /\ p.to = e[2] /\ p.offer = Plus(dist[e[1]], e[3])
    BY <1>1, <1>7 DEF Offers, OutEdges
  <2>2. Plus(dist[e[1]], e[3]) \in 0..Max
    BY <1>3, EdgeIs
  <2> HIDE DEF p
  <2> QED BY <1>2, <2>1, <2>2 DEF Offered
<1>8. EdgesAreOwed'
  BY <1>1, <1>2, <1>7 DEF DijkstraSound, EdgesAreOwed, Offered, IsRelaxed, Waits
<1> QED BY <1>5, <1>6, <1>8 DEF DijkstraSound

-----------------------------------------------------------------------------
(* Every step uses the map as a step of IndexMap does, or leaves it alone. *)
LEMMA StepUsesMap ==
  ASSUME Tree!Sound, DijkstraSound, [DijkstraNext]_dijkstra_vars
  PROVE  [Map!Next]_(Map!vars) /\ [Tree!Next]_(Tree!vars)
<1>1. CASE UNCHANGED map
  BY <1>1 DEF map, Map!vars, Tree!vars, Map!tree, Tree!tree, Map!history, Tree!history
<1>2. ASSUME NEW t \in Threads, NEW i \in Indices, NEW d \in 0..Max, Map!Lower(t, i, d)
      PROVE  Map!Next /\ Tree!Next
  <2>1. Tree!Lower(t, i, d)
    BY <1>2, SameLower
  <2>2. i \in Map!Indices /\ d \in Map!Values /\ i \in Tree!Indices /\ d \in Tree!Values
    BY DEF Map!Indices, Tree!Indices, Indices, Map!Values, Tree!Values
  <2> QED BY <1>2, <2>1, <2>2 DEF Map!Next, Tree!Next
<1>3. ASSUME NEW t \in Threads, InsertSource(t) PROVE Map!Next /\ Tree!Next
  BY <1>2, <1>3, PathConstants DEF InsertSource
<1>4. ASSUME NEW t \in Threads, NEW p \in pushes, Improve(t, p)
      PROVE  (Map!Next /\ Tree!Next) \/ UNCHANGED map
  <2>1. p.to \in Indices /\ p.offer \in 0..Max
    BY DEF DijkstraSound, UserTypes, Offer
  <2> QED BY <1>2, <1>4, <2>1 DEF Improve
<1>5. ASSUME NEW t \in Threads, Insert(t) PROVE Map!Next /\ Tree!Next
  BY <1>5, SameInsert DEF Insert, Map!Next, Tree!Next
<1>6. ASSUME Repair PROVE Map!Next /\ Tree!Next
  BY <1>6, SameRepair DEF Repair, Map!Next, Tree!Next
<1>7. ASSUME ExtractMin PROVE Map!Next /\ Tree!Next
  <2>1. Map!ExtractMin(min_value) /\ Tree!ExtractMin(min_value)
    BY <1>7, SameExtract DEF ExtractMin
  <2>2. min_value \in Map!Values /\ min_value \in Tree!Values
    BY <2>1, LeastOfAll DEF Map!ExtractMin, Map!Values, Tree!Values
  <2> QED BY <2>1, <2>2 DEF Map!Next, Tree!Next
<1>8. ASSUME NEW w \in DOMAIN leaf, LeafTest(w) \/ LeafKeep(w) PROVE Map!Next /\ Tree!Next
  <2>1. Map!LeafTest(w) \/ Map!LeafKeep(w)
    BY <1>8 DEF LeafTest, LeafKeep
  <2>2. Tree!LeafTest(w) \/ Tree!LeafKeep(w)
    BY <2>1, SameTest, SameKeep
  <2> QED BY <2>1, <2>2 DEF Map!Next, Tree!Next
<1>9. ASSUME Finish PROVE Map!Next /\ Tree!Next
  BY <1>9, SameFinish DEF Finish, Map!Next, Tree!Next
<1>10. ASSUME Break \/ Done \/ \E s \in running : Relax(s) PROVE UNCHANGED map
  BY <1>10 DEF Break, Done, Relax, dijkstra_vars
<1> QED BY <1>1, <1>3, <1>4, <1>5, <1>6, <1>7, <1>8, <1>9, <1>10 DEF DijkstraNext, dijkstra_vars

LEMMA SearchStaysSound ==
  ASSUME Tree!Sound, DijkstraSound, [DijkstraNext]_dijkstra_vars
  PROVE  Tree!Sound' /\ DijkstraSound'
<1>1. Tree!Sound'
  BY StepUsesMap, MapSteps
<1>2. CASE UNCHANGED dijkstra_vars
  <2>1. UNCHANGED <<dist, phase, threshold, climber, held, inserted, called, graph, running, pushes,
                    caller, state>>
    BY <1>2 DEF dijkstra_vars, map, user
  <2>2. /\ UserTypes' /\ StatesAreRight' /\ OnlyInExtraction' /\ NoneTooShort' /\ FinalBelow'
        /\ ExtractedAreFinal'
    BY <2>1 DEF DijkstraSound, UserTypes, StatesAreRight, OnlyInExtraction, NoneTooShort,
      NeverTooShort, FinalBelow, ExtractedAreFinal
  <2>3. EdgesAreOwed'
    BY <2>1 DEF DijkstraSound, EdgesAreOwed, Offered, IsRelaxed, Waits
  <2> QED BY <1>1, <2>2, <2>3 DEF DijkstraSound
<1>3. CASE DijkstraNext /\ ~ UNCHANGED dijkstra_vars
  BY <1>1, <1>3, InsertSourceSound, InsertStepSound, ImproveSound, RepairStepSound, ExtractMinSound,
    BreakSound, FinishSound, LeafTestSound, LeafKeepSound, RelaxSound DEF DijkstraNext, Done
<1> QED BY <1>2, <1>3

LEMMA SearchGives == Tree!Sound /\ DijkstraSound => DijkstraInvariant
<1> SUFFICES ASSUME Tree!Sound, DijkstraSound PROVE DijkstraInvariant
  OBVIOUS
<1>1. DijkstraTypeOK
  BY FactsOfMap, GraphIs DEF DijkstraSound, UserTypes, Offer, DijkstraTypeOK
<1>2. DijkstraFindsThem
  BY DEF DijkstraSound, StatesAreRight, DijkstraFindsThem, Ended
<1> QED BY <1>1, <1>2 DEF DijkstraInvariant, DijkstraSound

(***************************************************************************)
(* A vertex dijkstra is handed has its final distance, whatever is relaxed *)
(* at the same time, and dijkstra ends with the shortest distances.        *)
(***************************************************************************)
THEOREM DijkstraIsRight == DijkstraSpec => []DijkstraInvariant
<1>1. Tree!Sound /\ DijkstraSound /\ [DijkstraNext]_dijkstra_vars => Tree!Sound' /\ DijkstraSound'
  BY SearchStaysSound
<1> QED BY <1>1, InitialSearch, SearchGives, PTL DEF DijkstraSpec

(* dijkstra uses its map in turns, as IndexMap demands of its users. *)
THEOREM MapIsUsedInTurns == DijkstraSpec => Map!Spec
<1>1. Tree!Sound /\ DijkstraSound /\ [DijkstraNext]_dijkstra_vars => Tree!Sound' /\ DijkstraSound'
  BY SearchStaysSound
<1>2. Tree!Sound /\ DijkstraSound /\ [DijkstraNext]_dijkstra_vars => [Map!Next]_(Map!vars)
  BY StepUsesMap
<1>3. DijkstraInit => Map!Init
  BY DEF DijkstraInit
<1> QED BY <1>1, <1>2, <1>3, InitialSearch, PTL DEF DijkstraSpec, Map!Spec

=============================================================================
