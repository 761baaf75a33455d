----------------------------- MODULE KCoreProof ------------------------------
(***************************************************************************)
(* Proofs about KCore for every set of graphs, every number of workers and *)
(* every threshold of sampling: whatever workers subtract before they      *)
(* compare, and however stale the shards are, each round peels its core.   *)
(***************************************************************************)
EXTENDS KCore, FiniteSetTheorems, WellFoundedInduction, TLAPS

-----------------------------------------------------------------------------
(* Least and greatest numbers. *)

LEMMA MinIsLeast ==
  ASSUME NEW S \in SUBSET Nat, S # {}
  PROVE  Min(S) \in S /\ Min(S) \in Nat /\ \A q \in S : Min(S) <= q
<1>1. \E m \in S : \A d \in S : ~ <<d, m>> \in OpToRel(<, Nat)
  BY WFMin, NatLessThanWellFounded, Zenon
<1>2. PICK m \in S : \A d \in S : ~ <<d, m>> \in OpToRel(<, Nat)
  BY <1>1
<1>3. \A d \in S : m <= d
  <2>1. \A d \in S : ~ d < m
    BY <1>2 DEF OpToRel
  <2> QED BY <2>1
<1>4. Min(S) \in S /\ \A q \in S : Min(S) <= q
  BY <1>3, Zenon DEF Min
<1> QED BY <1>4

LEMMA MaxIsGreatest ==
  ASSUME NEW S \in SUBSET Int, S # {}, NEW b \in Int, \A q \in S : q <= b
  PROVE  Max(S) \in S /\ Max(S) \in Int /\ \A q \in S : q <= Max(S)
<1> DEFINE T == {b - q : q \in S}
<1>1. T \in SUBSET Nat /\ T # {}
  <2>1. \A q \in S : q \in Int /\ q <= b
    OBVIOUS
  <2>2. \A q \in S : b - q \in Nat
    BY <2>1
  <2> QED BY <2>2
<1>2. Min(T) \in T /\ \A q \in T : Min(T) <= q
  <2> HIDE DEF T
  <2> QED BY <1>1, MinIsLeast
<1>3. PICK m \in S : \A q \in S : b - m <= b - q
  BY <1>2
<1>4. \A q \in S : m >= q
  BY <1>3
<1>5. Max(S) \in S /\ \A q \in S : Max(S) >= q
  BY <1>4, Zenon DEF Max
<1> QED BY <1>5

LEMMA MaxWhenGreatest ==
  ASSUME NEW S \in SUBSET Int, NEW m \in S, \A q \in S : q <= m
  PROVE  Max(S) = m
<1>1. Max(S) \in S /\ Max(S) \in Int /\ \A q \in S : q <= Max(S)
  BY MaxIsGreatest
<1>2. Max(S) <= m /\ m <= Max(S) /\ m \in Int
  BY <1>1
<1> QED BY <1>1, <1>2

-----------------------------------------------------------------------------
(* The graph. *)

In(d, S)  == {e \in graph : e[2] = d /\ e[1] \in S}
Out(v, S) == {e \in graph : e[1] = v /\ e[2] \in S}

LEMMA GraphIs ==
  ASSUME graph \in Graphs
  PROVE  /\ IsFiniteSet(graph)
         /\ \A e \in graph : /\ e[1] \in Vertices /\ e[2] \in Vertices /\ e[1] # e[2]
                             /\ e = <<e[1], e[2]>> /\ <<e[2], e[1]>> \in graph
<1>1. \A e \in graph : e \in Vertices \X Vertices /\ e[1] # e[2] /\ <<e[2], e[1]>> \in graph
  BY KCoreAssumption, Zenon
<1>2. \A e \in Vertices \X Vertices : e = <<e[1], e[2]>> /\ e[1] \in Vertices /\ e[2] \in Vertices
  OBVIOUS
<1>3. IsFiniteSet(Vertices \X Vertices)
  BY KCoreAssumption, FS_Product
<1>4. graph \subseteq Vertices \X Vertices
  BY <1>1
<1>5. IsFiniteSet(graph)
  BY <1>3, <1>4, FS_Subset
<1> QED BY <1>1, <1>2, <1>5

LEMMA EdgesAreFinite ==
  ASSUME graph \in Graphs, NEW E \in SUBSET graph
  PROVE  IsFiniteSet(E) /\ Cardinality(E) \in Nat
         /\ \A F \in SUBSET E : Cardinality(F) <= Cardinality(E)
BY GraphIs, FS_Subset, FS_CardinalityType

(* As many edges lead to a vertex as from it. *)
LEMMA EdgesAreSymmetric ==
  ASSUME graph \in Graphs, NEW v, NEW S
  PROVE  Cardinality(In(v, S)) = Cardinality(Out(v, S))
<1> DEFINE g == [e \in In(v, S) |-> <<e[2], e[1]>>]
<1>1. \A e \in In(v, S) : <<e[2], e[1]>> \in Out(v, S) /\ e = <<e[1], e[2]>>
  BY GraphIs DEF In, Out
<1>2. \A e \in Out(v, S) : <<e[2], e[1]>> \in In(v, S) /\ e = <<e[1], e[2]>>
  BY GraphIs DEF In, Out
<1>3. g \in Bijection(In(v, S), Out(v, S))
  <2>1. g \in [In(v, S) -> Out(v, S)]
    BY <1>1
  <2>2. \A a, b \in In(v, S) : g[a] = g[b] => a = b
    <3>1. \A a, b \in In(v, S) : <<a[2], a[1]>> = <<b[2], b[1]>> => a[1] = b[1] /\ a[2] = b[2]
      OBVIOUS
    <3> QED BY <1>1, <3>1
  <2>3. \A x \in Out(v, S) : \E e \in In(v, S) : g[e] = x
    <3> SUFFICES ASSUME NEW x \in Out(v, S) PROVE g[<<x[2], x[1]>>] = x
      BY <1>2
    <3> QED BY <1>2
  <2> HIDE DEF g
  <2>4. \A a, b \in DOMAIN g : g[a] = g[b] => a = b
    BY <2>1, <2>2
  <2> QED BY <2>1, <2>3, <2>4 DEF Bijection, Injection, Surjection, IsInjective
<1>4. IsFiniteSet(In(v, S))
  BY EdgesAreFinite DEF In
<1> HIDE DEF g
<1> QED BY <1>3, <1>4, FS_Bijection DEF ExistsBijection

LEMMA DegreesAre ==
  ASSUME graph \in Graphs
  PROVE  /\ Cardinality(Vertices) \in Nat /\ 2 ^ Width \in Nat /\ Cardinality(Vertices) < 2 ^ Width
         /\ \A v \in Vertices :
              /\ Degree(v) \in Nat /\ Degree(v) < Cardinality(Vertices)
              /\ Degree(v) = Cardinality(In(v, Vertices))
              /\ \A S : /\ Cardinality(In(v, S)) \in Nat /\ Cardinality(In(v, S)) <= Degree(v)
                        /\ Cardinality(Out(v, S)) = Cardinality(In(v, S))
<1>1. /\ Cardinality(Vertices) \in Nat /\ IsFiniteSet(Vertices)
      /\ 2 ^ Width \in Nat /\ Cardinality(Vertices) < 2 ^ Width
  BY KCoreAssumption, FS_CardinalityType
<1>2. ASSUME NEW v \in Vertices
      PROVE  /\ Degree(v) \in Nat /\ Degree(v) < Cardinality(Vertices)
             /\ Degree(v) = Cardinality(In(v, Vertices))
             /\ \A S : Cardinality(In(v, S)) \in Nat /\ Cardinality(In(v, S)) <= Degree(v)
  <2>1. Out(v, Vertices) = {e \in graph : e[1] = v}
    BY GraphIs DEF Out
  <2>2. Degree(v) = Cardinality(In(v, Vertices)) /\ Degree(v) = Cardinality(Out(v, Vertices))
    BY <2>1, EdgesAreSymmetric DEF Degree
  <2>3. In(v, Vertices) \in SUBSET graph /\ \A S : In(v, S) \in SUBSET In(v, Vertices)
    BY GraphIs DEF In
  <2>4. /\ Cardinality(In(v, Vertices)) \in Nat /\ IsFiniteSet(In(v, Vertices))
        /\ \A S : Cardinality(In(v, S)) <= Cardinality(In(v, Vertices))
    BY <2>3, EdgesAreFinite
  <2>5. \A S : Cardinality(In(v, S)) \in Nat
    BY EdgesAreFinite DEF In
  <2> DEFINE g == [e \in In(v, Vertices) |-> e[1]]
  <2>6. g \in Injection(In(v, Vertices), Vertices \ {v})
    <3>1. \A e \in In(v, Vertices) : e[1] \in Vertices \ {v} /\ e = <<e[1], v>>
      BY GraphIs DEF In
    <3>2. g \in [In(v, Vertices) -> Vertices \ {v}]
      BY <3>1
    <3>3. \A a, b \in In(v, Vertices) : g[a] = g[b] => a = b
      BY <3>1
    <3> HIDE DEF g
    <3>4. \A a, b \in DOMAIN g : g[a] = g[b] => a = b
      BY <3>2, <3>3
    <3> QED BY <3>2, <3>4 DEF Injection, IsInjective
  <2>7. IsFiniteSet(Vertices \ {v}) /\ Cardinality(Vertices \ {v}) = Cardinality(Vertices) - 1
    BY <1>1, FS_RemoveElement
  <2>8. Cardinality(In(v, Vertices)) <= Cardinality(Vertices \ {v})
    <3> HIDE DEF g
    <3> QED BY <2>4, <2>6, <2>7, FS_Injection
  <2> QED BY <1>1, <2>2, <2>4, <2>5, <2>7, <2>8
<1> QED BY <1>1, <1>2, EdgesAreSymmetric

-----------------------------------------------------------------------------
(* The sum of the shards. *)

Sums(shard, f) ==
  f = [w \in 0..W |-> IF w = 0 THEN 0 ELSE f[w - 1] + shard[w - 1]]

LEMMA TotalIsASum ==
  ASSUME NEW shard \in [Workers -> Int]
  PROVE  \E f \in [0..W -> Int] : /\ Total(shard) = f[W] /\ f[0] = 0
                                  /\ \A w \in Workers : f[w + 1] = f[w] + shard[w]
<1> DEFINE Has(m) == \E f \in [0..m -> Int] : f[0] = 0 /\ \A w \in 0..(m - 1) : f[w + 1] = f[w] + shard[w]
<1>1. W \in Nat /\ W > 0
  BY KCoreAssumption
<1>2. Has(0)
  <2> DEFINE f == [w \in 0..0 |-> 0]
  <2>1. f \in [0..0 -> Int] /\ f[0] = 0
    OBVIOUS
  <2> HIDE DEF f
  <2> QED BY <2>1
<1>3. ASSUME NEW m \in Workers, Has(m) PROVE Has(m + 1)
  <2>1. PICK f \in [0..m -> Int] : f[0] = 0 /\ \A w \in 0..(m - 1) : f[w + 1] = f[w] + shard[w]
    BY <1>3
  <2>2. m \in Nat /\ f[m] + shard[m] \in Int
    BY <1>1, <1>3, <2>1 DEF Workers
  <2> DEFINE g == [w \in 0..(m + 1) |-> IF w = m + 1 THEN f[m] + shard[m] ELSE f[w]]
  <2>3. g \in [0..(m + 1) -> Int]
    BY <2>1, <2>2
  <2>4. g[0] = 0 /\ \A w \in 0..((m + 1) - 1) : g[w + 1] = g[w] + shard[w]
    BY <2>1, <2>2
  <2> HIDE DEF g
  <2> QED BY <2>3, <2>4
<1>4. Has(W)
  <2> HIDE DEF Has
  <2> SUFFICES ASSUME ~ Has(W) PROVE FALSE
    OBVIOUS
  <2> DEFINE Not == {m \in 0..W : ~ Has(m)}
  <2>1. Not \in SUBSET Nat /\ Not # {}
    BY <1>1
  <2>2. Min(Not) \in Not /\ \A q \in Not : Min(Not) <= q
    <3> HIDE DEF Not
    <3> QED BY <2>1, MinIsLeast
  <2>3. PICK m \in 0..W : ~ Has(m) /\ \A q \in Not : m <= q
    BY <2>2
  <2>4. m # 0 /\ m - 1 \in Workers /\ (m - 1) + 1 = m
    BY <1>1, <1>2, <2>3 DEF Workers
  <2>5. Has(m - 1)
    BY <1>1, <2>3, <2>4
  <2>6. Has((m - 1) + 1)
    BY <1>3, <2>4, <2>5
  <2> QED BY <2>3, <2>4, <2>6
<1>5. PICK f \in [0..W -> Int] : f[0] = 0 /\ \A w \in 0..(W - 1) : f[w + 1] = f[w] + shard[w]
  BY <1>4
<1>6. Sums(shard, f)
  <2>1. \A w \in 0..W : f[w] = IF w = 0 THEN 0 ELSE f[w - 1] + shard[w - 1]
    <3>1. \A w \in 0..W : w # 0 => w - 1 \in 0..(W - 1) /\ (w - 1) + 1 = w
      BY <1>1
    <3> QED BY <1>5, <3>1
  <2>2. f = [w \in 0..W |-> f[w]]
    OBVIOUS
  <2> QED BY <2>1, <2>2 DEF Sums
<1> DEFINE s == CHOOSE g : Sums(shard, g)
<1>7. Total(shard) = s[W]
  BY DEF Total, Sums
<1>8. Sums(shard, s)
  BY <1>6, Zenon
<1> HIDE DEF s
<1>9. \A w \in 0..W : s[w] = f[w]
  <2> SUFFICES ASSUME NEW v \in 0..W, s[v] # f[v] PROVE FALSE
    OBVIOUS
  <2> DEFINE Wrong == {w \in 0..W : s[w] # f[w]}
  <2>1. Wrong \in SUBSET Nat /\ Wrong # {}
    BY <1>1
  <2>2. Min(Wrong) \in Wrong /\ \A q \in Wrong : Min(Wrong) <= q
    <3> HIDE DEF Wrong
    <3> QED BY <2>1, MinIsLeast
  <2>3. PICK w \in 0..W : s[w] # f[w] /\ \A q \in Wrong : w <= q
    BY <2>2
  <2>4. s[w] = (IF w = 0 THEN 0 ELSE s[w - 1] + shard[w - 1])
    BY <1>8 DEF Sums
  <2>5. f[w] = (IF w = 0 THEN 0 ELSE f[w - 1] + shard[w - 1])
    BY <1>6 DEF Sums
  <2>6. w # 0 => s[w - 1] = f[w - 1]
    BY <1>1, <2>3
  <2> QED BY <2>3, <2>4, <2>5, <2>6
<1>10. Total(shard) = f[W]
  BY <1>1, <1>7, <1>9
<1> QED BY <1>5, <1>10 DEF Workers

LEMMA UpToW ==
  ASSUME NEW Good, 0 \in Good, \A w \in Workers : w \in Good => w + 1 \in Good
  PROVE  W \in Good
<1>1. W \in Nat /\ W > 0
  BY KCoreAssumption
<1> SUFFICES ASSUME W \notin Good PROVE FALSE
  OBVIOUS
<1> DEFINE Not == {m \in 0..W : m \notin Good}
<1>2. Not \in SUBSET Nat /\ Not # {}
  BY <1>1
<1>3. Min(Not) \in Not /\ \A q \in Not : Min(Not) <= q
  <2> HIDE DEF Not
  <2> QED BY <1>2, MinIsLeast
<1>4. PICK m \in 0..W : m \notin Good /\ \A q \in Not : m <= q
  BY <1>3
<1>5. m # 0 /\ m - 1 \in Workers /\ (m - 1) + 1 = m
  BY <1>1, <1>4 DEF Workers
<1>6. m - 1 \in Good
  BY <1>1, <1>4, <1>5
<1> QED BY <1>4, <1>5, <1>6

LEMMA TotalAdds ==
  ASSUME NEW shard \in [Workers -> Int], NEW w \in Workers, NEW x \in Int,
         NEW other \in [Workers -> Int], other[w] = shard[w] + x,
         \A u \in Workers : u # w => other[u] = shard[u]
  PROVE  Total(shard) \in Int /\ Total(other) = Total(shard) + x
<1>1. W \in Nat /\ W > 0 /\ w \in Nat /\ w < W
  BY KCoreAssumption DEF Workers
<1>2. PICK f \in [0..W -> Int] : /\ Total(shard) = f[W] /\ f[0] = 0
                                 /\ \A u \in Workers : f[u + 1] = f[u] + shard[u]
  BY TotalIsASum
<1>3. PICK g \in [0..W -> Int] : /\ Total(other) = g[W] /\ g[0] = 0
                                 /\ \A u \in Workers : g[u + 1] = g[u] + other[u]
  BY TotalIsASum
<1>4. other[w] = shard[w] + x /\ \A u \in Workers : u # w => other[u] = shard[u]
  OBVIOUS
<1> DEFINE Good == {u \in 0..W : g[u] = f[u] + IF u > w THEN x ELSE 0}
<1>5. 0 \in Good
  BY <1>1, <1>2, <1>3
<1>6. ASSUME NEW u \in Workers, u \in Good PROVE u + 1 \in Good
  <2>1. /\ u \in Nat /\ u + 1 \in 0..W /\ u \in 0..W
        /\ f[u] \in Int /\ shard[u] \in Int
        /\ g[u] = f[u] + (IF u > w THEN x ELSE 0)
        /\ f[u + 1] = f[u] + shard[u]
    <3>1. u \in Nat /\ u + 1 \in 0..W /\ u \in 0..W
      BY <1>1 DEF Workers
    <3>2. g[u] = f[u] + (IF u > w THEN x ELSE 0)
      BY <1>6
    <3>3. f[u + 1] = f[u] + shard[u]
      BY <1>2
    <3>4. f[u] \in Int /\ shard[u] \in Int
      BY <3>1
    <3> QED BY <3>1, <3>2, <3>3, <3>4
  <2>4. g[u + 1] = g[u] + other[u]
    BY <1>3
  <2>2. other[u] = shard[u] + (IF u = w THEN x ELSE 0)
    BY <2>1
  <2>3. g[u + 1] = f[u + 1] + (IF u + 1 > w THEN x ELSE 0)
    <3>1. CASE u = w
      BY <1>1, <2>1, <2>2, <2>4, <3>1
    <3>2. CASE u > w
      BY <1>1, <2>1, <2>2, <2>4, <3>2
    <3>3. CASE u < w
      BY <1>1, <2>1, <2>2, <2>4, <3>3
    <3> QED BY <1>1, <2>1, <3>1, <3>2, <3>3
  <2> QED BY <2>1, <2>3
<1>7. W \in Good
  <2> HIDE DEF Good
  <2> QED BY <1>5, <1>6, UpToW
<1>8. f[W] \in Int
  BY <1>1, <1>2
<1> QED BY <1>1, <1>2, <1>3, <1>7, <1>8

LEMMA TotalIsPositive ==
  ASSUME NEW shard \in [Workers -> Int], \A w \in Workers : shard[w] > 0
  PROVE  Total(shard) >= W /\ Total(shard) > 0
<1>1. W \in Nat /\ W > 0
  BY KCoreAssumption
<1>2. PICK f \in [0..W -> Int] : /\ Total(shard) = f[W] /\ f[0] = 0
                                 /\ \A u \in Workers : f[u + 1] = f[u] + shard[u]
  BY TotalIsASum
<1> DEFINE Good == {u \in 0..W : f[u] >= u}
<1>3. 0 \in Good
  BY <1>1, <1>2
<1>4. ASSUME NEW u \in Workers, u \in Good PROVE u + 1 \in Good
  <2>1. /\ u \in Nat /\ u + 1 \in 0..W /\ u \in 0..W
        /\ f[u] \in Int /\ shard[u] \in Int /\ shard[u] > 0 /\ f[u] >= u
        /\ f[u + 1] = f[u] + shard[u]
    BY <1>1, <1>2, <1>4 DEF Workers
  <2>2. f[u + 1] >= u + 1
    BY <2>1
  <2> QED BY <2>1, <2>2
<1>5. W \in Good
  <2> HIDE DEF Good
  <2> QED BY <1>3, <1>4, UpToW
<1> QED BY <1>1, <1>2, <1>5

(* distribute keeps the sum, and gives each worker an edge if there are enough. *)
LEMMA DistributeKeeps ==
  ASSUME NEW remaining \in Nat
  PROVE  /\ distribute(remaining) \in [Workers -> Int] /\ Total(distribute(remaining)) = remaining
         /\ remaining >= W => \A w \in Workers : distribute(remaining)[w] > 0
<1> DEFINE q == remaining \div W
           r == remaining % W
           shard == distribute(remaining)
<1>1. W \in Nat /\ W > 0
  BY KCoreAssumption
<1>2. q \in Nat /\ r \in 0..(W - 1) /\ remaining = W * q + r
  BY <1>1
<1>3. \A w \in Workers : shard[w] = q + (IF w < r THEN 1 ELSE 0) /\ w \in Nat
  BY DEF distribute, Workers
<1>4. shard \in [Workers -> Int]
  <2>1. \A w \in Workers : q + (IF w < r THEN 1 ELSE 0) \in Int
    <3> HIDE DEF q, r
    <3> QED BY <1>2
  <2> QED BY <2>1 DEF distribute
<1> HIDE DEF q, r, shard
<1>5. PICK f \in [0..W -> Int] : /\ Total(shard) = f[W] /\ f[0] = 0
                                 /\ \A u \in Workers : f[u + 1] = f[u] + shard[u]
  BY <1>4, TotalIsASum
<1> DEFINE Good == {u \in 0..W : f[u] = u * q + IF u < r THEN u ELSE r}
<1>6. 0 \in Good
  BY <1>1, <1>2, <1>5
<1>7. ASSUME NEW u \in Workers, u \in Good PROVE u + 1 \in Good
  <2>1. /\ u \in Nat /\ u + 1 \in 0..W /\ u \in 0..W
        /\ f[u] \in Int /\ f[u] = u * q + (IF u < r THEN u ELSE r)
        /\ f[u + 1] = f[u] + shard[u] /\ shard[u] = q + (IF u < r THEN 1 ELSE 0)
    BY <1>1, <1>3, <1>5, <1>7 DEF Workers
  <2>2. (u + 1) * q = u * q + q /\ u * q \in Nat
    BY <1>2, <2>1
  <2> DEFINE a == u * q
             b == (u + 1) * q
  <2>3. a \in Nat /\ b = a + q /\ f[u] = a + (IF u < r THEN u ELSE r)
    BY <2>1, <2>2
  <2> HIDE DEF a, b
  <2>4. f[u + 1] = b + (IF u + 1 < r THEN u + 1 ELSE r)
    BY <1>2, <2>1, <2>3
  <2> QED BY <2>1, <2>4 DEF b
<1>8. W \in Good
  <2> HIDE DEF Good
  <2> QED BY <1>6, <1>7, UpToW
<1>9. Total(shard) = remaining
  <2>1. f[W] = W * q + r
    BY <1>1, <1>2, <1>8
  <2> QED BY <1>2, <1>5, <2>1
<1>10. remaining >= W => \A w \in Workers : shard[w] > 0
  <2> SUFFICES ASSUME remaining >= W PROVE q > 0
    BY <1>2, <1>3
  <2>1. q = 0 => W * q = 0
    BY <1>1
  <2> QED BY <1>1, <1>2, <2>1
<1> QED BY <1>4, <1>9, <1>10 DEF shard

-----------------------------------------------------------------------------
(***************************************************************************)
(* The inductive invariant. *)
Subs(d)     == {e \in graph : e[2] = d /\ \E w \in Workers : job[w] = [at |-> "sub", edge |-> e]}
Removing(d) == \E w \in Workers : job[w].at = "remove" /\ job[w].edge[2] = d
Busy(d)     == \E w \in Workers : job[w] # Idle /\ job[w].edge[2] = d
Waiting     == active \cup frontier \cup next_frontier
Left(d)     == Cardinality(Remaining(d))
Added(d)    == Cardinality(Restoring(d))

Jobs == {Idle} \cup [at : {"sub", "add", "remove"}, edge : graph]

Types ==
  /\ graph \in Graphs
  /\ coreness \in [Vertices -> Nat] /\ no_reduce \in Nat
  /\ k \in Nat /\ k <= Cardinality(Vertices)
  /\ active \subseteq Vertices /\ frontier \subseteq Vertices /\ next_frontier \subseteq Vertices
  /\ sample_mode \subseteq active /\ resample \subseteq sample_mode
  /\ shards \in [Vertices -> [Workers -> Int]]
  /\ phase \in {"round", "select", "peel", "resample"}
  /\ work \subseteq graph
  /\ job \in [Workers -> Jobs]

(* A vertex is active or in one frontier, and outside of "peel" nobody      *)
(* works at one.                                                            *)
PlacesAreApart ==
  /\ active \cap frontier = {} /\ active \cap next_frontier = {} /\ frontier \cap next_frontier = {}
  /\ phase # "peel" => frontier = {} /\ work = {} /\ \A w \in Workers : job[w] = Idle
  /\ phase \in {"round", "select"} => next_frontier = {} /\ resample = {}

(* An edge is visited once, after the vertex it comes from was peeled.      *)
EdgesGoOnce ==
  /\ \A e \in work : e[1] \notin Waiting /\ e[2] \in active
  /\ \A w \in Workers : job[w].at = "sub" => job[w].edge \notin work /\ job[w].edge[1] \notin Waiting
  /\ \A v, w \in Workers : job[w].at = "sub" /\ job[v] = job[w] => v = w

OneRemoves ==
  /\ \A w \in Workers : job[w].at = "remove" => job[w].edge[2] \in active
  /\ \A v, w \in Workers : job[v].at = "remove" /\ job[w].at = "remove"
                             /\ job[v].edge[2] = job[w].edge[2] => v = w

(* The counts of the active vertices. *)
SampledCount(d) ==
  /\ Total(shards[d]) + k = Left(d) /\ coreness[d] = Degree(d) /\ ~ Busy(d)
  /\ d \in resample \/ \A w \in Workers : shards[d][w] > 0

ExactCount(d) ==
  /\ coreness[d] = Left(d) /\ Restoring(d) = {} /\ coreness[d] >= k
  /\ phase # "select" => coreness[d] > k

RemovedCount(d) ==
  /\ coreness[d] + Added(d) = k /\ Left(d) + Added(d) <= k

Count(d) ==
  IF d \in sample_mode THEN SampledCount(d)
  ELSE IF Removing(d) THEN RemovedCount(d) ELSE ExactCount(d)

CountsAgree == \A d \in active : Count(d)

(* Who has been peeled. *)
Settled(d) ==
  /\ d \in Core(coreness[d] + Added(d)) /\ d \notin Core(coreness[d] + Added(d) + 1)
  /\ Busy(d) => coreness[d] + Added(d) = k /\ Cardinality(Subs(d)) + Added(d) <= k

PeeledAreSettled == \A d \in Vertices \ active : Settled(d)

CoresAreActive == Core(k + 1) \subseteq active /\ active \subseteq Core(k)

Sound ==
  /\ Types /\ PlacesAreApart /\ EdgesGoOnce /\ OneRemoves
  /\ CountsAgree /\ PeeledAreSettled /\ CoresAreActive

-----------------------------------------------------------------------------
(* Cores, jobs and counts. *)

LEMMA CoresAre ==
  ASSUME graph \in Graphs, NEW c \in Nat
  PROVE  /\ Core(c) \subseteq Vertices
         /\ \A S \in SUBSET Vertices : (\A v \in S : Cardinality(In(v, S)) >= c) => S \subseteq Core(c)
         /\ \A v \in Core(c) : Cardinality(In(v, Core(c))) >= c
         /\ \A b \in Nat : b <= c => Core(c) \subseteq Core(b)
<1> DEFINE Dense(S) == \A v \in S : Cardinality(In(v, S)) >= c
<1>1. \A S \in SUBSET Vertices : \A v \in S :
        /\ Cardinality({e \in graph : e[1] = v /\ e[2] \in S}) = Cardinality(In(v, S))
        /\ Cardinality(In(v, S)) \in Nat
  BY DegreesAre DEF Out
<1>2. \A b \in Nat : Core(b) = UNION {S \in SUBSET Vertices : \A v \in S : Cardinality(In(v, S)) >= b}
  <2> SUFFICES ASSUME NEW b \in Nat, NEW S \in SUBSET Vertices
               PROVE  (\A v \in S : Cardinality({e \in graph : e[1] = v /\ e[2] \in S}) >= b)
                        <=> (\A v \in S : Cardinality(In(v, S)) >= b)
    BY DEF Core
  <2> QED BY <1>1
<1>3. Core(c) \subseteq Vertices
  BY <1>2
<1>4. ASSUME NEW S \in SUBSET Vertices, Dense(S) PROVE S \subseteq Core(c)
  BY <1>2, <1>4
<1>5. ASSUME NEW v \in Core(c) PROVE Cardinality(In(v, Core(c))) >= c
  <2>1. PICK S \in SUBSET Vertices : v \in S /\ \A u \in S : Cardinality(In(u, S)) >= c
    BY <1>2
  <2>2. S \subseteq Core(c)
    BY <1>4, <2>1
  <2>3. In(v, S) \subseteq In(v, Core(c)) /\ In(v, Core(c)) \in SUBSET graph
    BY <2>2 DEF In
  <2>4. /\ Cardinality(In(v, S)) <= Cardinality(In(v, Core(c)))
        /\ Cardinality(In(v, Core(c))) \in Nat /\ Cardinality(In(v, S)) \in Nat
    BY <1>1, <2>1, <2>3, EdgesAreFinite
  <2> QED BY <2>1, <2>4
<1>6. ASSUME NEW b \in Nat, b <= c PROVE Core(c) \subseteq Core(b)
  <2>1. \A v \in Core(c) : Cardinality(In(v, Core(c))) \in Nat
    BY <1>1, <1>3
  <2>2. \A v \in Core(c) : Cardinality(In(v, Core(c))) >= b
    BY <1>5, <1>6, <2>1
  <2> QED BY <1>2, <1>3, <2>2
<1> QED BY <1>3, <1>4, <1>5, <1>6

LEMMA JobIs ==
  ASSUME Types, NEW w \in Workers
  PROVE  /\ job[w] \in Jobs /\ Idle.at = "idle"
         /\ job[w] = Idle <=> job[w].at = "idle"
         /\ job[w] # Idle => /\ job[w].at \in {"sub", "add", "remove"} /\ job[w].edge \in graph
                             /\ job[w] = [at |-> job[w].at, edge |-> job[w].edge]
<1>1. job[w] \in Jobs /\ Idle.at = "idle"
  BY DEF Types, Idle
<1>2. CASE job[w] = Idle
  BY <1>1, <1>2
<1>3. CASE job[w] \in [at : {"sub", "add", "remove"}, edge : graph]
  <2>1. /\ job[w].at \in {"sub", "add", "remove"} /\ job[w].edge \in graph
        /\ job[w] = [at |-> job[w].at, edge |-> job[w].edge]
    BY <1>3
  <2> QED BY <1>1, <2>1
<1> QED BY <1>1, <1>2, <1>3 DEF Jobs

LEMMA CountsAre ==
  ASSUME Types, NEW d \in Vertices
  PROVE  /\ Remaining(d) \in SUBSET graph /\ In(d, active) \subseteq Remaining(d)
         /\ Subs(d) \subseteq Remaining(d)
         /\ IsFiniteSet(Remaining(d)) /\ IsFiniteSet(Subs(d)) /\ IsFiniteSet(Restoring(d))
         /\ Left(d) \in Nat /\ Left(d) <= Degree(d) /\ Cardinality(Subs(d)) \in Nat
         /\ Cardinality(Subs(d)) <= Left(d) /\ Cardinality(In(d, active)) <= Left(d)
         /\ Added(d) \in Nat /\ (Added(d) = 0 <=> Restoring(d) = {})
<1>1. /\ Remaining(d) \in SUBSET graph /\ In(d, active) \subseteq Remaining(d)
      /\ Subs(d) \subseteq Remaining(d) /\ Remaining(d) \subseteq In(d, Vertices)
  <2>1. graph \in Graphs /\ active \subseteq Vertices
    BY DEF Types
  <2> QED BY <2>1, GraphIs DEF Remaining, In, Subs
<1>2. /\ IsFiniteSet(Remaining(d)) /\ IsFiniteSet(Subs(d)) /\ Left(d) \in Nat
      /\ Cardinality(Subs(d)) \in Nat /\ Cardinality(Subs(d)) <= Left(d)
      /\ Cardinality(In(d, active)) <= Left(d)
  <2>1. graph \in Graphs
    BY DEF Types
  <2>2. Subs(d) \in SUBSET graph
    BY <1>1
  <2> QED BY <1>1, <2>1, <2>2, EdgesAreFinite DEF Left
<1>3. Left(d) <= Degree(d)
  <2>1. graph \in Graphs /\ In(d, Vertices) \in SUBSET graph
    BY DEF Types, In
  <2>2. Cardinality(Remaining(d)) <= Cardinality(In(d, Vertices))
    BY <1>1, <2>1, EdgesAreFinite
  <2> QED BY <2>1, <2>2, DegreesAre DEF Left
<1>4. IsFiniteSet(Restoring(d))
  <2>1. W - 1 \in Int
    BY KCoreAssumption
  <2>2. IsFiniteSet(Workers)
    BY <2>1, FS_Interval DEF Workers
  <2> QED BY <2>2, FS_Subset DEF Restoring
<1>5. Added(d) \in Nat /\ (Added(d) = 0 <=> Restoring(d) = {})
  BY <1>4, FS_CardinalityType, FS_EmptySet DEF Added
<1> QED BY <1>1, <1>2, <1>3, <1>4, <1>5

LEMMA GraphStays ==
  ASSUME graph' = graph
  PROVE  /\ \A v : Degree(v)' = Degree(v)
         /\ Idle' = Idle /\ Jobs' = Jobs
         /\ CoresAreActive' <=> Core(k' + 1) \subseteq active' /\ active' \subseteq Core(k')
         /\ \A d : Settled(d)' <=>
              /\ d \in Core(coreness'[d] + Added(d)') /\ d \notin Core(coreness'[d] + Added(d)' + 1)
              /\ Busy(d)' => coreness'[d] + Added(d)' = k' /\ Cardinality(Subs(d)') + Added(d)' <= k'
BY DEF Degree, Core, Idle, Jobs, CoresAreActive, Settled

LEMMA JobsStay ==
  ASSUME graph' = graph, job' = job
  PROVE  \A d : /\ Subs(d)' = Subs(d) /\ Restoring(d)' = Restoring(d) /\ Added(d)' = Added(d)
                /\ (Removing(d)' <=> Removing(d)) /\ (Busy(d)' <=> Busy(d))
BY DEF Subs, Restoring, Added, Removing, Busy, Idle

LEMMA EdgesStay ==
  ASSUME graph' = graph, job' = job, work' = work, active' = active,
         frontier' = frontier, next_frontier' = next_frontier
  PROVE  Waiting' = Waiting /\ \A d : Remaining(d)' = Remaining(d) /\ Left(d)' = Left(d)
BY DEF Waiting, Remaining, Left

(* Outside of "peel" only active vertices and the next frontier have edges left. *)
LEMMA QuietHas ==
  ASSUME Sound, phase # "peel"
  PROVE  /\ frontier = {} /\ work = {} /\ \A w \in Workers : job[w] = Idle
         /\ \A d \in Vertices : /\ Restoring(d) = {} /\ Added(d) = 0 /\ ~ Busy(d) /\ ~ Removing(d)
                                /\ Remaining(d) = In(d, Waiting)
<1>1. frontier = {} /\ work = {} /\ \A w \in Workers : job[w] = Idle
  BY DEF Sound, PlacesAreApart
<1>2. \A d \in Vertices : Restoring(d) = {} /\ ~ Busy(d) /\ ~ Removing(d)
  BY <1>1 DEF Restoring, Busy, Removing, Idle
<1>3. \A d \in Vertices : Added(d) = 0
  BY <1>2, CountsAre DEF Sound
<1>4. \A d \in Vertices : Remaining(d) = In(d, Waiting)
  BY <1>1 DEF Remaining, In, Waiting, Idle
<1> QED BY <1>1, <1>2, <1>3, <1>4

(* Between rounds every active vertex has more than k edges to active ones. *)
LEMMA RoundsHave ==
  ASSUME Sound, phase = "round"
  PROVE  /\ \A d \in active : /\ d \in Vertices /\ Left(d) = Cardinality(In(d, active)) /\ Left(d) > k
                              /\ coreness[d] \in Nat /\ coreness[d] > k /\ Left(d) \in Nat
                              /\ d \notin sample_mode => coreness[d] = Left(d)
         /\ active = Core(k + 1)
<1>1. /\ Waiting = active /\ active \subseteq Vertices /\ sample_mode \subseteq active /\ resample = {}
      /\ k \in Nat /\ graph \in Graphs /\ \A d \in Vertices : coreness[d] \in Nat
  BY QuietHas DEF Sound, Types, PlacesAreApart, Waiting
<1>2. \A d \in active : Left(d) = Cardinality(In(d, active)) /\ Left(d) \in Nat /\ Left(d) <= Degree(d)
  BY <1>1, QuietHas, CountsAre DEF Left, Sound
<1>3. ASSUME NEW d \in active
      PROVE  Left(d) > k /\ coreness[d] > k /\ (d \notin sample_mode => coreness[d] = Left(d))
  <2>1. CASE d \in sample_mode
    <3>1. SampledCount(d) /\ d \notin resample
      BY <1>1, <2>1 DEF Sound, CountsAgree, Count
    <3>2. shards[d] \in [Workers -> Int] /\ \A w \in Workers : shards[d][w] > 0
      BY <1>1, <3>1 DEF SampledCount, Sound, Types
    <3>3. Total(shards[d]) > 0 /\ Total(shards[d]) \in Int
      <4>1. 0 \in Workers
        BY KCoreAssumption DEF Workers
      <4> QED BY <3>2, <4>1, TotalIsPositive, TotalAdds
    <3>4. Degree(d) \in Nat
      BY <1>1, DegreesAre
    <3> QED BY <1>1, <1>2, <2>1, <3>1, <3>3, <3>4 DEF SampledCount
  <2>2. CASE d \notin sample_mode
    <3>1. ExactCount(d)
      BY <1>1, <2>2, QuietHas DEF Sound, CountsAgree, Count
    <3> QED BY <3>1 DEF ExactCount
  <2> QED BY <2>1, <2>2
<1>4. \A v \in active : Cardinality(In(v, active)) >= k + 1
  BY <1>1, <1>2, <1>3
<1>5. active \subseteq Core(k + 1)
  BY <1>1, <1>4, CoresAre
<1> QED BY <1>1, <1>2, <1>3, <1>5 DEF Sound, CoresAreActive

-----------------------------------------------------------------------------
(* A round begins. *)

LEMMA DeltaIs ==
  ASSUME Sound, phase = "round", active # {}
  PROVE  /\ Delta \in Nat /\ Delta > 0
         /\ \A d \in active : d \notin sample_mode => Left(d) >= k + Delta
<1> DEFINE S == {coreness[v] : v \in active}
<1>1. /\ k \in Nat /\ \A d \in active : /\ coreness[d] \in Nat /\ coreness[d] > k /\ Left(d) \in Nat /\ Left(d) > k
                                        /\ d \notin sample_mode => coreness[d] = Left(d)
  BY RoundsHave DEF Sound, Types
<1>2. S \in SUBSET Nat /\ S # {}
  BY <1>1
<1>3. Min(S) \in S /\ \A q \in S : Min(S) <= q
  <2> HIDE DEF S
  <2> QED BY <1>2, MinIsLeast
<1>4. PICK v \in active : Min(S) = coreness[v] /\ \A d \in active : coreness[v] <= coreness[d]
  BY <1>3
<1>5. CASE no_reduce = 0
  <2>1. Delta = coreness[v] - k
    BY <1>4, <1>5 DEF Delta
  <2> QED BY <1>1, <1>4, <2>1
<1>6. CASE no_reduce # 0
  <2>1. Delta = 1
    BY <1>6 DEF Delta
  <2> QED BY <1>1, <2>1
<1> QED BY <1>5, <1>6

(* What a round does to k, the shards and those that leave sample_mode. *)
LEMMA RoundDoes ==
  ASSUME Sound, Round
  PROVE  \E leaving \in SUBSET sample_mode :
           /\ k' \in Nat /\ k' > k /\ \A d \in active : Left(d) >= k'
           /\ sample_mode' = sample_mode \ leaving
           /\ coreness' = [v \in Vertices |-> IF v \in leaving THEN Left(v) ELSE coreness[v]]
           /\ shards' \in [Vertices -> [Workers -> Int]]
           /\ \A s \in sample_mode' : /\ Total(shards'[s]) + k' = Left(s)
                                      /\ \A w \in Workers : shards'[s][w] > 0
<1> DEFINE delta == Delta
           raised == k + delta
<1>1. PICK by \in [sample_mode -> Workers], again \in [sample_mode -> Workers] :
       LET lowered(s) == [shards[s] EXCEPT ![by[s]] = @ - delta]
           due        == {s \in sample_mode : lowered(s)[by[s]] <= 0}
           leaving    == {s \in due : Total(lowered(s)) <= sample_threshold}
           down       == Down({-Total(lowered(s)) : s \in leaving})
           kept(s)    == IF s \in due THEN distribute(Total(lowered(s))) ELSE lowered(s)
       IN  /\ k' = raised - down
           /\ sample_mode' = sample_mode \ leaving
           /\ coreness' = [v \in Vertices |-> IF v \in leaving
                                                THEN uint32(Total(lowered(v)) + raised)
                                                ELSE coreness[v]]
           /\ shards' = [v \in Vertices |-> IF v \in sample_mode'
                                              THEN [kept(v) EXCEPT ![again[v]] = @ + down]
                                              ELSE Unused]
  BY Zenon DEF Round
<1> DEFINE lowered(s) == [shards[s] EXCEPT ![by[s]] = @ - delta]
           due        == {s \in sample_mode : lowered(s)[by[s]] <= 0}
           leaving    == {s \in due : Total(lowered(s)) <= sample_threshold}
           downs      == {-Total(lowered(s)) : s \in leaving}
           down       == Down(downs)
           kept(s)    == IF s \in due THEN distribute(Total(lowered(s))) ELSE lowered(s)
<1>2. /\ k' = raised - down
      /\ sample_mode' = sample_mode \ leaving
      /\ coreness' = [v \in Vertices |-> IF v \in leaving THEN uint32(Total(lowered(v)) + raised)
                                                          ELSE coreness[v]]
      /\ shards' = [v \in Vertices |-> IF v \in sample_mode' THEN [kept(v) EXCEPT ![again[v]] = @ + down]
                                                             ELSE Unused]
  BY <1>1, Zenon
<1>3. /\ phase = "round" /\ active # {} /\ resample = {} /\ sample_mode \subseteq active /\ active \subseteq Vertices
      /\ k \in Nat /\ graph \in Graphs /\ shards \in [Vertices -> [Workers -> Int]]
      /\ sample_threshold \in Nat /\ W \in Nat /\ W > 0 /\ sample_threshold >= W
  BY KCoreAssumption DEF Round, Sound, Types, PlacesAreApart
<1>4. delta \in Nat /\ delta > 0 /\ \A d \in active : d \notin sample_mode => Left(d) >= raised
  BY <1>3, DeltaIs
<1>5. \A d \in active : Left(d) \in Nat /\ Left(d) > k
  BY <1>3, RoundsHave
<1> HIDE DEF delta
<1>6. ASSUME NEW s \in sample_mode
      PROVE  /\ lowered(s) \in [Workers -> Int] /\ Total(lowered(s)) \in Int
             /\ Total(lowered(s)) + raised = Left(s)
             /\ \A w \in Workers : w # by[s] => lowered(s)[w] > 0
             /\ by[s] \in Workers /\ again[s] \in Workers
  <2>1. SampledCount(s) /\ s \in active
    BY <1>3 DEF Sound, CountsAgree, Count
  <2>2. /\ shards[s] \in [Workers -> Int] /\ Total(shards[s]) + k = Left(s)
        /\ \A w \in Workers : shards[s][w] > 0
    BY <1>3, <2>1 DEF SampledCount
  <2>3. by[s] \in Workers /\ again[s] \in Workers
    OBVIOUS
  <2> DEFINE u == by[s]
             x == -delta
  <2>4. u \in Workers /\ x \in Int
    BY <1>4
  <2>5. lowered(s) = [shards[s] EXCEPT ![u] = @ + x]
    BY <1>4, <2>2
  <2>6. \A w \in Workers : w # by[s] => lowered(s)[w] > 0
    BY <2>2
  <2> HIDE DEF u, x, lowered
  <2>7. /\ Total(shards[s]) \in Int /\ lowered(s) \in [Workers -> Int]
        /\ Total(lowered(s)) = Total(shards[s]) + x
    <3>1. PICK f, g : f = shards[s] /\ g = lowered(s)
      OBVIOUS
    <3>2. f \in [Workers -> Int] /\ g = [f EXCEPT ![u] = @ + x]
      BY <2>2, <2>5, <3>1
    <3>3. /\ g \in [Workers -> Int] /\ g[u] = f[u] + x
          /\ \A w \in Workers : w # u => g[w] = f[w]
      BY <2>4, <3>2
    <3>4. PICK v \in Workers, y \in Int : v = u /\ y = x
      BY <2>4
    <3>5. g[v] = f[v] + y /\ \A w \in Workers : w # v => g[w] = f[w]
      BY <3>3, <3>4
    <3>6. f \in [Workers -> Int] /\ g \in [Workers -> Int]
      BY <3>2, <3>3
    <3>7. Total(f) \in Int /\ Total(g) = Total(f) + y
      BY <3>5, <3>6, TotalAdds
    <3> QED BY <3>1, <3>3, <3>4, <3>7
  <2> QED BY <1>3, <1>4, <2>2, <2>3, <2>6, <2>7 DEF x
<1> HIDE DEF lowered, kept
<1>7. down \in Nat /\ down < delta /\ \A s \in leaving : Total(lowered(s)) >= -down
  <2> DEFINE S == {0} \cup downs
             b == delta - 1
  <2>1. \A s \in leaving : s \in sample_mode /\ s \in active
    BY <1>3
  <2>2. \A s \in leaving : -Total(lowered(s)) \in Int /\ -Total(lowered(s)) <= b
    BY <1>3, <1>4, <1>5, <1>6, <2>1
  <2>3. S \in SUBSET Int /\ S # {} /\ b \in Int /\ \A q \in S : q <= b
    <3>1. S \in SUBSET Int /\ S # {}
      BY <2>2
    <3>2. b \in Int /\ \A q \in S : q <= b
      BY <1>4, <2>2
    <3> QED BY <3>1, <3>2
  <2>4. Max(S) \in S /\ Max(S) \in Int /\ \A q \in S : q <= Max(S)
    <3> HIDE DEF S, b
    <3> QED BY <2>3, MaxIsGreatest
  <2>5. down = Max(S)
    BY DEF Down
  <2>6. Max(S) <= b /\ 0 <= Max(S)
    BY <2>3, <2>4
  <2>7. \A s \in leaving : -Total(lowered(s)) <= Max(S)
    BY <2>4
  <2>8. \A s \in leaving : Total(lowered(s)) \in Int
    BY <1>6, <2>1
  <2> HIDE DEF S, down, downs, leaving
  <2> QED BY <1>4, <2>4, <2>5, <2>6, <2>7, <2>8
<1> HIDE DEF down, downs
<1>8. /\ leaving \in SUBSET sample_mode /\ due \in SUBSET sample_mode
      /\ \A s \in due : s \in leaving <=> Total(lowered(s)) <= sample_threshold
      /\ \A s \in sample_mode : s \notin due => \A w \in Workers : lowered(s)[w] > 0
  <2>1. \A s \in sample_mode : s \notin due => lowered(s)[by[s]] > 0
    <3>1. \A s \in sample_mode : lowered(s)[by[s]] \in Int
      BY <1>6
    <3> QED BY <3>1
  <2> QED BY <1>6, <2>1
<1> HIDE DEF leaving, due
<1>9. raised \in Nat /\ k' \in Nat /\ k' > k /\ k' <= raised
  BY <1>2, <1>3, <1>4, <1>7
<1>10. ASSUME NEW s \in sample_mode, s \notin leaving
       PROVE  /\ kept(s) \in [Workers -> Int] /\ Total(kept(s)) = Total(lowered(s))
              /\ Total(lowered(s)) > 0 /\ \A w \in Workers : kept(s)[w] > 0
  <2>1. CASE s \in due
    <3>1. /\ Total(lowered(s)) \in Nat /\ Total(lowered(s)) > 0 /\ Total(lowered(s)) >= W
          /\ kept(s) = distribute(Total(lowered(s)))
      BY <1>3, <1>6, <1>8, <1>10, <2>1 DEF kept
    <3> QED BY <3>1, DistributeKeeps
  <2>2. CASE s \notin due
    <3>1. kept(s) = lowered(s)
      BY <2>2 DEF kept
    <3> QED BY <1>6, <1>8, <2>2, <3>1, TotalIsPositive
  <2> QED BY <2>1, <2>2
<1>11. ASSUME NEW d \in active PROVE Left(d) >= k'
  <2>1. CASE d \notin sample_mode
    BY <1>4, <1>5, <1>9, <2>1
  <2>2. CASE d \in leaving
    <3>1. Total(lowered(d)) >= -down /\ Total(lowered(d)) \in Int /\ Total(lowered(d)) + raised = Left(d)
      BY <1>6, <1>7, <1>8, <2>2
    <3> QED BY <1>2, <1>7, <1>9, <3>1
  <2>3. CASE d \in sample_mode /\ d \notin leaving
    <3>1. Total(lowered(d)) > 0 /\ Total(lowered(d)) \in Int /\ Total(lowered(d)) + raised = Left(d)
      BY <1>6, <1>10, <2>3
    <3> QED BY <1>9, <3>1
  <2> QED BY <2>1, <2>2, <2>3
<1>12. coreness' = [v \in Vertices |-> IF v \in leaving THEN Left(v) ELSE coreness[v]]
  <2>1. ASSUME NEW s \in leaving PROVE uint32(Total(lowered(s)) + raised) = Left(s)
    <3>1. Total(lowered(s)) + raised = Left(s) /\ s \in Vertices
      BY <1>3, <1>6, <1>8
    <3>2. /\ Left(s) \in Nat /\ Left(s) <= Degree(s) /\ Degree(s) \in Nat
          /\ Degree(s) < Cardinality(Vertices) /\ Cardinality(Vertices) \in Nat
          /\ 2 ^ Width \in Nat /\ Cardinality(Vertices) < 2 ^ Width
      BY <1>3, <3>1, CountsAre, DegreesAre DEF Sound
    <3> DEFINE p == 2 ^ Width
    <3>3. p \in Nat /\ Left(s) \in 0..(p - 1)
      BY <3>2
    <3> HIDE DEF p
    <3>4. Left(s) % p = Left(s)
      BY <3>3
    <3> QED BY <3>1, <3>4 DEF uint32, p
  <2> QED BY <1>2, <2>1
<1>13. ASSUME NEW s \in sample_mode'
       PROVE  /\ shards'[s] \in [Workers -> Int] /\ Total(shards'[s]) + k' = Left(s)
              /\ \A w \in Workers : shards'[s][w] > 0
  <2>1. s \in sample_mode /\ s \notin leaving /\ s \in Vertices
    BY <1>2, <1>3, <1>13
  <2> DEFINE f == kept(s)
             u == again[s]
  <2>2. shards'[s] = [f EXCEPT ![u] = @ + down]
    BY <1>2, <1>13, <2>1
  <2>3. f \in [Workers -> Int] /\ Total(f) = Total(lowered(s)) /\ u \in Workers /\ \A w \in Workers : f[w] > 0
    BY <1>6, <1>10, <2>1
  <2>4. Total(lowered(s)) \in Int /\ Total(lowered(s)) + raised = Left(s)
    BY <1>6, <2>1
  <2> HIDE DEF f, u
  <2>5. shards'[s] \in [Workers -> Int] /\ Total(shards'[s]) = Total(f) + down
    <3>1. down \in Int
      BY <1>7
    <3>2. PICK g : g = shards'[s]
      OBVIOUS
    <3>3. g = [f EXCEPT ![u] = @ + down]
      BY <2>2, <3>2
    <3>4. /\ g \in [Workers -> Int] /\ g[u] = f[u] + down
          /\ \A w \in Workers : w # u => g[w] = f[w]
      BY <2>3, <3>1, <3>3
    <3>5. Total(g) = Total(f) + down
      BY <2>3, <3>1, <3>4, TotalAdds
    <3> QED BY <3>2, <3>4, <3>5
  <2>6. \A w \in Workers : shards'[s][w] > 0
    BY <1>7, <2>2, <2>3
  <2>7. shards'[s] \in [Workers -> Int] /\ Total(shards'[s]) = Total(lowered(s)) + down
    BY <2>3, <2>5
  <2>8. Total(shards'[s]) + k' = Left(s)
    BY <1>2, <1>7, <1>9, <2>4, <2>7
  <2> QED BY <2>6, <2>7, <2>8
<1>14. shards' \in [Vertices -> [Workers -> Int]]
  <2>1. Unused \in [Workers -> Int]
    BY DEF Unused
  <2>2. \A v \in Vertices : shards'[v] = IF v \in sample_mode' THEN shards'[v] ELSE Unused
    BY <1>2
  <2>3. \A v \in Vertices : shards'[v] \in [Workers -> Int]
    BY <1>13, <2>1, <2>2
  <2>4. shards' = [v \in Vertices |-> shards'[v]]
    BY <1>2
  <2> QED BY <2>3, <2>4
<1> QED BY <1>2, <1>8, <1>9, <1>11, <1>12, <1>13, <1>14

(* What is untouched at a vertex. *)
Untouched(d) ==
  /\ Left(d)' = Left(d) /\ shards'[d] = shards[d] /\ coreness'[d] = coreness[d]
  /\ (d \in sample_mode' <=> d \in sample_mode) /\ (d \in resample => d \in resample')

OthersWork(d) ==
  /\ Subs(d)' = Subs(d) /\ Restoring(d)' = Restoring(d) /\ Added(d)' = Added(d)
  /\ (Removing(d)' <=> Removing(d)) /\ (Busy(d)' <=> Busy(d))

LEMMA CountStays ==
  ASSUME NEW d \in active, Sound, Untouched(d), OthersWork(d), graph' = graph, k' = k,
         phase # "select" \/ phase' = "select"
  PROVE  Count(d)'
<1>1. Count(d) /\ Degree(d)' = Degree(d)
  BY GraphStays DEF Sound, CountsAgree
<1>2. SampledCount(d) => SampledCount(d)'
  BY <1>1 DEF SampledCount, Untouched, OthersWork
<1>3. RemovedCount(d) => RemovedCount(d)'
  BY <1>1 DEF RemovedCount, Untouched, OthersWork
<1>4. ExactCount(d) => ExactCount(d)'
  BY <1>1 DEF ExactCount, Untouched, OthersWork
<1> QED BY <1>1, <1>2, <1>3, <1>4 DEF Count, Untouched, OthersWork

LEMMA SettledStays ==
  ASSUME NEW d \in Vertices \ active, Sound, coreness'[d] = coreness[d], OthersWork(d),
         graph' = graph, k' = k
  PROVE  Settled(d)'
<1>1. Settled(d)
  BY DEF Sound, PeeledAreSettled
<1> QED BY <1>1, GraphStays DEF Settled, OthersWork

(* A worker changes what it does: at other vertices nothing changes. *)
LEMMA OthersStay ==
  ASSUME NEW w \in Workers, NEW j, job' = [job EXCEPT ![w] = j], graph' = graph, Types,
         NEW d, job[w] = Idle \/ job[w].edge[2] # d, j = Idle \/ j.edge[2] # d
  PROVE  OthersWork(d)
<1>1. job'[w] = j /\ \A u \in Workers : u # w => job'[u] = job[u]
  BY DEF Types
<1>2. Idle.at = "idle"
  BY DEF Idle
<1>3. Restoring(d)' = Restoring(d)
  BY <1>1, <1>2 DEF Restoring
<1>4. Removing(d)' <=> Removing(d)
  BY <1>1, <1>2 DEF Removing
<1>5. Busy(d)' <=> Busy(d)
  <2>1. Idle' = Idle
    BY DEF Idle
  <2> QED BY <1>1, <1>2, <2>1 DEF Busy
<1>6. Subs(d)' = Subs(d)
  <2>1. \A e \in graph : e[2] = d => job[w] # [at |-> "sub", edge |-> e] /\ j # [at |-> "sub", edge |-> e]
    BY <1>2
  <2> QED BY <1>1, <2>1 DEF Subs
<1> QED BY <1>3, <1>4, <1>5, <1>6 DEF OthersWork, Added

LEMMA RoundSound ==
  ASSUME Sound, Round
  PROVE  Sound'
<1>1. PICK leaving \in SUBSET sample_mode :
           /\ k' \in Nat /\ k' > k /\ \A d \in active : Left(d) >= k'
           /\ sample_mode' = sample_mode \ leaving
           /\ coreness' = [v \in Vertices |-> IF v \in leaving THEN Left(v) ELSE coreness[v]]
           /\ shards' \in [Vertices -> [Workers -> Int]]
           /\ \A s \in sample_mode' : /\ Total(shards'[s]) + k' = Left(s)
                                      /\ \A w \in Workers : shards'[s][w] > 0
  BY RoundDoes
<1>2. /\ phase = "round" /\ phase' = "select" /\ active # {}
      /\ frontier' = frontier /\ next_frontier' = next_frontier /\ active' = active /\ graph' = graph
      /\ resample' = resample /\ no_reduce' = no_reduce /\ work' = work /\ job' = job
  BY DEF Round
<1>3. /\ \A d \in Vertices : Restoring(d) = {} /\ ~ Busy(d) /\ ~ Removing(d) /\ Added(d) = 0
      /\ \A d \in active : /\ d \in Vertices /\ Left(d) = Cardinality(In(d, active)) /\ Left(d) \in Nat
                           /\ Left(d) <= Cardinality(Vertices)
                           /\ d \notin sample_mode => coreness[d] = Left(d)
      /\ active = Core(k + 1) /\ k \in Nat /\ graph \in Graphs /\ active \subseteq Vertices
      /\ sample_mode \subseteq active /\ Cardinality(Vertices) \in Nat /\ resample = {}
  <2>1. Types /\ PlacesAreApart
    BY DEF Sound
  <2>2. graph \in Graphs /\ k \in Nat /\ active \subseteq Vertices /\ sample_mode \subseteq active /\ resample = {}
    BY <1>2, <2>1 DEF Types, PlacesAreApart
  <2>3. Cardinality(Vertices) \in Nat /\ \A v \in Vertices : Degree(v) \in Nat /\ Degree(v) < Cardinality(Vertices)
    BY <2>2, DegreesAre
  <2>4. \A d \in Vertices : Left(d) \in Nat /\ Left(d) <= Degree(d)
    BY <2>1, CountsAre
  <2>5. \A d \in active : Left(d) <= Cardinality(Vertices)
    BY <2>2, <2>3, <2>4
  <2>6. \A d \in Vertices : Restoring(d) = {} /\ ~ Busy(d) /\ ~ Removing(d) /\ Added(d) = 0
    BY <1>2, QuietHas
  <2>7. /\ \A d \in active : /\ d \in Vertices /\ Left(d) = Cardinality(In(d, active)) /\ Left(d) \in Nat
                             /\ d \notin sample_mode => coreness[d] = Left(d)
        /\ active = Core(k + 1)
    BY <1>2, RoundsHave
  <2> QED BY <2>2, <2>3, <2>5, <2>6, <2>7
<1>4. \A d : /\ Subs(d)' = Subs(d) /\ Restoring(d)' = Restoring(d) /\ Added(d)' = Added(d)
             /\ (Removing(d)' <=> Removing(d)) /\ (Busy(d)' <=> Busy(d))
  BY <1>2, JobsStay
<1>5. \A d : Left(d)' = Left(d) /\ Degree(d)' = Degree(d)
  BY <1>2, EdgesStay, GraphStays
<1>6. Types'
  <2>1. \A v \in leaving : Left(v) \in Nat
    BY <1>3
  <2>2. coreness' \in [Vertices -> Nat]
    BY <1>1, <2>1 DEF Sound, Types
  <2>3. k' <= Cardinality(Vertices)
    <3>1. PICK d \in active : TRUE
      BY <1>2
    <3> QED BY <1>1, <1>3, <3>1
  <2>4. sample_mode' \subseteq active' /\ resample' \subseteq sample_mode'
    BY <1>1, <1>2, <1>3
  <2>5. Jobs' = Jobs
    BY <1>2, GraphStays
  <2> QED BY <1>1, <1>2, <2>2, <2>3, <2>4, <2>5 DEF Sound, Types
<1>7. PlacesAreApart'
  <2>1. Idle' = Idle
    BY DEF Idle
  <2> QED BY <1>2, <2>1 DEF Sound, PlacesAreApart
<1>8. EdgesGoOnce'
  BY <1>2, EdgesStay DEF Sound, EdgesGoOnce
<1>9. OneRemoves'
  BY <1>2 DEF Sound, OneRemoves
<1>10. CountsAgree'
  <2> SUFFICES ASSUME NEW d \in active'
               PROVE  IF d \in sample_mode' THEN SampledCount(d)' ELSE
                      IF Removing(d)' THEN RemovedCount(d)' ELSE ExactCount(d)'
    BY DEF CountsAgree, Count
  <2>1. d \in active /\ d \in Vertices
    BY <1>2, <1>3
  <2>2. CASE d \in sample_mode'
    <3>1. d \in sample_mode /\ d \notin leaving
      BY <1>1, <2>2
    <3>2. coreness[d] = Degree(d)
      BY <2>1, <3>1 DEF Sound, CountsAgree, Count, SampledCount
    <3>3. coreness'[d] = Degree(d)
      BY <1>1, <2>1, <3>1, <3>2
    <3>4. SampledCount(d)'
      BY <1>1, <1>3, <1>4, <1>5, <2>1, <2>2, <3>3 DEF SampledCount
    <3> QED BY <2>2, <3>4
  <2>3. CASE d \notin sample_mode'
    <3>1. coreness'[d] = Left(d)
      BY <1>1, <1>3, <2>1, <2>3
    <3>2. ExactCount(d)'
      BY <1>1, <1>2, <1>3, <1>4, <1>5, <2>1, <3>1 DEF ExactCount
    <3> QED BY <1>3, <1>4, <2>1, <2>3, <3>2
  <2> QED BY <2>2, <2>3
<1>11. PeeledAreSettled'
  <2> SUFFICES ASSUME NEW d \in Vertices, d \notin active PROVE Settled(d)'
    BY <1>2 DEF PeeledAreSettled
  <2>1. Settled(d)
    BY DEF Sound, PeeledAreSettled
  <2>2. coreness'[d] = coreness[d]
    BY <1>1, <1>3
  <2>3. ~ Busy(d)' /\ Added(d)' = Added(d)
    BY <1>3, <1>4
  <2> QED BY <1>2, <2>1, <2>2, <2>3, GraphStays DEF Settled
<1>12. CoresAreActive'
  <2>1. Core(k' + 1) \subseteq Core(k + 1)
    <3>1. PICK a \in Nat, b \in Nat : a = k /\ b = k' /\ b > a
      BY <1>1, <1>3
    <3>2. b > a
      BY <3>1
    <3>3. b + 1 \in Nat /\ a + 1 \in Nat /\ a + 1 <= b + 1
      BY <3>2
    <3>4. Core(b + 1) \subseteq Core(a + 1)
      BY <1>3, <3>3, CoresAre
    <3> QED BY <3>1, <3>4
  <2>2. active \subseteq Core(k')
    <3>1. \A v \in active : Cardinality(In(v, active)) >= k'
      BY <1>1, <1>3
    <3> QED BY <1>1, <1>3, <3>1, CoresAre
  <2> QED BY <1>2, <1>3, <2>1, <2>2, GraphStays
<1> QED BY <1>6, <1>7, <1>8, <1>9, <1>10, <1>11, <1>12 DEF Sound

-----------------------------------------------------------------------------
(* The frontier of the round is chosen. *)

(* Nobody with more than k edges in the core is among those with k left. *)
LEMMA LeftOfCore ==
  ASSUME Sound, NEW d \in Core(k + 1), NEW S \in SUBSET active, Core(k + 1) \subseteq S
  PROVE  /\ d \in Vertices /\ d \in active /\ Left(d) >= k + 1
         /\ Cardinality(In(d, S)) \in Nat /\ Cardinality(In(d, S)) >= k + 1
<1>1. /\ Types /\ graph \in Graphs /\ k + 1 \in Nat /\ k \in Nat /\ active \subseteq Vertices
      /\ Core(k + 1) \subseteq active
  BY DEF Sound, Types, CoresAreActive
<1>2. Cardinality(In(d, Core(k + 1))) >= k + 1
  BY <1>1, CoresAre
<1>3. d \in Vertices /\ d \in active
  BY <1>1
<1>4. In(d, Core(k + 1)) \subseteq In(d, S) /\ In(d, S) \in SUBSET graph /\ In(d, S) \subseteq In(d, active)
  BY <1>1 DEF In
<1>5. In(d, active) \subseteq Remaining(d) /\ Remaining(d) \in SUBSET graph
  BY <1>1, <1>3, CountsAre
<1>6. /\ Cardinality(In(d, Core(k + 1))) <= Cardinality(In(d, S))
      /\ Cardinality(In(d, S)) <= Left(d)
      /\ Cardinality(In(d, Core(k + 1))) \in Nat /\ Cardinality(In(d, S)) \in Nat /\ Left(d) \in Nat
  <2>1. In(d, S) \in SUBSET Remaining(d) /\ In(d, Core(k + 1)) \in SUBSET In(d, S)
    BY <1>4, <1>5
  <2>2. In(d, Core(k + 1)) \in SUBSET graph
    BY <1>4
  <2> QED BY <1>1, <1>4, <1>5, <2>1, <2>2, EdgesAreFinite DEF Left
<1> QED BY <1>1, <1>2, <1>3, <1>6

LEMMA SelectSound ==
  ASSUME Sound, Select
  PROVE  Sound'
<1> DEFINE chosen == {v \in active : coreness[v] = k}
<1>1. /\ phase = "select" /\ frontier' = chosen /\ active' = active \ chosen
      /\ no_reduce' = (IF no_reduce > 0 /\ chosen = {} THEN no_reduce - 1 ELSE no_reduce)
      /\ phase' = (IF chosen = {} THEN "round" ELSE "peel")
      /\ coreness' = coreness /\ next_frontier' = next_frontier /\ resample' = resample
      /\ sample_mode' = sample_mode /\ k' = k /\ shards' = shards /\ work' = work /\ job' = job /\ graph' = graph
  BY DEF Select
<1>2. /\ frontier = {} /\ next_frontier = {} /\ resample = {} /\ work = {} /\ \A w \in Workers : job[w] = Idle
      /\ \A d \in Vertices : Restoring(d) = {} /\ ~ Busy(d) /\ ~ Removing(d) /\ Added(d) = 0
  BY <1>1, QuietHas DEF Sound, PlacesAreApart
<1>3. /\ k \in Nat /\ graph \in Graphs /\ active \subseteq Vertices /\ sample_mode \subseteq active
      /\ coreness \in [Vertices -> Nat] /\ no_reduce \in Nat /\ k <= Cardinality(Vertices)
      /\ Cardinality(Vertices) \in Nat
  BY DegreesAre DEF Sound, Types
<1>4. \A d : /\ Subs(d)' = Subs(d) /\ Restoring(d)' = Restoring(d) /\ Added(d)' = Added(d)
             /\ (Removing(d)' <=> Removing(d)) /\ (Busy(d)' <=> Busy(d))
  BY <1>1, JobsStay
<1>5. Waiting' = Waiting /\ \A d : Left(d)' = Left(d) /\ Degree(d)' = Degree(d)
  <2>1. Waiting' = Waiting
    BY <1>1, <1>2 DEF Waiting
  <2> HIDE DEF chosen
  <2>2. \A d : Remaining(d)' = Remaining(d)
    <3>1. active' \cup frontier' \cup next_frontier' = active \cup frontier \cup next_frontier
      BY <2>1 DEF Waiting
    <3> QED BY <1>1, <3>1 DEF Remaining
  <2> QED BY <1>1, <2>1, <2>2, GraphStays DEF Left
<1>6. \A d \in active : /\ d \in Vertices /\ Left(d) \in Nat /\ Degree(d) \in Nat /\ Left(d) <= Degree(d)
                        /\ Left(d) >= k /\ (d \in chosen <=> Left(d) <= k) /\ (d \in chosen => d \notin sample_mode)
                        /\ d \notin sample_mode => coreness[d] = Left(d)
  <2> SUFFICES ASSUME NEW d \in active
               PROVE  /\ d \in Vertices /\ Left(d) \in Nat /\ Degree(d) \in Nat /\ Left(d) <= Degree(d)
                      /\ Left(d) >= k /\ (d \in chosen <=> Left(d) <= k) /\ (d \in chosen => d \notin sample_mode)
                      /\ d \notin sample_mode => coreness[d] = Left(d)
    OBVIOUS
  <2>1. d \in Vertices /\ Left(d) \in Nat /\ Left(d) <= Degree(d) /\ Degree(d) \in Nat
    BY <1>3, CountsAre, DegreesAre DEF Sound
  <2>2. CASE d \in sample_mode
    <3>1. SampledCount(d)
      BY <2>2 DEF Sound, CountsAgree, Count
    <3>2. Total(shards[d]) > 0 /\ Total(shards[d]) \in Int
      <4>1. shards[d] \in [Workers -> Int] /\ \A w \in Workers : shards[d][w] > 0
        BY <1>2, <2>1, <3>1 DEF SampledCount, Sound, Types
      <4>2. 0 \in Workers
        BY KCoreAssumption DEF Workers
      <4> QED BY <4>1, <4>2, TotalIsPositive, TotalAdds
    <3>3. Left(d) > k /\ coreness[d] > k
      BY <1>3, <2>1, <3>1, <3>2 DEF SampledCount
    <3> QED BY <1>3, <2>1, <2>2, <3>3
  <2>3. CASE d \notin sample_mode
    <3>1. ExactCount(d)
      BY <1>2, <2>1, <2>3 DEF Sound, CountsAgree, Count
    <3> QED BY <1>3, <2>1, <2>3, <3>1 DEF ExactCount
  <2> QED BY <2>2, <2>3
<1>7. chosen \in SUBSET active /\ \A d \in chosen : coreness[d] = k
  OBVIOUS
<1> HIDE DEF chosen
<1>8. Types'
  <2>1. sample_mode' \subseteq active' /\ active' \subseteq Vertices /\ frontier' \subseteq Vertices
    BY <1>1, <1>3, <1>6, <1>7
  <2>2. no_reduce' \in Nat /\ phase' \in {"round", "select", "peel", "resample"}
    BY <1>1, <1>3
  <2>3. Jobs' = Jobs
    BY <1>1, GraphStays
  <2> QED BY <1>1, <2>1, <2>2, <2>3 DEF Sound, Types
<1>9. PlacesAreApart'
  <2>1. Idle' = Idle
    BY DEF Idle
  <2> QED BY <1>1, <1>2, <1>7, <2>1 DEF Sound, PlacesAreApart
<1>10. EdgesGoOnce'
  <2>1. \A w \in Workers : job[w].at # "sub"
    BY <1>2 DEF Idle
  <2> QED BY <1>1, <1>2, <2>1 DEF EdgesGoOnce
<1>11. OneRemoves'
  <2>1. \A w \in Workers : job[w].at # "remove"
    BY <1>2 DEF Idle
  <2> QED BY <1>1, <2>1 DEF OneRemoves
<1>12. CountsAgree'
  <2> SUFFICES ASSUME NEW d \in active, d \notin chosen
               PROVE  IF d \in sample_mode' THEN SampledCount(d)' ELSE
                      IF Removing(d)' THEN RemovedCount(d)' ELSE ExactCount(d)'
    BY <1>1 DEF CountsAgree, Count
  <2>1. d \in Vertices
    BY <1>3
  <2>2. CASE d \in sample_mode
    <3>1. SampledCount(d)
      BY <2>2 DEF Sound, CountsAgree, Count
    <3>2. SampledCount(d)'
      BY <1>1, <1>4, <1>5, <3>1 DEF SampledCount
    <3> QED BY <1>1, <2>2, <3>2
  <2>3. CASE d \notin sample_mode
    <3>1. coreness[d] = Left(d) /\ Left(d) > k
      BY <1>3, <1>6, <2>3
    <3>2. ExactCount(d)'
      BY <1>1, <1>2, <1>3, <1>4, <1>5, <1>6, <2>1, <3>1 DEF ExactCount
    <3> QED BY <1>1, <1>2, <1>4, <2>1, <2>3, <3>2
  <2> QED BY <2>2, <2>3
<1>13. PeeledAreSettled'
  <2> SUFFICES ASSUME NEW d \in Vertices, d \notin active \ chosen PROVE Settled(d)'
    BY <1>1 DEF PeeledAreSettled
  <2>1. ~ Busy(d)' /\ Added(d)' = Added(d) /\ Added(d) = 0
    BY <1>2, <1>4
  <2>2. CASE d \notin active
    <3>1. Settled(d)
      BY <2>2 DEF Sound, PeeledAreSettled
    <3> QED BY <1>1, <2>1, <3>1, GraphStays DEF Settled
  <2>3. CASE d \in chosen
    <3>1. d \in Core(k)
      BY <1>7, <2>3 DEF Sound, CoresAreActive
    <3>2. d \notin Core(k + 1)
      <4>1. Left(d) <= k /\ Left(d) \in Nat
        BY <1>6, <1>7, <2>3
      <4> QED BY <1>3, <4>1, LeftOfCore DEF Sound, CoresAreActive
    <3>3. coreness'[d] + Added(d)' = k
      BY <1>1, <1>3, <1>7, <2>1, <2>3
    <3> QED BY <1>1, <2>1, <3>1, <3>2, <3>3, GraphStays
  <2> QED BY <2>2, <2>3
<1>14. CoresAreActive'
  <2>1. Core(k + 1) \subseteq active \ chosen
    <3> SUFFICES ASSUME NEW d \in Core(k + 1), d \in chosen PROVE FALSE
      BY DEF Sound, CoresAreActive
    <3>1. Left(d) <= k /\ Left(d) \in Nat
      BY <1>6, <1>7
    <3> QED BY <1>3, <3>1, LeftOfCore DEF Sound, CoresAreActive
  <2>2. active \ chosen \subseteq Core(k)
    BY DEF Sound, CoresAreActive
  <2> QED BY <1>1, <2>1, <2>2, GraphStays
<1> QED BY <1>8, <1>9, <1>10, <1>11, <1>12, <1>13, <1>14 DEF Sound

-----------------------------------------------------------------------------
(* Peeling. *)

LEMMA TakeSound ==
  ASSUME Sound, NEW s \in Vertices, Take(s)
  PROVE  Sound'
<1>1. /\ phase = "peel" /\ s \in frontier /\ frontier' = frontier \ {s} /\ work' = work \cup OpenEdges(s)
      /\ coreness' = coreness /\ next_frontier' = next_frontier /\ active' = active /\ resample' = resample
      /\ sample_mode' = sample_mode /\ k' = k /\ no_reduce' = no_reduce /\ shards' = shards
      /\ phase' = phase /\ job' = job /\ graph' = graph
  BY DEF Take
<1>2. s \notin active /\ s \notin next_frontier /\ s \in Waiting /\ Waiting' = Waiting \ {s}
  BY <1>1 DEF Sound, PlacesAreApart, Waiting
<1>3. ASSUME NEW d \in active PROVE Left(d)' = Left(d)
  <2>1. Remaining(d)' = Remaining(d)
    <3>1. \A e \in graph : e[2] = d => (e[1] \in Waiting' \/ e \in work' <=> e[1] \in Waiting \/ e \in work)
      BY <1>1, <1>2 DEF OpenEdges
    <3> QED BY <1>1, <3>1 DEF Remaining, Waiting
  <2> QED BY <2>1 DEF Left
<1>4. \A d : OthersWork(d)
  BY <1>1, JobsStay DEF OthersWork
<1>5. Types'
  <2>1. OpenEdges(s) \subseteq graph
    BY DEF OpenEdges
  <2>2. Jobs' = Jobs
    BY <1>1, GraphStays
  <2> QED BY <1>1, <2>1, <2>2 DEF Sound, Types
<1>6. PlacesAreApart'
  BY <1>1 DEF Sound, PlacesAreApart
<1>7. EdgesGoOnce'
  <2>1. \A e \in work' : e[1] \notin Waiting' /\ e[2] \in active'
    BY <1>1, <1>2 DEF Sound, EdgesGoOnce, OpenEdges
  <2>2. \A w \in Workers : job[w].at = "sub" => job[w].edge \notin work' /\ job[w].edge[1] \notin Waiting'
    BY <1>1, <1>2 DEF Sound, EdgesGoOnce, OpenEdges
  <2> QED BY <1>1, <2>1, <2>2 DEF Sound, EdgesGoOnce
<1>8. OneRemoves'
  BY <1>1 DEF Sound, OneRemoves
<1>9. CountsAgree'
  <2> SUFFICES ASSUME NEW d \in active PROVE Count(d)'
    BY <1>1 DEF CountsAgree
  <2>1. Untouched(d)
    BY <1>1, <1>3 DEF Untouched
  <2> QED BY <1>1, <1>4, <2>1, CountStays
<1>10. PeeledAreSettled'
  <2> SUFFICES ASSUME NEW d \in Vertices \ active PROVE Settled(d)'
    BY <1>1 DEF PeeledAreSettled
  <2> QED BY <1>1, <1>4, SettledStays
<1>11. CoresAreActive'
  BY <1>1, GraphStays DEF Sound, CoresAreActive
<1> QED BY <1>5, <1>6, <1>7, <1>8, <1>9, <1>10, <1>11 DEF Sound

LEMMA VisitSound ==
  ASSUME Sound, NEW w \in Workers, NEW e \in work, Visit(w, e)
  PROVE  Sound'
<1> DEFINE d == e[2]
<1>1. /\ phase = "peel" /\ job[w] = Idle /\ work' = work \ {e}
      /\ coreness' = coreness /\ frontier' = frontier /\ next_frontier' = next_frontier /\ active' = active
      /\ sample_mode' = sample_mode /\ k' = k /\ no_reduce' = no_reduce
      /\ phase' = phase /\ graph' = graph
  BY DEF Visit
<1>2. \/ /\ d \in sample_mode /\ job' = job
         /\ shards' = [shards EXCEPT ![d][w] = @ - 1]
         /\ resample' = IF shards[d][w] - 1 = 0 THEN resample \cup {d} ELSE resample
      \/ /\ d \notin sample_mode /\ shards' = shards /\ resample' = resample
         /\ job' = [job EXCEPT ![w] = [at |-> "sub", edge |-> e]]
  BY DEF Visit, UsedUp
<1>3. /\ d \in active /\ d \in Vertices /\ e \in graph /\ e[1] \notin Waiting /\ Waiting' = Waiting
      /\ \A u \in Workers : job[u].at = "sub" => job[u].edge \notin work
  BY <1>1 DEF Sound, EdgesGoOnce, Types, Waiting
<1>4. PlacesAreApart' /\ CoresAreActive'
  <2>1. PlacesAreApart'
    <3>1. resample' \subseteq resample \cup {d} /\ phase' = "peel"
      BY <1>1, <1>2
    <3> QED BY <1>1, <3>1 DEF Sound, PlacesAreApart
  <2> QED BY <1>1, <2>1, GraphStays DEF Sound, CoresAreActive
<1>5. CASE d \notin sample_mode
  <2> DEFINE j == [at |-> "sub", edge |-> e]
  <2>1. /\ shards' = shards /\ resample' = resample /\ job' = [job EXCEPT ![w] = j]
        /\ job'[w] = j /\ \A u \in Workers : u # w => job'[u] = job[u]
    BY <1>2, <1>5 DEF Sound, Types
  <2>2. j # Idle /\ j.at = "sub" /\ j.edge = e /\ j \in Jobs
    BY <1>3 DEF Jobs, Idle
  <2> HIDE DEF j
  <2>3. ASSUME NEW c PROVE Left(c)' = Left(c)
    <3>1. ASSUME NEW a \in graph
          PROVE (a \in work' \/ \E u \in Workers : job'[u] = [at |-> "sub", edge |-> a])
                  <=> (a \in work \/ \E u \in Workers : job[u] = [at |-> "sub", edge |-> a])
      <4>1. CASE a = e
        BY <1>1, <2>1, <4>1 DEF j
      <4>2. CASE a # e
        <5>1. j # [at |-> "sub", edge |-> a] /\ Idle # [at |-> "sub", edge |-> a]
          BY <2>2, <4>2 DEF Idle
        <5> QED BY <1>1, <2>1, <4>2, <5>1
      <4> QED BY <4>1, <4>2
    <3>2. Remaining(c)' = Remaining(c)
      BY <1>1, <1>3, <3>1 DEF Remaining, Waiting
    <3> QED BY <3>2 DEF Left
  <2>4. ASSUME NEW c, c # d PROVE OthersWork(c)
    BY <1>1, <2>1, <2>2, <2>4, OthersStay DEF Sound
  <2>5. Types'
    <3>1. job' \in [Workers -> Jobs]
      BY <2>1, <2>2 DEF Sound, Types
    <3>2. Jobs' = Jobs
      BY <1>1, GraphStays
    <3> QED BY <1>1, <2>1, <3>1, <3>2 DEF Sound, Types
  <2>6. EdgesGoOnce'
    <3>1. \A a \in work' : a[1] \notin Waiting' /\ a[2] \in active'
      BY <1>1, <1>3 DEF Sound, EdgesGoOnce
    <3>2. \A u \in Workers : job'[u].at = "sub" => job'[u].edge \notin work' /\ job'[u].edge[1] \notin Waiting'
      BY <1>1, <1>3, <2>1, <2>2 DEF Sound, EdgesGoOnce
    <3>3. \A u, v \in Workers : job'[v].at = "sub" /\ job'[u] = job'[v] => u = v
      <4>1. \A u \in Workers : u # w => job[u] # j
        BY <1>3, <2>2
      <4> QED BY <2>1, <4>1 DEF Sound, EdgesGoOnce
    <3> QED BY <3>1, <3>2, <3>3 DEF EdgesGoOnce
  <2>7. OneRemoves'
    <3>1. \A u \in Workers : job'[u].at = "remove" => job[u].at = "remove" /\ job'[u] = job[u]
      BY <2>1, <2>2
    <3> QED BY <1>1, <3>1 DEF Sound, OneRemoves
  <2>8. CountsAgree'
    <3> SUFFICES ASSUME NEW c \in active PROVE Count(c)'
      BY <1>1 DEF CountsAgree
    <3>1. Untouched(c)
      BY <1>1, <2>1, <2>3 DEF Untouched
    <3>2. CASE c # d
      <4>1. OthersWork(c)
        BY <2>4, <3>2
      <4> QED BY <1>1, <3>1, <4>1, CountStays
    <3>3. CASE c = d
      <4>1. /\ (Removing(c)' <=> Removing(c)) /\ Restoring(c)' = Restoring(c)
        BY <1>1, <2>1, <2>2 DEF Removing, Restoring, Idle
      <4>2. Count(c) /\ c \notin sample_mode
        BY <1>5, <3>3 DEF Sound, CountsAgree
      <4>3. ExactCount(c) => ExactCount(c)'
        BY <1>1, <3>1, <4>1 DEF ExactCount, Untouched
      <4>4. RemovedCount(c) => RemovedCount(c)'
        BY <1>1, <3>1, <4>1 DEF RemovedCount, Untouched, Added
      <4> QED BY <1>1, <4>1, <4>2, <4>3, <4>4 DEF Count
    <3> QED BY <3>2, <3>3
  <2>9. PeeledAreSettled'
    <3> SUFFICES ASSUME NEW c \in Vertices \ active PROVE Settled(c)'
      BY <1>1 DEF PeeledAreSettled
    <3> QED BY <1>1, <1>3, <2>4, SettledStays
  <2> QED BY <1>4, <2>5, <2>6, <2>7, <2>8, <2>9 DEF Sound
<1>6. CASE d \in sample_mode
  <2>1. /\ shards' = [shards EXCEPT ![d][w] = @ - 1] /\ job' = job
        /\ resample' = IF shards[d][w] - 1 = 0 THEN resample \cup {d} ELSE resample
    BY <1>2, <1>6
  <2>2. \A c : OthersWork(c)
    BY <1>1, <2>1, JobsStay DEF OthersWork
  <2>3. shards \in [Vertices -> [Workers -> Int]]
    BY DEF Sound, Types
  <2>4. PICK f \in [Workers -> Int], g \in [Workers -> Int] :
          /\ f = shards[d] /\ g = shards'[d] /\ g[w] = f[w] - 1 /\ \A u \in Workers : u # w => g[u] = f[u]
    <3>1. shards[d] \in [Workers -> Int]
      BY <1>3, <2>3
    <3>2. shards'[d] = [shards[d] EXCEPT ![w] = @ - 1]
      BY <1>3, <2>1, <2>3
    <3>3. shards'[d] \in [Workers -> Int]
      BY <3>1, <3>2
    <3> QED BY <3>1, <3>2, <3>3
  <2>5. \A c \in Vertices : c # d => shards'[c] = shards[c]
    BY <2>1, <2>3
  <2>6. Types'
    <3>1. shards' \in [Vertices -> [Workers -> Int]]
      BY <1>3, <2>1, <2>3
    <3>2. resample' \subseteq sample_mode'
      BY <1>1, <1>6, <2>1 DEF Sound, Types
    <3>3. Jobs' = Jobs
      BY <1>1, GraphStays
    <3> QED BY <1>1, <2>1, <3>1, <3>2, <3>3 DEF Sound, Types
  <2>7. EdgesGoOnce' /\ OneRemoves'
    <3>1. EdgesGoOnce'
      BY <1>1, <1>3, <2>1 DEF Sound, EdgesGoOnce
    <3>2. OneRemoves'
      BY <1>1, <2>1 DEF Sound, OneRemoves
    <3> QED BY <3>1, <3>2
  <2>8. ASSUME NEW c \in active PROVE Remaining(c)' = Remaining(c) \ {e}
    <3>1. \A u \in Workers : job[u] # [at |-> "sub", edge |-> e]
      BY <1>3
    <3> QED BY <1>1, <1>3, <2>1, <3>1 DEF Remaining, Waiting
  <2>9. ASSUME NEW c \in active, c # d PROVE Count(c)'
    <3>1. e \notin Remaining(c)
      BY <2>9 DEF Remaining
    <3>2. Left(c)' = Left(c) /\ c \in Vertices
      BY <2>8, <3>1 DEF Left, Sound, Types
    <3>3. Untouched(c)
      BY <1>1, <2>1, <2>5, <2>9, <3>2 DEF Untouched
    <3> QED BY <1>1, <2>2, <3>3, CountStays
  <2>10. Count(d)'
    <3>1. SampledCount(d)
      BY <1>3, <1>6 DEF Sound, CountsAgree, Count
    <3>2. Left(d)' = Left(d) - 1
      <4>1. e \in Remaining(d) /\ IsFiniteSet(Remaining(d))
        BY <1>3, CountsAre DEF Remaining, Sound
      <4>2. Cardinality(Remaining(d) \ {e}) = Cardinality(Remaining(d)) - 1
        BY <4>1, FS_RemoveElement
      <4> QED BY <1>3, <2>8, <4>2 DEF Left
    <3>3. Total(f) \in Int /\ Total(g) = Total(f) - 1
      <4>1. g[w] = f[w] + (-1)
        BY <2>4
      <4>2. \A u \in Workers : u # w => g[u] = f[u]
        BY <2>4
      <4>3. Total(f) \in Int /\ Total(g) = Total(f) + (-1)
        BY <4>1, <4>2, TotalAdds
      <4> QED BY <4>3
    <3>4. Total(f) + k = Left(d) /\ k \in Int /\ Left(d) \in Int
      BY <1>3, <2>4, <3>1, CountsAre DEF SampledCount, Sound, Types
    <3>5. Total(g) + k = Left(d) - 1
      BY <3>3, <3>4
    <3>6. d \in resample' \/ \A u \in Workers : g[u] > 0
      <4>1. CASE d \in resample \/ f[w] - 1 = 0
        BY <2>1, <2>4, <4>1
      <4>2. CASE ~ (d \in resample \/ f[w] - 1 = 0)
        <5>1. \A u \in Workers : f[u] > 0
          BY <2>4, <3>1, <4>2 DEF SampledCount
        <5>2. f[w] - 1 > 0
          BY <4>2, <5>1
        <5> QED BY <2>4, <5>1, <5>2
      <4> QED BY <4>1, <4>2
    <3>7. SampledCount(d)'
      <4>1. Degree(d)' = Degree(d) /\ (Busy(d)' <=> Busy(d))
        BY <1>1, <2>2, GraphStays DEF OthersWork
      <4> QED BY <1>1, <2>4, <3>1, <3>2, <3>5, <3>6, <4>1 DEF SampledCount
    <3> QED BY <1>1, <1>6, <3>7 DEF Count
  <2>11. CountsAgree'
    BY <1>1, <2>9, <2>10 DEF CountsAgree
  <2>12. PeeledAreSettled'
    <3> SUFFICES ASSUME NEW c \in Vertices \ active PROVE Settled(c)'
      BY <1>1 DEF PeeledAreSettled
    <3> QED BY <1>1, <2>2, SettledStays
  <2> QED BY <1>4, <2>6, <2>7, <2>11, <2>12 DEF Sound
<1> QED BY <1>5, <1>6

LEMMA NoWrap ==
  ASSUME NEW x \in Nat, x <= Cardinality(Vertices)
  PROVE  uint32(x) = x
<1>1. Cardinality(Vertices) \in Nat /\ 2 ^ Width \in Nat /\ Cardinality(Vertices) < 2 ^ Width
  BY KCoreAssumption, FS_CardinalityType
<1> DEFINE p == 2 ^ Width
<1>2. p \in Nat /\ x < p
  BY <1>1
<1> HIDE DEF p
<1>3. x % p = x
  BY <1>2
<1> QED BY <1>3 DEF uint32, p

(* A worker that is not idle works at a vertex that is not sampled. *)
LEMMA WorkerHas ==
  ASSUME Sound, NEW w \in Workers, job[w] # Idle
  PROVE  /\ phase = "peel" /\ job[w].edge \in graph /\ job[w].edge[2] \in Vertices
         /\ job[w].at \in {"sub", "add", "remove"} /\ job[w] = [at |-> job[w].at, edge |-> job[w].edge]
         /\ job[w].edge[2] \notin sample_mode /\ Busy(job[w].edge[2])
<1>1. Types /\ graph \in Graphs /\ phase = "peel" /\ sample_mode \subseteq active
  BY DEF Sound, Types, PlacesAreApart
<1>2. /\ job[w].edge \in graph /\ job[w].at \in {"sub", "add", "remove"}
      /\ job[w] = [at |-> job[w].at, edge |-> job[w].edge]
  BY <1>1, JobIs
<1>3. job[w].edge[2] \in Vertices
  BY <1>1, <1>2, GraphIs
<1>4. Busy(job[w].edge[2])
  BY DEF Busy
<1>5. \A d \in sample_mode : ~ Busy(d)
  BY <1>1 DEF Sound, CountsAgree, Count, SampledCount
<1> QED BY <1>1, <1>2, <1>3, <1>4, <1>5

LEMMA PeelSubSound ==
  ASSUME Sound, NEW w \in Workers, PeelSub(w)
  PROVE  Sound'
<1>1. /\ job[w] # Idle /\ job[w].at = "sub"
      /\ frontier' = frontier /\ next_frontier' = next_frontier /\ active' = active /\ resample' = resample
      /\ sample_mode' = sample_mode /\ k' = k /\ no_reduce' = no_reduce /\ shards' = shards
      /\ phase' = phase /\ work' = work /\ graph' = graph
  BY DEF PeelSub, Idle
<1>edge. PICK e \in graph, d \in Vertices : e = job[w].edge /\ d = e[2]
  BY <1>1, WorkerHas
<1>2. /\ phase = "peel" /\ d \notin sample_mode /\ Busy(d)
      /\ job[w] = [at |-> "sub", edge |-> e] /\ Types
  BY <1>edge, <1>1, WorkerHas DEF Sound
<1>job. PICK next, j : /\ next = AfterSub(coreness[d])
                      /\ j = IF next = "idle" THEN Idle ELSE [at |-> next, edge |-> e]
  OBVIOUS
<1>3. job' = [job EXCEPT ![w] = j] /\ coreness' = [coreness EXCEPT ![d] = uint32(@ - 1)]
  <2>1. [job[w] EXCEPT !.at = next] = [at |-> next, edge |-> e]
    BY <1>2
  <2>2. job' = [job EXCEPT ![w] = IF next = "idle" THEN Idle ELSE [job[w] EXCEPT !.at = next]]
    BY <1>edge, <1>job, Zenon DEF PeelSub
  <2>3. coreness' = [coreness EXCEPT ![d] = uint32(@ - 1)]
    BY <1>edge, Zenon DEF PeelSub
  <2> QED BY <1>job, <2>1, <2>2, <2>3, Zenon
<1>4. /\ e[1] \notin Waiting /\ e \notin work /\ Waiting' = Waiting
      /\ \A u \in Workers : u # w => job[u] # job[w]
  BY <1>edge, <1>1, <1>2 DEF Sound, EdgesGoOnce, Waiting
<1>5. /\ next \in {"idle", "add", "remove"} /\ (j = Idle <=> next = "idle")
      /\ j.at = next /\ (j # Idle => j.edge = e) /\ j \in Jobs
  BY <1>job DEF AfterSub, Idle, Jobs
<1>6. coreness[d] \in Nat /\ coreness \in [Vertices -> Nat] /\ k \in Nat
  BY <1>2 DEF Types
<1>7. e \in Remaining(d) /\ e \in Subs(d)
  BY <1>edge, <1>2 DEF Remaining, Subs
<1>8. /\ Left(d) \in Nat /\ Left(d) <= Degree(d) /\ Degree(d) \in Nat /\ Left(d) > 0 /\ Added(d) \in Nat
      /\ Cardinality(Subs(d)) \in Nat /\ Cardinality(Subs(d)) > 0 /\ Cardinality(Subs(d)) <= Left(d)
      /\ IsFiniteSet(Remaining(d)) /\ IsFiniteSet(Subs(d)) /\ IsFiniteSet(Restoring(d))
      /\ Degree(d) < Cardinality(Vertices) /\ Cardinality(Vertices) \in Nat /\ k <= Cardinality(Vertices)
  <2>1. /\ Left(d) \in Nat /\ Left(d) <= Degree(d) /\ Added(d) \in Nat
        /\ Cardinality(Subs(d)) \in Nat /\ Cardinality(Subs(d)) <= Left(d)
        /\ IsFiniteSet(Remaining(d)) /\ IsFiniteSet(Subs(d)) /\ IsFiniteSet(Restoring(d))
    BY <1>2, CountsAre
  <2>2. /\ Degree(d) \in Nat /\ Degree(d) < Cardinality(Vertices) /\ Cardinality(Vertices) \in Nat
        /\ k <= Cardinality(Vertices)
    BY <1>2, DegreesAre DEF Types
  <2>3. Cardinality(Subs(d)) # 0
    BY <1>7, <2>1, FS_EmptySet
  <2> QED BY <2>1, <2>2, <2>3
(* What is counted at d: an active vertex that nobody removes yet, or one of which k is known. *)
<1>9. \/ /\ d \in active /\ ~ Removing(d) /\ coreness[d] = Left(d) /\ Restoring(d) = {} /\ coreness[d] > k
      \/ /\ d \in active /\ Removing(d) /\ coreness[d] + Added(d) = k /\ Left(d) + Added(d) <= k
      \/ /\ d \notin active /\ coreness[d] + Added(d) = k /\ Cardinality(Subs(d)) + Added(d) <= k
  <2>1. d \in active => Count(d)
    BY DEF Sound, CountsAgree
  <2>2. d \notin active => Settled(d)
    BY <1>2 DEF Sound, PeeledAreSettled
  <2> QED BY <1>2, <2>1, <2>2 DEF Count, ExactCount, RemovedCount, Settled
<1>10. coreness[d] > 0 /\ coreness[d] <= Cardinality(Vertices)
  <2>1. CASE coreness[d] = Left(d)
    BY <1>8, <2>1
  <2>2. CASE coreness[d] + Added(d) = k /\ (Left(d) + Added(d) <= k \/ Cardinality(Subs(d)) + Added(d) <= k)
    BY <1>6, <1>8, <2>2
  <2> QED BY <1>9, <2>1, <2>2
<1>11. coreness' \in [Vertices -> Nat] /\ coreness'[d] = coreness[d] - 1
       /\ \A c \in Vertices : c # d => coreness'[c] = coreness[c]
  <2>1. uint32(coreness[d] - 1) = coreness[d] - 1 /\ coreness[d] - 1 \in Nat
    BY <1>6, <1>8, <1>10, NoWrap
  <2> QED BY <1>3, <1>6, <2>1
<1>12. ASSUME NEW c PROVE Remaining(c)' = Remaining(c) \ {e}
  <2>1. ASSUME NEW a \in graph
        PROVE  (\E u \in Workers : job'[u] = [at |-> "sub", edge |-> a])
                 <=> (a # e /\ \E u \in Workers : job[u] = [at |-> "sub", edge |-> a])
    <3>1. j # [at |-> "sub", edge |-> a]
      BY <1>5
    <3>2. job'[w] = j /\ \A u \in Workers : u # w => job'[u] = job[u]
      BY <1>3 DEF Sound, Types
    <3> QED BY <1>2, <1>4, <3>1, <3>2
  <2> QED BY <1>1, <1>4, <2>1 DEF Remaining, Waiting
<1>13. ASSUME NEW c, c # d PROVE OthersWork(c) /\ Left(c)' = Left(c)
  <2>1. job[w].edge[2] # c /\ (j = Idle \/ j.edge[2] # c)
    BY <1>5, <1>13, <1>edge
  <2>2. OthersWork(c)
    <3> QED BY <1>1, <1>2, <1>3, <2>1, OthersStay
  <2>3. e \notin Remaining(c)
    BY <1>edge, <1>13 DEF Remaining
  <2> QED BY <1>12, <2>2, <2>3 DEF Left
<1>14. Left(d)' = Left(d) - 1
  <2>1. Cardinality(Remaining(d) \ {e}) = Cardinality(Remaining(d)) - 1
    BY <1>7, <1>8, FS_RemoveElement, <1>edge
  <2> QED BY <1>12, <2>1 DEF Left
<1>15. job'[w] = j /\ \A u \in Workers : u # w => job'[u] = job[u]
  BY <1>2, <1>3 DEF Types
<1>16. Subs(d)' = Subs(d) \ {e} /\ Cardinality(Subs(d)') = Cardinality(Subs(d)) - 1
  <2>1. ASSUME NEW a \in graph
        PROVE  (\E u \in Workers : job'[u] = [at |-> "sub", edge |-> a])
                 <=> (a # e /\ \E u \in Workers : job[u] = [at |-> "sub", edge |-> a])
    <3>1. j # [at |-> "sub", edge |-> a]
      BY <1>5
    <3> QED BY <1>2, <1>4, <1>15, <3>1
  <2>2. Subs(d)' = Subs(d) \ {e}
    BY <1>1, <2>1 DEF Subs
  <2>3. Cardinality(Subs(d) \ {e}) = Cardinality(Subs(d)) - 1
    BY <1>7, <1>8, FS_RemoveElement, <1>edge
  <2> QED BY <2>2, <2>3
<1>17. Types'
  <2>1. job' \in [Workers -> Jobs]
    BY <1>2, <1>3, <1>5 DEF Types
  <2>2. Jobs' = Jobs
    BY <1>1, GraphStays
  <2> QED BY <1>1, <1>2, <1>11, <2>1, <2>2 DEF Types
<1>18. PlacesAreApart' /\ CoresAreActive'
  <2>1. PlacesAreApart'
    BY <1>1, <1>2 DEF Sound, PlacesAreApart
  <2> QED BY <1>1, <2>1, GraphStays DEF Sound, CoresAreActive
<1>19. EdgesGoOnce'
  <2>1. \A u \in Workers : job'[u].at = "sub" => u # w /\ job'[u] = job[u]
    BY <1>5, <1>15
  <2> QED BY <1>1, <1>4, <2>1 DEF Sound, EdgesGoOnce
<1>20. OneRemoves' /\ (d \in active => Count(d)')
  <2>1. Idle.at = "idle" /\ \A u \in Workers : job'[u].at = "remove" /\ u # w => job[u].at = "remove" /\ job'[u] = job[u]
    BY <1>15 DEF Idle
  <2>2. CASE d \in active /\ ~ Removing(d)
    <3>1. coreness[d] = Left(d) /\ Restoring(d) = {} /\ coreness[d] > k /\ next # "add"
      BY <1>6, <1>9, <1>job, <2>2 DEF AfterSub
    <3>2. j.at # "add" /\ (j.at = "remove" => j.edge[2] = d) /\ (j.at = "remove" <=> coreness[d] = k + 1)
      BY <1>edge, <1>5, <1>6, <1>job, <3>1 DEF AfterSub, Idle
    <3>3. Restoring(d)' = {}
      BY <1>15, <3>1, <3>2 DEF Restoring
    <3>4. Removing(d)' <=> coreness[d] = k + 1
      BY <1>2, <1>15, <2>2, <3>2 DEF Removing
    <3>5. Added(d)' = 0
      BY <3>3, FS_EmptySet DEF Added
    <3>6. OneRemoves'
      <4>1. \A u \in Workers : job[u].at = "remove" => job[u].edge[2] # d
        BY <2>2 DEF Removing
      <4> QED BY <1>1, <1>15, <2>1, <2>2, <3>2, <4>1 DEF Sound, OneRemoves
    <3>7. CASE coreness[d] = k + 1
      <4>1. RemovedCount(d)'
        BY <1>1, <1>6, <1>8, <1>11, <1>14, <3>1, <3>5, <3>7 DEF RemovedCount
      <4> QED BY <1>1, <1>2, <3>4, <3>6, <3>7, <4>1 DEF Count
    <3>8. CASE coreness[d] # k + 1
      <4>1. ExactCount(d)'
        BY <1>1, <1>6, <1>8, <1>11, <1>14, <3>1, <3>3, <3>8 DEF ExactCount
      <4> QED BY <1>1, <1>2, <3>4, <3>6, <3>8, <4>1 DEF Count
    <3> QED BY <3>7, <3>8
  <2>3. CASE d \notin active \/ Removing(d)
    <3>1. /\ coreness[d] + Added(d) = k /\ coreness[d] <= k /\ next = "add"
          /\ d \in active => Left(d) + Added(d) <= k /\ Removing(d)
      BY <1>6, <1>8, <1>9, <1>job, <2>3 DEF AfterSub
    <3>2. j.at = "add" /\ j.edge = e
      BY <1>5, <3>1
    <3>3. OneRemoves'
      <4>1. \A u \in Workers : job'[u].at = "remove" => job[u].at = "remove" /\ job'[u] = job[u]
        BY <2>1, <1>15, <3>2
      <4> QED BY <1>1, <4>1 DEF Sound, OneRemoves
    <3>4. ASSUME d \in active PROVE Count(d)'
      <4>1. Added(d)' = Added(d) + 1
        <5>1. Restoring(d)' = Restoring(d) \cup {w} /\ w \notin Restoring(d)
          BY <1>edge, <1>1, <1>15, <3>2 DEF Restoring
        <5> QED BY <1>8, <5>1, FS_AddElement DEF Added
      <4>2. Removing(d)'
        <5>1. PICK u \in Workers : job[u].at = "remove" /\ job[u].edge[2] = d
          BY <3>1, <3>4 DEF Removing
        <5>2. job'[u] = job[u]
          BY <1>1, <1>15, <5>1
        <5> QED BY <5>1, <5>2 DEF Removing
      <4>3. RemovedCount(d)'
        BY <1>1, <1>6, <1>8, <1>11, <1>14, <3>1, <3>4, <4>1 DEF RemovedCount
      <4> QED BY <1>1, <1>2, <4>2, <4>3 DEF Count
    <3> QED BY <3>3, <3>4
  <2> QED BY <2>2, <2>3
<1>21. CountsAgree'
  <2> SUFFICES ASSUME NEW c \in active, c # d PROVE Count(c)'
    BY <1>1, <1>20 DEF CountsAgree
  <2>1. Untouched(c) /\ OthersWork(c)
    BY <1>1, <1>2, <1>11, <1>13 DEF Untouched, Types
  <2> QED BY <1>1, <1>2, <2>1, CountStays
<1>22. PeeledAreSettled'
  <2> SUFFICES ASSUME NEW c \in Vertices \ active PROVE Settled(c)'
    BY <1>1 DEF PeeledAreSettled
  <2>1. CASE c # d
    BY <1>1, <1>11, <1>13, <2>1, SettledStays
  <2>2. CASE c = d
    <3>1. coreness[d] + Added(d) = k /\ Cardinality(Subs(d)) + Added(d) <= k /\ next = "add"
      BY <1>6, <1>8, <1>9, <1>job, <2>2 DEF AfterSub
    <3>2. j.at = "add" /\ j.edge = e
      BY <1>5, <3>1
    <3>3. Added(d)' = Added(d) + 1
      <4>1. Restoring(d)' = Restoring(d) \cup {w} /\ w \notin Restoring(d)
        BY <1>edge, <1>1, <1>15, <3>2 DEF Restoring
      <4> QED BY <1>8, <4>1, FS_AddElement DEF Added
    <3>4. coreness'[d] + Added(d)' = k /\ Cardinality(Subs(d)') + Added(d)' <= k
      BY <1>6, <1>8, <1>11, <1>16, <3>1, <3>3
    <3>5. d \in Core(k) /\ d \notin Core(k + 1)
      BY <2>2, <3>1 DEF Sound, PeeledAreSettled, Settled
    <3> QED BY <1>1, <2>2, <3>4, <3>5, GraphStays
  <2> QED BY <2>1, <2>2
<1> QED BY <1>17, <1>18, <1>19, <1>20, <1>21, <1>22 DEF Sound

LEMMA PeelAddSound ==
  ASSUME Sound, NEW w \in Workers, PeelAdd(w)
  PROVE  Sound'
<1>1. /\ job[w] # Idle /\ job[w].at = "add" /\ job' = [job EXCEPT ![w] = Idle]
      /\ frontier' = frontier /\ next_frontier' = next_frontier /\ active' = active /\ resample' = resample
      /\ sample_mode' = sample_mode /\ k' = k /\ no_reduce' = no_reduce /\ shards' = shards
      /\ phase' = phase /\ work' = work /\ graph' = graph
  BY DEF PeelAdd, Idle
<1>2. PICK d \in Vertices : d = job[w].edge[2]
  BY <1>1, WorkerHas
<1>3. phase = "peel" /\ d \notin sample_mode /\ Busy(d) /\ Types
  BY <1>1, <1>2, WorkerHas DEF Sound
<1>4. job'[w] = Idle /\ \A u \in Workers : u # w => job'[u] = job[u]
  BY <1>1, <1>3 DEF Types
<1>5. Idle.at = "idle"
  BY DEF Idle
<1>6. /\ Added(d) \in Nat /\ Left(d) \in Nat /\ coreness \in [Vertices -> Nat] /\ coreness[d] \in Nat
      /\ IsFiniteSet(Restoring(d)) /\ k \in Nat /\ k <= Cardinality(Vertices) /\ Cardinality(Vertices) \in Nat
      /\ Cardinality(Subs(d)) \in Nat
  BY <1>3, CountsAre, DegreesAre DEF Types
<1>7. w \in Restoring(d)
  BY <1>1, <1>2 DEF Restoring
<1>8. Added(d)' = Added(d) - 1 /\ Added(d) > 0
  <2>1. Restoring(d)' = Restoring(d) \ {w}
    BY <1>4, <1>5 DEF Restoring
  <2>2. Cardinality(Restoring(d) \ {w}) = Cardinality(Restoring(d)) - 1
    BY <1>6, <1>7, FS_RemoveElement
  <2>3. Cardinality(Restoring(d)) # 0
    BY <1>6, <1>7, FS_EmptySet
  <2> QED BY <1>6, <2>1, <2>2, <2>3 DEF Added
<1>9. /\ coreness[d] + Added(d) = k
      /\ d \in active => Removing(d) /\ Left(d) + Added(d) <= k
      /\ d \notin active => Cardinality(Subs(d)) + Added(d) <= k
  <2>1. d \in active => Count(d)
    BY DEF Sound, CountsAgree
  <2>2. d \notin active => Settled(d)
    BY DEF Sound, PeeledAreSettled
  <2> QED BY <1>3, <1>7, <2>1, <2>2 DEF Count, ExactCount, RemovedCount, Settled
<1>10. coreness' \in [Vertices -> Nat] /\ coreness'[d] = coreness[d] + 1
       /\ \A c \in Vertices : c # d => coreness'[c] = coreness[c]
  <2>1. coreness[d] + 1 \in Nat /\ coreness[d] + 1 <= Cardinality(Vertices)
    BY <1>6, <1>8, <1>9
  <2>2. uint32(coreness[d] + 1) = coreness[d] + 1
    BY <2>1, NoWrap
  <2>3. coreness' = [coreness EXCEPT ![d] = uint32(@ + 1)]
    BY <1>2, Zenon DEF PeelAdd
  <2> QED BY <1>6, <2>1, <2>2, <2>3
<1>11. \A c : Remaining(c)' = Remaining(c) /\ Left(c)' = Left(c) /\ Subs(c)' = Subs(c)
  <2>1. \A e : /\ job[w] # [at |-> "sub", edge |-> e]
               /\ Idle # [at |-> "sub", edge |-> e]
    BY <1>1, <1>5
  <2>2. \A e : (\E u \in Workers : job'[u] = [at |-> "sub", edge |-> e])
                 <=> (\E u \in Workers : job[u] = [at |-> "sub", edge |-> e])
    BY <1>4, <2>1
  <2>3. \A c : Remaining(c)' = Remaining(c)
    BY <1>1, <2>2 DEF Remaining
  <2>4. \A c : Subs(c)' = Subs(c)
    BY <1>1, <2>2 DEF Subs
  <2> QED BY <2>3, <2>4 DEF Left
<1>12. ASSUME NEW c, c # d PROVE OthersWork(c)
  BY <1>1, <1>2, <1>3, <1>12, OthersStay
<1>13. Types'
  <2>1. job' \in [Workers -> Jobs]
    BY <1>1, <1>3 DEF Types, Jobs
  <2>2. Jobs' = Jobs
    BY <1>1, GraphStays
  <2> QED BY <1>1, <1>3, <1>10, <2>1, <2>2 DEF Types
<1>14. PlacesAreApart' /\ CoresAreActive'
  <2>1. PlacesAreApart'
    BY <1>1, <1>3 DEF Sound, PlacesAreApart
  <2> QED BY <1>1, <2>1, GraphStays DEF Sound, CoresAreActive
<1>15. EdgesGoOnce'
  <2>1. \A u \in Workers : job'[u].at = "sub" => u # w /\ job'[u] = job[u]
    BY <1>4, <1>5
  <2> QED BY <1>1, <2>1 DEF Sound, EdgesGoOnce, Waiting
<1>16. OneRemoves'
  <2>1. \A u \in Workers : job'[u].at = "remove" => u # w /\ job'[u] = job[u]
    BY <1>4, <1>5
  <2> QED BY <1>1, <2>1 DEF Sound, OneRemoves
<1>17. CountsAgree'
  <2> SUFFICES ASSUME NEW c \in active PROVE Count(c)'
    BY <1>1 DEF CountsAgree
  <2>1. CASE c # d
    <3>1. Untouched(c) /\ OthersWork(c)
      BY <1>1, <1>3, <1>10, <1>11, <1>12, <2>1 DEF Untouched, Types
    <3> QED BY <1>1, <1>3, <3>1, CountStays
  <2>2. CASE c = d
    <3>1. Removing(d)'
      <4>1. PICK u \in Workers : job[u].at = "remove" /\ job[u].edge[2] = d
        BY <1>9, <2>2 DEF Removing
      <4>2. job'[u] = job[u]
        BY <1>1, <1>4, <4>1
      <4> QED BY <4>1, <4>2 DEF Removing
    <3>2. Left(d)' = Left(d) /\ Left(d) + Added(d) <= k
      BY <1>9, <1>11, <2>2
    <3>3. coreness'[d] + Added(d)' = k /\ Left(d)' + Added(d)' <= k
      BY <1>6, <1>8, <1>9, <1>10, <3>2
    <3>4. RemovedCount(d)'
      BY <1>1, <3>3 DEF RemovedCount
    <3> QED BY <1>1, <1>3, <2>2, <3>1, <3>4 DEF Count
  <2> QED BY <2>1, <2>2
<1>18. PeeledAreSettled'
  <2> SUFFICES ASSUME NEW c \in Vertices \ active PROVE Settled(c)'
    BY <1>1 DEF PeeledAreSettled
  <2>1. CASE c # d
    BY <1>1, <1>10, <1>12, <2>1, SettledStays
  <2>2. CASE c = d
    <3>1. Subs(d)' = Subs(d) /\ Cardinality(Subs(d)) + Added(d) <= k
      BY <1>9, <1>11, <2>2
    <3>2. coreness'[d] + Added(d)' = k /\ Cardinality(Subs(d)') + Added(d)' <= k
      BY <1>6, <1>8, <1>9, <1>10, <3>1
    <3>3. d \in Core(k) /\ d \notin Core(k + 1)
      BY <1>9, <2>2 DEF Sound, PeeledAreSettled, Settled
    <3> QED BY <1>1, <2>2, <3>2, <3>3, GraphStays
  <2> QED BY <2>1, <2>2
<1> QED BY <1>13, <1>14, <1>15, <1>16, <1>17, <1>18 DEF Sound

LEMMA RemoveSound ==
  ASSUME Sound, NEW w \in Workers, Remove(w)
  PROVE  Sound'
<1>1. /\ job[w] # Idle /\ job[w].at = "remove" /\ job' = [job EXCEPT ![w] = Idle]
      /\ coreness' = coreness /\ frontier' = frontier /\ resample' = resample
      /\ sample_mode' = sample_mode /\ k' = k /\ no_reduce' = no_reduce /\ shards' = shards
      /\ phase' = phase /\ graph' = graph
  BY DEF Remove, Idle
<1>2. PICK d \in Vertices : d = job[w].edge[2]
  BY <1>1, WorkerHas
<1>3. /\ active' = active \ {d}
      /\ \/ work' = {e \in work : e[2] # d} \cup OpenEdges(d) /\ next_frontier' = next_frontier
         \/ work' = {e \in work : e[2] # d} /\ next_frontier' = next_frontier \cup {d}
  BY <1>2 DEF Remove, Without
<1>4. phase = "peel" /\ d \notin sample_mode /\ Busy(d) /\ Types
  BY <1>1, <1>2, WorkerHas DEF Sound
<1>5. job'[w] = Idle /\ \A u \in Workers : u # w => job'[u] = job[u]
  BY <1>1, <1>4 DEF Types
<1>6. Idle.at = "idle"
  BY DEF Idle
<1>7. d \in active /\ d \notin frontier /\ d \notin next_frontier /\ d \in Waiting /\ graph \in Graphs
      /\ \A u \in Workers : job[u].at = "remove" /\ job[u].edge[2] = d => u = w
  BY <1>1, <1>2, <1>4 DEF Sound, OneRemoves, PlacesAreApart, Waiting, Types
<1>8. RemovedCount(d)
  <2>1. Removing(d)
    BY <1>1, <1>2 DEF Removing
  <2> QED BY <1>4, <1>7, <2>1 DEF Sound, CountsAgree, Count
<1>9. \A c : Subs(c)' = Subs(c) /\ Restoring(c)' = Restoring(c) /\ Added(c)' = Added(c)
  <2>1. \A e : /\ job[w] # [at |-> "sub", edge |-> e]
               /\ Idle # [at |-> "sub", edge |-> e]
    BY <1>1, <1>6
  <2>2. \A c : Subs(c)' = Subs(c)
    BY <1>1, <1>5, <2>1 DEF Subs
  <2>3. \A c : Restoring(c)' = Restoring(c)
    BY <1>1, <1>5, <1>6 DEF Restoring
  <2> QED BY <2>2, <2>3 DEF Added
<1>10. ASSUME NEW c, c # d PROVE OthersWork(c)
  BY <1>1, <1>2, <1>4, <1>10, OthersStay
<1>11. Waiting' \subseteq Waiting
  BY <1>1, <1>3, <1>7 DEF Waiting
<1>12. /\ work \subseteq graph
       /\ \A e \in graph : e[2] # d /\ e[2] \in active =>
            (e[1] \in Waiting' \/ e \in work' <=> e[1] \in Waiting \/ e \in work)
  <2>1. work \subseteq graph
    BY <1>4 DEF Types
  <2>2. CASE work' = {e \in work : e[2] # d} \cup OpenEdges(d) /\ next_frontier' = next_frontier
    <3>1. Waiting' = Waiting \ {d}
      BY <1>1, <1>3, <1>7, <2>2 DEF Waiting
    <3> QED BY <1>7, <2>1, <2>2, <3>1 DEF OpenEdges
  <2>3. CASE work' = {e \in work : e[2] # d} /\ next_frontier' = next_frontier \cup {d}
    <3>1. Waiting' = Waiting
      BY <1>1, <1>3, <1>7, <2>3 DEF Waiting
    <3> QED BY <2>1, <2>3, <3>1
  <2> QED BY <1>3, <2>1, <2>2, <2>3
<1>13. ASSUME NEW c \in active, c # d PROVE Left(c)' = Left(c)
  <2>1. \A e : /\ job[w] # [at |-> "sub", edge |-> e]
               /\ Idle # [at |-> "sub", edge |-> e]
    BY <1>1, <1>6
  <2>2. \A e : (\E u \in Workers : job'[u] = [at |-> "sub", edge |-> e])
                 <=> (\E u \in Workers : job[u] = [at |-> "sub", edge |-> e])
    BY <1>5, <2>1
  <2>3. Remaining(c)' = Remaining(c)
    <3>1. \A e \in graph : e[2] = c => (e[1] \in Waiting' \/ e \in work' <=> e[1] \in Waiting \/ e \in work)
      BY <1>12, <1>13
    <3> QED BY <1>1, <2>2, <3>1 DEF Remaining, Waiting
  <2> QED BY <2>3 DEF Left
<1>14. Types'
  <2>1. job' \in [Workers -> Jobs]
    BY <1>1, <1>4 DEF Types, Jobs
  <2>2. Jobs' = Jobs
    BY <1>1, GraphStays
  <2>3. work' \subseteq graph
    BY <1>3, <1>12 DEF OpenEdges
  <2>4. active' \subseteq Vertices /\ next_frontier' \subseteq Vertices /\ sample_mode' \subseteq active'
    BY <1>1, <1>3, <1>4 DEF Types
  <2> QED BY <1>1, <1>4, <2>1, <2>2, <2>3, <2>4 DEF Types
<1>15. PlacesAreApart'
  BY <1>1, <1>3, <1>4, <1>7 DEF Sound, PlacesAreApart
<1>16. EdgesGoOnce'
  <2>1. \A e \in work' : e[1] \notin Waiting' /\ e[2] \in active'
    <3>1. \A e \in work : e[1] \notin Waiting' /\ (e[2] # d => e[2] \in active')
      BY <1>3, <1>11 DEF Sound, EdgesGoOnce
    <3>2. \A e \in OpenEdges(d) : e[2] \in active'
      BY <1>3, <1>7, GraphIs DEF OpenEdges
    <3>3. CASE work' = {e \in work : e[2] # d} \cup OpenEdges(d) /\ next_frontier' = next_frontier
      <4>1. d \notin Waiting'
        BY <1>1, <1>3, <1>7, <3>3 DEF Waiting
      <4> QED BY <3>1, <3>2, <3>3, <4>1 DEF OpenEdges
    <3>4. CASE work' = {e \in work : e[2] # d}
      BY <3>1, <3>4
    <3> QED BY <1>3, <3>3, <3>4
  <2>2. \A u \in Workers : job'[u].at = "sub" => u # w /\ job'[u] = job[u]
    BY <1>5, <1>6
  <2>3. \A u \in Workers : job[u].at = "sub" => job[u].edge \notin work' /\ job[u].edge[1] \notin Waiting'
    <3>1. \A u \in Workers : job[u].at = "sub" => job[u].edge \notin work /\ job[u].edge[1] \notin Waiting
      BY DEF Sound, EdgesGoOnce
    <3>2. \A u \in Workers : job[u].at = "sub" => job[u].edge \notin OpenEdges(d)
      BY <1>7, <3>1 DEF OpenEdges
    <3> QED BY <1>3, <1>11, <3>1, <3>2
  <2> QED BY <2>1, <2>2, <2>3 DEF Sound, EdgesGoOnce
<1>17. OneRemoves'
  <2>1. \A u \in Workers : job'[u].at = "remove" => u # w /\ job'[u] = job[u]
    BY <1>5, <1>6
  <2> QED BY <1>3, <1>7, <2>1 DEF Sound, OneRemoves
<1>18. CountsAgree'
  <2> SUFFICES ASSUME NEW c \in active, c # d PROVE Count(c)'
    BY <1>3 DEF CountsAgree
  <2>1. Untouched(c) /\ OthersWork(c)
    BY <1>1, <1>10, <1>13 DEF Untouched
  <2> QED BY <1>1, <1>4, <2>1, CountStays
<1>19. d \notin Core(k + 1)
  <2>1. Left(d) <= k /\ Left(d) \in Nat /\ k \in Nat
    <3>1. /\ Left(d) \in Nat /\ Added(d) \in Nat /\ k \in Nat /\ Left(d) + Added(d) <= k
      BY <1>4, <1>8, CountsAre DEF RemovedCount, Types
    <3> QED BY <3>1
  <2>2. ~ Left(d) >= k + 1
    BY <2>1
  <2> QED BY <2>2, LeftOfCore DEF Sound, CoresAreActive
<1>20. PeeledAreSettled'
  <2> SUFFICES ASSUME NEW c \in Vertices, c \notin active \/ c = d PROVE Settled(c)'
    BY <1>3 DEF PeeledAreSettled
  <2>1. CASE c # d
    BY <1>1, <1>10, <2>1, SettledStays
  <2>2. CASE c = d
    <3>1. coreness[d] + Added(d) = k /\ Cardinality(Subs(d)) + Added(d) <= k
      <4>1. /\ Left(d) \in Nat /\ Added(d) \in Nat /\ k \in Nat /\ Left(d) + Added(d) <= k
            /\ Cardinality(Subs(d)) \in Nat /\ Cardinality(Subs(d)) <= Left(d)
            /\ coreness[d] + Added(d) = k
        BY <1>4, <1>8, CountsAre DEF RemovedCount, Types
      <4> QED BY <4>1
    <3>2. coreness'[d] + Added(d)' = k /\ Cardinality(Subs(d)') + Added(d)' <= k
      BY <1>1, <1>9, <3>1
    <3>3. d \in Core(k)
      BY <1>7 DEF Sound, CoresAreActive
    <3> QED BY <1>1, <1>19, <2>2, <3>2, <3>3, GraphStays
  <2> QED BY <2>1, <2>2
<1>21. CoresAreActive'
  BY <1>1, <1>3, <1>19, GraphStays DEF Sound, CoresAreActive
<1> QED BY <1>14, <1>15, <1>16, <1>17, <1>18, <1>20, <1>21 DEF Sound

LEMMA ConsumedSound ==
  ASSUME Sound, Consumed
  PROVE  Sound'
<1>1. /\ phase = "peel" /\ frontier = {} /\ work = {} /\ phase' = "resample"
      /\ coreness' = coreness /\ frontier' = frontier /\ next_frontier' = next_frontier /\ active' = active
      /\ resample' = resample /\ sample_mode' = sample_mode /\ k' = k /\ no_reduce' = no_reduce
      /\ shards' = shards /\ work' = work /\ job' = job /\ graph' = graph
      /\ \A w \in Workers : job[w] = Idle
  BY DEF Consumed
<1>2. \A d : OthersWork(d) /\ Untouched(d)
  BY <1>1, JobsStay, EdgesStay DEF OthersWork, Untouched
<1>3. Types'
  <2>1. Jobs' = Jobs
    BY <1>1, GraphStays
  <2> QED BY <1>1, <2>1 DEF Sound, Types
<1>4. PlacesAreApart'
  <2>1. Idle' = Idle
    BY DEF Idle
  <2> QED BY <1>1, <2>1 DEF Sound, PlacesAreApart
<1>5. EdgesGoOnce' /\ OneRemoves'
  BY <1>1, EdgesStay DEF Sound, EdgesGoOnce, OneRemoves
<1>6. CountsAgree'
  <2> SUFFICES ASSUME NEW c \in active PROVE Count(c)'
    BY <1>1 DEF CountsAgree
  <2> QED BY <1>1, <1>2, CountStays
<1>7. PeeledAreSettled'
  <2> SUFFICES ASSUME NEW c \in Vertices \ active PROVE Settled(c)'
    BY <1>1 DEF PeeledAreSettled
  <2> QED BY <1>1, <1>2, SettledStays
<1>8. CoresAreActive'
  BY <1>1, GraphStays DEF Sound, CoresAreActive
<1> QED BY <1>3, <1>4, <1>5, <1>6, <1>7, <1>8 DEF Sound

-----------------------------------------------------------------------------
(* The resample phase, the next pass, and the beginning. *)

LEMMA ResampleSound ==
  ASSUME Sound, NEW s \in Vertices, Resample(s)
  PROVE  Sound'
<1>1. PICK f, remaining : f = shards[s] /\ remaining = Total(f)
  OBVIOUS
<1>2. /\ phase = "resample" /\ s \in resample /\ resample' = resample \ {s}
      /\ frontier' = frontier /\ k' = k /\ no_reduce' = no_reduce /\ phase' = phase /\ work' = work
      /\ job' = job /\ graph' = graph
  BY DEF Resample
<1>3. \/ /\ ~ remaining <= sample_threshold /\ coreness' = coreness /\ sample_mode' = sample_mode
         /\ shards' = [shards EXCEPT ![s] = distribute(remaining)]
         /\ active' = active /\ next_frontier' = next_frontier
      \/ /\ remaining <= sample_threshold /\ coreness' = [coreness EXCEPT ![s] = uint32(LeftWith(remaining))]
         /\ sample_mode' = sample_mode \ {s} /\ shards' = [shards EXCEPT ![s] = Unused]
         /\ \/ remaining <= 0 /\ active' = active \ {s} /\ next_frontier' = next_frontier \cup {s}
            \/ ~ remaining <= 0 /\ active' = active /\ next_frontier' = next_frontier
  <2>1. /\ coreness' = [coreness EXCEPT ![s] = IF remaining <= sample_threshold
                                                THEN uint32(LeftWith(remaining)) ELSE @]
        /\ shards' = [shards EXCEPT ![s] = IF remaining <= sample_threshold THEN Unused ELSE distribute(remaining)]
        /\ sample_mode' = IF remaining <= sample_threshold THEN sample_mode \ {s} ELSE sample_mode
        /\ active' = IF remaining <= sample_threshold /\ remaining <= 0 THEN active \ {s} ELSE active
        /\ next_frontier' = IF remaining <= sample_threshold /\ remaining <= 0
                              THEN next_frontier \cup {s} ELSE next_frontier
    BY <1>1, Zenon DEF Resample, Without
  <2>2. coreness = [coreness EXCEPT ![s] = @]
    BY DEF Sound, Types
  <2>3. CASE remaining <= sample_threshold
    BY <2>1, <2>3
  <2>4. CASE ~ remaining <= sample_threshold
    BY <2>1, <2>2, <2>4, Zenon
  <2> QED BY <2>3, <2>4
<1>4. /\ frontier = {} /\ work = {} /\ \A w \in Workers : job[w] = Idle
      /\ \A d \in Vertices : Restoring(d) = {} /\ Added(d) = 0 /\ ~ Busy(d) /\ ~ Removing(d)
  BY <1>2, QuietHas
<1>5. /\ s \in sample_mode /\ s \in active /\ Types /\ f \in [Workers -> Int]
      /\ shards \in [Vertices -> [Workers -> Int]] /\ coreness \in [Vertices -> Nat]
      /\ sample_mode \subseteq active /\ resample \subseteq sample_mode
  BY <1>1, <1>2 DEF Sound, Types
<1>6. remaining \in Int /\ remaining + k = Left(s) /\ coreness[s] = Degree(s)
  <2>1. SampledCount(s)
    BY <1>5 DEF Sound, CountsAgree, Count
  <2>2. remaining \in Int
    <3>1. 0 \in Workers
      BY KCoreAssumption DEF Workers
    <3> QED BY <1>1, <1>5, <3>1, TotalAdds
  <2> QED BY <1>1, <2>1, <2>2 DEF SampledCount
<1>7. /\ Left(s) \in Nat /\ Left(s) <= Cardinality(Vertices) /\ k \in Nat /\ k <= Cardinality(Vertices)
      /\ Cardinality(Vertices) \in Nat
  <2>1. Left(s) \in Nat /\ Left(s) <= Degree(s) /\ k \in Nat /\ k <= Cardinality(Vertices) /\ graph \in Graphs
    BY <1>5, CountsAre DEF Types
  <2>2. Degree(s) \in Nat /\ Degree(s) < Cardinality(Vertices) /\ Cardinality(Vertices) \in Nat
    BY <2>1, DegreesAre
  <2> QED BY <2>1, <2>2
<1>8. Waiting' = Waiting
  BY <1>2, <1>3, <1>5 DEF Waiting
<1>9. \A d : Left(d)' = Left(d) /\ OthersWork(d)
  <2>1. \A d : Remaining(d)' = Remaining(d)
    <3>1. active' \cup frontier' \cup next_frontier' = active \cup frontier \cup next_frontier
      BY <1>8 DEF Waiting
    <3> QED BY <1>2, <3>1 DEF Remaining
  <2>2. \A d : OthersWork(d)
    BY <1>2, JobsStay DEF OthersWork
  <2> QED BY <2>1, <2>2 DEF Left
<1>10. \A c \in Vertices : c # s => shards'[c] = shards[c] /\ coreness'[c] = coreness[c]
  BY <1>3, <1>5
<1>11. uint32(LeftWith(remaining)) = (IF remaining <= 0 THEN k ELSE Left(s))
  <2>1. LeftWith(remaining) = IF remaining <= 0 THEN k ELSE Left(s)
    <3> DEFINE S == {k, remaining + k}
    <3>1. S \in SUBSET Int
      BY <1>6, <1>7
    <3>2. CASE remaining <= 0
      <4>1. \A q \in S : q <= k
        BY <1>6, <1>7, <3>2
      <4>2. Max(S) = k
        BY <3>1, <4>1, MaxWhenGreatest
      <4> QED BY <3>2, <4>2 DEF LeftWith
    <3>3. CASE ~ remaining <= 0
      <4>1. remaining + k \in S /\ \A q \in S : q <= remaining + k
        BY <1>6, <1>7, <3>3
      <4>2. PICK m \in S : m = remaining + k /\ \A q \in S : q <= m
        BY <4>1
      <4>3. Max(S) = m
        BY <3>1, <4>2, MaxWhenGreatest
      <4> QED BY <1>6, <3>3, <4>2, <4>3 DEF LeftWith
    <3> QED BY <3>2, <3>3
  <2>2. uint32(k) = k /\ uint32(Left(s)) = Left(s)
    BY <1>7, NoWrap
  <2> QED BY <2>1, <2>2
<1>12. ASSUME ~ remaining <= sample_threshold
       PROVE  distribute(remaining) \in [Workers -> Int] /\ Total(distribute(remaining)) = remaining
              /\ \A w \in Workers : distribute(remaining)[w] > 0
  <2>1. remaining \in Nat /\ remaining >= W
    BY <1>6, <1>12, KCoreAssumption
  <2> QED BY <2>1, DistributeKeeps
<1>13. Types'
  <2>1. Unused \in [Workers -> Int]
    BY DEF Unused
  <2>2. shards' \in [Vertices -> [Workers -> Int]]
    BY <1>3, <1>5, <1>12, <2>1
  <2>3. coreness' \in [Vertices -> Nat]
    <3>1. uint32(LeftWith(remaining)) \in Nat
      BY <1>7, <1>11
    <3> QED BY <1>3, <1>5, <3>1
  <2>4. sample_mode' \subseteq active' /\ resample' \subseteq sample_mode' /\ active' \subseteq Vertices
        /\ next_frontier' \subseteq Vertices
    BY <1>2, <1>3, <1>5 DEF Types
  <2>5. Jobs' = Jobs
    BY <1>2, GraphStays
  <2> QED BY <1>2, <1>5, <2>2, <2>3, <2>4, <2>5 DEF Types
<1>14. PlacesAreApart'
  <2>1. Idle' = Idle
    BY DEF Idle
  <2> QED BY <1>2, <1>3, <1>4, <1>5, <2>1 DEF Sound, PlacesAreApart
<1>15. EdgesGoOnce' /\ OneRemoves'
  <2>1. Idle.at = "idle"
    BY DEF Idle
  <2> QED BY <1>2, <1>4, <2>1 DEF EdgesGoOnce, OneRemoves
<1>16. s \in active' => Count(s)'
  <2>1. CASE ~ remaining <= sample_threshold
    <3>1. s \in sample_mode' /\ coreness'[s] = coreness[s] /\ shards'[s] = distribute(remaining)
      BY <1>3, <1>5, <2>1
    <3>2. Total(shards'[s]) + k' = Left(s)' /\ \A w \in Workers : shards'[s][w] > 0
      BY <1>2, <1>6, <1>9, <1>12, <2>1, <3>1
    <3>3. Degree(s)' = Degree(s) /\ ~ Busy(s)'
      BY <1>2, <1>4, <1>9, GraphStays DEF OthersWork
    <3>4. SampledCount(s)'
      BY <1>6, <3>1, <3>2, <3>3 DEF SampledCount
    <3> QED BY <3>1, <3>4 DEF Count
  <2>2. CASE remaining <= sample_threshold /\ ~ remaining <= 0
    <3>1. s \notin sample_mode' /\ coreness'[s] = Left(s) /\ Left(s) > k
      BY <1>3, <1>5, <1>6, <1>7, <1>11, <2>2
    <3>2. Restoring(s)' = {} /\ ~ Removing(s)'
      BY <1>4, <1>9 DEF OthersWork
    <3>3. ExactCount(s)'
      BY <1>2, <1>7, <1>9, <3>1, <3>2 DEF ExactCount
    <3> QED BY <3>1, <3>2, <3>3 DEF Count
  <2>3. CASE remaining <= sample_threshold /\ remaining <= 0
    BY <1>3, <2>3
  <2> QED BY <2>1, <2>2, <2>3
<1>17. CountsAgree'
  <2>1. active' \subseteq active
    BY <1>3
  <2> SUFFICES ASSUME NEW c \in active, c # s PROVE Count(c)'
    BY <1>16, <2>1 DEF CountsAgree
  <2>2. Untouched(c)
    BY <1>2, <1>3, <1>5, <1>9, <1>10 DEF Untouched, Types
  <2> QED BY <1>2, <1>9, <2>2, CountStays
<1>18. active' = active \/ (active' = active \ {s} /\ Left(s) <= k /\ coreness'[s] = k)
  BY <1>3, <1>5, <1>6, <1>7, <1>11
<1>19. active' # active => s \notin Core(k + 1)
  <2> SUFFICES ASSUME Left(s) <= k, s \in Core(k + 1) PROVE FALSE
    BY <1>18
  <2>1. Left(s) >= k + 1
    BY LeftOfCore DEF Sound, CoresAreActive
  <2> QED BY <1>7, <2>1
<1>20. PeeledAreSettled'
  <2> SUFFICES ASSUME NEW c \in Vertices, c \notin active' PROVE Settled(c)'
    BY DEF PeeledAreSettled
  <2>1. CASE c \notin active
    <3>1. coreness'[c] = coreness[c]
      BY <1>5, <1>10, <2>1
    <3> QED BY <1>2, <1>9, <2>1, <3>1, SettledStays
  <2>2. CASE c \in active
    <3>1. c = s /\ coreness'[s] = k /\ active' # active
      BY <1>18, <2>2
    <3>2. ~ Busy(s)' /\ Added(s)' = 0
      BY <1>4, <1>9 DEF OthersWork
    <3>3. s \in Core(k) /\ s \notin Core(k + 1)
      BY <1>5, <1>19, <3>1 DEF Sound, CoresAreActive
    <3>4. coreness'[s] + Added(s)' = k
      BY <1>7, <3>1, <3>2
    <3> QED BY <1>2, <3>1, <3>2, <3>3, <3>4, GraphStays
  <2> QED BY <2>1, <2>2
<1>21. CoresAreActive'
  BY <1>2, <1>18, <1>19, GraphStays DEF Sound, CoresAreActive
<1> QED BY <1>13, <1>14, <1>15, <1>17, <1>20, <1>21 DEF Sound

LEMMA SwapSound ==
  ASSUME Sound, Swap
  PROVE  Sound'
<1>1. /\ phase = "resample" /\ resample = {} /\ frontier' = next_frontier /\ next_frontier' = {}
      /\ phase' = (IF next_frontier = {} THEN "round" ELSE "peel")
      /\ coreness' = coreness /\ active' = active /\ resample' = resample /\ sample_mode' = sample_mode
      /\ k' = k /\ no_reduce' = no_reduce /\ shards' = shards /\ work' = work /\ job' = job /\ graph' = graph
  BY DEF Swap
<1>2. frontier = {} /\ work = {} /\ \A w \in Workers : job[w] = Idle
  BY <1>1, QuietHas
<1>3. Waiting' = Waiting
  BY <1>1, <1>2 DEF Waiting
<1>4. \A d : OthersWork(d) /\ Untouched(d)
  <2>1. \A d : Remaining(d)' = Remaining(d)
    <3>1. active' \cup frontier' \cup next_frontier' = active \cup frontier \cup next_frontier
      BY <1>3 DEF Waiting
    <3> QED BY <1>1, <3>1 DEF Remaining
  <2>2. \A d : OthersWork(d)
    BY <1>1, JobsStay DEF OthersWork
  <2> QED BY <1>1, <2>1, <2>2 DEF Untouched, Left
<1>5. Types'
  <2>1. Jobs' = Jobs
    BY <1>1, GraphStays
  <2> QED BY <1>1, <2>1 DEF Sound, Types
<1>6. PlacesAreApart'
  <2>1. Idle' = Idle
    BY DEF Idle
  <2> QED BY <1>1, <1>2, <2>1 DEF Sound, PlacesAreApart
<1>7. EdgesGoOnce' /\ OneRemoves'
  <2>1. Idle.at = "idle"
    BY DEF Idle
  <2> QED BY <1>1, <1>2, <2>1 DEF EdgesGoOnce, OneRemoves
<1>8. CountsAgree'
  <2> SUFFICES ASSUME NEW c \in active PROVE Count(c)'
    BY <1>1 DEF CountsAgree
  <2>1. phase # "select" /\ phase' # "select"
    BY <1>1
  <2> QED BY <1>1, <1>4, <2>1, CountStays
<1>9. PeeledAreSettled'
  <2> SUFFICES ASSUME NEW c \in Vertices \ active PROVE Settled(c)'
    BY <1>1 DEF PeeledAreSettled
  <2> QED BY <1>1, <1>4, SettledStays
<1>10. CoresAreActive'
  BY <1>1, GraphStays DEF Sound, CoresAreActive
<1> QED BY <1>5, <1>6, <1>7, <1>8, <1>9, <1>10 DEF Sound

LEMMA InitSound ==
  ASSUME Init
  PROVE  Sound
<1>1. /\ graph \in Graphs /\ no_reduce \in EmptyRounds
      /\ coreness = [v \in Vertices |-> Degree(v)]
      /\ active = {v \in Vertices : Degree(v) > 0}
      /\ sample_mode = {v \in Vertices : Degree(v) > sample_threshold}
      /\ shards = [v \in Vertices |-> IF v \in sample_mode THEN distribute(Degree(v)) ELSE Unused]
      /\ frontier = {} /\ next_frontier = {} /\ resample = {} /\ work = {} /\ k = 0
      /\ phase = "round" /\ job = [w \in Workers |-> Idle]
  BY DEF Init
<1>2. /\ \A v \in Vertices : Degree(v) \in Nat /\ Degree(v) = Cardinality(In(v, Vertices))
      /\ Cardinality(Vertices) \in Nat
  BY <1>1, DegreesAre
<1>3. sample_threshold \in Nat /\ sample_threshold >= W /\ W \in Nat /\ EmptyRounds \subseteq Nat
  BY KCoreAssumption
<1>4. \A v \in sample_mode : /\ v \in Vertices /\ v \in active /\ distribute(Degree(v)) \in [Workers -> Int]
                             /\ Total(distribute(Degree(v))) = Degree(v)
                             /\ \A w \in Workers : distribute(Degree(v))[w] > 0
  <2> SUFFICES ASSUME NEW v \in sample_mode
               PROVE  /\ v \in Vertices /\ v \in active /\ distribute(Degree(v)) \in [Workers -> Int]
                      /\ Total(distribute(Degree(v))) = Degree(v)
                      /\ \A w \in Workers : distribute(Degree(v))[w] > 0
    OBVIOUS
  <2>1. v \in Vertices /\ Degree(v) \in Nat /\ Degree(v) > sample_threshold
    BY <1>1, <1>2
  <2>2. Degree(v) >= W /\ Degree(v) > 0
    BY <1>3, <2>1
  <2>3. PICK n \in Nat : n = Degree(v) /\ n >= W
    BY <2>1, <2>2
  <2> QED BY <1>1, <2>1, <2>2, <2>3, DistributeKeeps
<1>5. Types
  <2>1. Unused \in [Workers -> Int]
    BY DEF Unused
  <2>2. shards \in [Vertices -> [Workers -> Int]]
    BY <1>1, <1>4, <2>1
  <2>3. coreness \in [Vertices -> Nat]
    BY <1>1, <1>2
  <2>4. job \in [Workers -> Jobs]
    BY <1>1 DEF Jobs
  <2>5. sample_mode \subseteq active
    BY <1>4
  <2> QED BY <1>1, <1>2, <1>3, <2>2, <2>3, <2>4, <2>5 DEF Types
<1>6. Idle.at = "idle" /\ \A w \in Workers : job[w] = Idle
  BY <1>1 DEF Idle
<1>7. PlacesAreApart /\ EdgesGoOnce /\ OneRemoves
  BY <1>1, <1>6 DEF PlacesAreApart, EdgesGoOnce, OneRemoves
<1>8. \A d \in Vertices : Restoring(d) = {} /\ ~ Busy(d) /\ ~ Removing(d) /\ Added(d) = 0
  <2>1. \A d \in Vertices : Restoring(d) = {} /\ ~ Busy(d) /\ ~ Removing(d)
    BY <1>6 DEF Restoring, Busy, Removing
  <2> QED BY <2>1, FS_EmptySet DEF Added
<1>9. ASSUME NEW d \in Vertices PROVE Left(d) = Degree(d)
  <2>1. \A e \in graph : e[1] \in active
    <3> SUFFICES ASSUME NEW e \in graph PROVE Degree(e[1]) > 0
      BY <1>1, GraphIs
    <3>1. e[1] \in Vertices /\ e \in {a \in graph : a[1] = e[1]}
      BY <1>1, GraphIs
    <3>2. Degree(e[1]) \in Nat /\ IsFiniteSet({a \in graph : a[1] = e[1]})
      BY <1>1, <1>2, <3>1, EdgesAreFinite
    <3>3. Degree(e[1]) # 0
      BY <3>1, <3>2, FS_EmptySet DEF Degree
    <3> QED BY <3>2, <3>3
  <2>2. Remaining(d) = In(d, Vertices)
    BY <1>1, <2>1, GraphIs DEF Remaining, In
  <2> QED BY <1>2, <2>2 DEF Left
<1>10. CountsAgree
  <2> SUFFICES ASSUME NEW d \in active PROVE Count(d)
    BY DEF CountsAgree
  <2>1. d \in Vertices /\ Degree(d) \in Nat /\ Degree(d) > 0 /\ Left(d) = Degree(d) /\ coreness[d] = Degree(d)
    BY <1>1, <1>2, <1>9
  <2>2. CASE d \in sample_mode
    <3>1. shards[d] = distribute(Degree(d))
      BY <1>1, <2>1, <2>2
    <3>2. SampledCount(d)
      BY <1>1, <1>4, <1>8, <2>1, <2>2, <3>1 DEF SampledCount
    <3> QED BY <2>2, <3>2 DEF Count
  <2>3. CASE d \notin sample_mode
    <3>1. ExactCount(d)
      BY <1>1, <1>8, <2>1 DEF ExactCount
    <3> QED BY <1>8, <2>1, <2>3, <3>1 DEF Count
  <2> QED BY <2>2, <2>3
<1>11. ASSUME NEW d \in Core(1) PROVE d \in active
  <2>1. d \in Vertices /\ Cardinality(In(d, Core(1))) >= 1
    BY <1>1, CoresAre
  <2>2. Cardinality(In(d, Core(1))) <= Degree(d) /\ Cardinality(In(d, Core(1))) \in Nat /\ Degree(d) \in Nat
    BY <1>1, <2>1, DegreesAre
  <2> QED BY <1>1, <2>1, <2>2
<1>12. Vertices \subseteq Core(0)
  <2>1. \A v \in Vertices : Cardinality(In(v, Vertices)) >= 0
    BY <1>2
  <2> QED BY <1>1, <2>1, CoresAre
<1>13. PeeledAreSettled
  <2> SUFFICES ASSUME NEW d \in Vertices, d \notin active PROVE Settled(d)
    BY DEF PeeledAreSettled
  <2>1. coreness[d] = 0 /\ Added(d) = 0 /\ ~ Busy(d)
    BY <1>1, <1>2, <1>8
  <2> QED BY <1>11, <1>12, <2>1 DEF Settled
<1>14. CoresAreActive
  BY <1>1, <1>11, <1>12 DEF CoresAreActive
<1> QED BY <1>5, <1>7, <1>10, <1>13, <1>14 DEF Sound

LEMMA StepSound ==
  ASSUME Sound, [Next]_vars
  PROVE  Sound'
<1>1. CASE Round
  BY <1>1, RoundSound
<1>2. CASE Select
  BY <1>2, SelectSound
<1>3. CASE Consumed
  BY <1>3, ConsumedSound
<1>4. CASE Swap
  BY <1>4, SwapSound
<1>5. CASE Done \/ UNCHANGED vars
  <2>1. UNCHANGED vars
    BY <1>5 DEF Done
  <2>2. graph' = graph /\ job' = job /\ coreness' = coreness /\ k' = k /\ phase' = phase
    BY <2>1 DEF vars
  <2>3. Types' /\ PlacesAreApart' /\ EdgesGoOnce' /\ OneRemoves'
    <3>1. Jobs' = Jobs /\ Idle' = Idle
      BY <2>2, GraphStays
    <3>2. Types'
      BY <2>1, <3>1 DEF Sound, Types, vars
    <3>3. PlacesAreApart'
      BY <2>1, <3>1 DEF Sound, PlacesAreApart, vars
    <3>4. EdgesGoOnce' /\ OneRemoves'
      BY <2>1 DEF Sound, EdgesGoOnce, OneRemoves, Waiting, vars
    <3> QED BY <3>2, <3>3, <3>4
  <2>4. active' = active /\ \A d : OthersWork(d) /\ Untouched(d)
    BY <2>1, <2>2, JobsStay, EdgesStay DEF OthersWork, Untouched, vars
  <2>5. CountsAgree'
    <3> SUFFICES ASSUME NEW c \in active PROVE Count(c)'
      BY <2>4 DEF CountsAgree
    <3>1. phase # "select" \/ phase' = "select"
      BY <2>2
    <3> QED BY <2>2, <2>4, <3>1, CountStays
  <2>6. PeeledAreSettled'
    <3> SUFFICES ASSUME NEW c \in Vertices \ active PROVE Settled(c)'
      BY <2>4 DEF PeeledAreSettled
    <3>1. coreness'[c] = coreness[c]
      BY <2>2
    <3> QED BY <2>2, <2>4, <3>1, SettledStays
  <2>7. CoresAreActive'
    BY <2>2, <2>4, GraphStays DEF Sound, CoresAreActive
  <2> QED BY <2>3, <2>5, <2>6, <2>7 DEF Sound
<1>6. CASE \E s \in Vertices : Take(s) \/ Resample(s)
  BY <1>6, TakeSound, ResampleSound
<1>7. CASE \E w \in Workers : \E e \in work : Visit(w, e)
  BY <1>7, VisitSound
<1>8. CASE \E w \in Workers : PeelSub(w) \/ PeelAdd(w) \/ Remove(w)
  BY <1>8, PeelSubSound, PeelAddSound, RemoveSound
<1> QED BY <1>1, <1>2, <1>3, <1>4, <1>5, <1>6, <1>7, <1>8 DEF Next

(***************************************************************************)
(* The invariant that makes the others inductive: what each worker may     *)
(* still subtract or add back is known, so the counts of the vertices, in  *)
(* shards or not, agree with the edges that are left, and what was peeled  *)
(* in this round was in the core of k and in no higher one.                *)
(***************************************************************************)
THEOREM CountingIsSound == Spec => []Sound
<1> QED BY InitSound, StepSound, PTL DEF Spec

-----------------------------------------------------------------------------
(* What the decomposition finds. *)

LEMMA CorenessIs ==
  ASSUME graph \in Graphs, NEW v \in Vertices
  PROVE  /\ Coreness[v] \in Nat /\ \A c \in Nat : v \in Core(c) => c <= Coreness[v] /\ c <= Degree(v)
         /\ v \in Core(Coreness[v]) /\ v \notin Core(Coreness[v] + 1)
<1> DEFINE n == Cardinality(Vertices)
           S == {c \in 0..n : v \in Core(c)}
<1>1. n \in Nat /\ Degree(v) \in Nat /\ Degree(v) < n
  BY DegreesAre
<1>2. \A c \in Nat : v \in Core(c) => c <= Degree(v)
  <2> SUFFICES ASSUME NEW c \in Nat, v \in Core(c) PROVE c <= Degree(v)
    OBVIOUS
  <2>1. Cardinality(In(v, Core(c))) >= c
    BY CoresAre
  <2>2. Cardinality(In(v, Core(c))) \in Nat /\ Cardinality(In(v, Core(c))) <= Degree(v)
    BY DegreesAre
  <2> QED BY <1>1, <2>1, <2>2
<1> HIDE DEF n
<1>3. v \in Core(0)
  <2>1. \A u \in Vertices : Cardinality(In(u, Vertices)) >= 0
    BY DegreesAre
  <2> QED BY <2>1, CoresAre
<1>4. \A c \in Nat : v \in Core(c) => c \in S
  BY <1>1, <1>2
<1>5. S \in SUBSET Int /\ S # {} /\ \A q \in S : q <= n
  BY <1>1, <1>3, <1>4
<1>6. Coreness[v] = Max(S)
  BY DEF Coreness, n
<1>7. Max(S) \in S /\ \A q \in S : q <= Max(S)
  <2> HIDE DEF S
  <2>1. n \in Int
    BY <1>1
  <2>2. PICK b \in Int : \A q \in S : q <= b
    BY <1>5, <2>1
  <2> QED BY <1>5, <2>2, MaxIsGreatest
<1>8. PICK m \in Nat : m = Max(S) /\ v \in Core(m) /\ \A c \in Nat : v \in Core(c) => c <= m
  <2>1. PICK m \in S : m = Max(S) /\ \A q \in S : q <= m
    BY <1>7
  <2>2. m \in Nat /\ v \in Core(m)
    BY <1>1, <2>1
  <2> HIDE DEF S
  <2> QED BY <1>4, <2>1, <2>2
<1>9. v \notin Core(m + 1)
  <2>1. m + 1 \in Nat /\ ~ m + 1 <= m
    OBVIOUS
  <2> QED BY <1>8, <2>1
<1> HIDE DEF S
<1> QED BY <1>2, <1>6, <1>8, <1>9

LEMMA SoundTypes == Sound => TypeOK
<1> SUFFICES ASSUME Sound PROVE TypeOK
  OBVIOUS
<1>1. Types
  BY DEF Sound
<1>2. graph \in Graphs /\ k \in Nat /\ k <= Cardinality(Vertices) /\ Cardinality(Vertices) \in Nat
  BY <1>1, DegreesAre DEF Types
<1>3. ASSUME NEW v \in Vertices PROVE coreness[v] \in 0..Cardinality(Vertices)
  <2>1. /\ coreness[v] \in Nat /\ Added(v) \in Nat /\ Left(v) \in Nat /\ Left(v) <= Degree(v)
        /\ Degree(v) \in Nat /\ Degree(v) < Cardinality(Vertices)
    BY <1>1, <1>2, CountsAre, DegreesAre DEF Types
  <2>2. CASE v \in active
    <3>1. Count(v)
      BY <2>2 DEF Sound, CountsAgree
    <3>2. coreness[v] = Degree(v) \/ coreness[v] + Added(v) = k \/ coreness[v] = Left(v)
      BY <3>1 DEF Count, SampledCount, RemovedCount, ExactCount
    <3> QED BY <1>2, <2>1, <3>2
  <2>3. CASE v \notin active
    <3>1. PICK c \in Nat : c = coreness[v] + Added(v)
      BY <2>1
    <3>2. v \in Core(c)
      BY <2>3, <3>1 DEF Sound, PeeledAreSettled, Settled
    <3>3. c <= Degree(v)
      BY <1>2, <3>2, CorenessIs
    <3> QED BY <1>2, <2>1, <3>1, <3>3
  <2> QED BY <2>2, <2>3
<1>4. coreness \in [Vertices -> 0..Cardinality(Vertices)]
  BY <1>1, <1>3 DEF Types
<1>5. k \in 0..Cardinality(Vertices)
  BY <1>2
<1>6. work \subseteq {e \in graph : e[2] \in active}
  BY <1>1 DEF Sound, Types, EdgesGoOnce
<1>7. /\ active \cap frontier = {} /\ active \cap next_frontier = {} /\ frontier \cap next_frontier = {}
  BY DEF Sound, PlacesAreApart
<1> QED BY <1>1, <1>4, <1>5, <1>6, <1>7 DEF Types, TypeOK, Jobs

LEMMA SoundRounds ==
  ASSUME Sound, phase = "round"
  PROVE  /\ active = {v \in Vertices : Coreness[v] > k}
         /\ \A v \in Vertices \ active : coreness[v] = Coreness[v]
<1>1. graph \in Graphs /\ k \in Nat /\ active \subseteq Vertices /\ coreness \in [Vertices -> Nat]
  BY DEF Sound, Types
<1>2. ASSUME NEW v \in Vertices PROVE v \in active <=> Coreness[v] > k
  <2>1. PICK m \in Nat, a \in Nat : m = Coreness[v] /\ a = k + 1
    BY <1>1, CorenessIs
  <2>2. v \in Core(m) /\ \A c \in Nat : v \in Core(c) => c <= m
    BY <1>1, <2>1, CorenessIs
  <2>3. v \in active <=> v \in Core(a)
    BY <2>1, RoundsHave
  <2>4. m >= a => v \in Core(a)
    BY <1>1, <2>2, CoresAre
  <2>5. v \in active <=> a <= m
    BY <2>2, <2>3, <2>4
  <2> QED BY <1>1, <2>1, <2>5
<1>3. ASSUME NEW v \in Vertices \ active PROVE coreness[v] = Coreness[v]
  <2>1. PICK m \in Nat, c \in Nat : m = Coreness[v] /\ c = coreness[v]
    BY <1>1, CorenessIs
  <2>2. v \in Core(m) /\ \A b \in Nat : v \in Core(b) => b <= m
    BY <1>1, <2>1, CorenessIs
  <2>3. Added(v) = 0
    BY QuietHas
  <2>4. c + Added(v) = c /\ c + Added(v) + 1 = c + 1
    BY <2>3
  <2>5. v \in Core(c) /\ v \notin Core(c + 1)
    <3>1. Settled(v)
      BY DEF Sound, PeeledAreSettled
    <3> QED BY <2>1, <2>4, <3>1 DEF Settled
  <2>6. c <= m
    BY <2>2, <2>5
  <2>7. ~ c + 1 <= m
    <3>1. c + 1 \in Nat
      OBVIOUS
    <3> QED BY <1>1, <2>2, <2>5, <3>1, CoresAre
  <2>8. c = m
    BY <2>6, <2>7
  <2> QED BY <2>1, <2>8
<1> QED BY <1>1, <1>2, <1>3

LEMMA SoundCounts == Sound => CountsAreExact /\ SampledAreWatched
<1> SUFFICES ASSUME Sound PROVE CountsAreExact /\ SampledAreWatched
  OBVIOUS
<1>1. \A d \in active : Count(d)
  BY DEF Sound, CountsAgree
<1>2. active \subseteq Vertices /\ sample_mode \subseteq active /\ Types /\ k \in Nat
  BY DEF Sound, Types
<1>3. ASSUME NEW d \in active
      PROVE  IF d \in sample_mode
             THEN Total(shards[d]) + k = Cardinality(Remaining(d))
             ELSE \/ coreness[d] + Cardinality(Restoring(d)) = Cardinality(Remaining(d))
                  \/ /\ \E w \in Workers : job[w].at = "remove" /\ job[w].edge[2] = d
                     /\ coreness[d] + Cardinality(Restoring(d)) = k /\ Cardinality(Remaining(d)) <= k
  <2>1. Count(d) /\ d \in Vertices
    BY <1>1, <1>2
  <2>2. Left(d) \in Nat /\ Added(d) \in Nat /\ coreness[d] \in Nat
    BY <1>2, <2>1, CountsAre DEF Types
  <2>3. CASE d \in sample_mode
    BY <2>1, <2>3 DEF Count, SampledCount, Left
  <2>4. CASE d \notin sample_mode /\ Removing(d)
    <3>1. coreness[d] + Added(d) = k /\ Left(d) + Added(d) <= k
      BY <2>1, <2>4 DEF Count, RemovedCount
    <3>2. Left(d) <= k
      BY <1>2, <2>2, <3>1
    <3> QED BY <2>4, <3>1, <3>2 DEF Removing, Left, Added
  <2>5. CASE d \notin sample_mode /\ ~ Removing(d)
    <3>1. coreness[d] = Left(d) /\ Added(d) = 0
      BY <2>1, <2>5, FS_EmptySet DEF Count, ExactCount, Added
    <3>2. coreness[d] + Added(d) = Left(d)
      BY <2>2, <3>1
    <3> QED BY <2>5, <3>2 DEF Left, Added
  <2> QED BY <2>3, <2>4, <2>5
<1>4. SampledAreWatched
  BY <1>1, <1>2 DEF SampledAreWatched, Count, SampledCount
<1>5. CountsAreExact
  BY <1>3 DEF CountsAreExact
<1> QED BY <1>4, <1>5

(* A vertex is in one place, coreness does not wrap although peel subtracts *)
(* before it compares, the counts are those of the edges left, no sampled   *)
(* vertex is forgotten, and round k leaves the core of k + 1.               *)
THEOREM CountsAreKept == Spec => []KCoreInvariant
<1>1. Sound => KCoreInvariant
  BY SoundTypes, SoundRounds, SoundCounts DEF KCoreInvariant, RoundsPeelTheirCores
<1> QED BY <1>1, CountingIsSound, PTL

(* The decomposition ends with the coreness of every vertex. *)
THEOREM CorenessIsFound == Spec => []FindsCoreness
<1>1. Sound => FindsCoreness
  <2> SUFFICES ASSUME Sound, Ended PROVE coreness = Coreness
    BY DEF FindsCoreness
  <2>1. \A v \in Vertices : coreness[v] = Coreness[v]
    BY SoundRounds DEF Ended
  <2>2. coreness = [v \in Vertices |-> coreness[v]]
    BY DEF Sound, Types
  <2>3. Coreness = [v \in Vertices |-> Coreness[v]]
    BY DEF Coreness
  <2> QED BY <2>1, <2>2, <2>3
<1> QED BY <1>1, CountingIsSound, PTL

(* Every round raises k, even one that takes it back because somebody in    *)
(* sample_mode had fewer edges left.                                        *)
THEOREM RoundsRaiseK == Spec => KRises
<1>1. Sound /\ [Next]_vars => [phase = "round" /\ phase' # "round" => k' > k]_vars
  <2> SUFFICES ASSUME Sound, Next, phase = "round", phase' # "round" PROVE k' > k
    BY DEF vars
  <2>1. CASE Round
    BY <2>1, RoundDoes
  <2>2. ~ Select /\ ~ Consumed /\ ~ Swap /\ ~ Done /\ \A s \in Vertices : ~ Take(s) /\ ~ Resample(s)
    BY DEF Select, Consumed, Swap, Done, Take, Resample, vars
  <2>3. \A w \in Workers : job[w].at = "idle"
    BY QuietHas DEF Idle
  <2>4. \A w \in Workers : ~ PeelSub(w) /\ ~ PeelAdd(w) /\ ~ Remove(w) /\ \A e \in work : ~ Visit(w, e)
    BY <2>3 DEF PeelSub, PeelAdd, Remove, Visit
  <2> QED BY <2>1, <2>2, <2>4 DEF Next
<1> QED BY <1>1, CountingIsSound, PTL DEF Spec, KRises

=============================================================================
